------------------------ MODULE SSTableFormatProofs ------------------------
(***************************************************************************)
(* Theorems about SSTableFormat for every set of keys, every memtable with *)
(* finitely many of them, values of any length and a cut at any byte: the  *)
(* offsets in the index lead to the values, so search and scan are right.  *)
(***************************************************************************)
EXTENDS SSTableFormat, Loops, FiniteSetTheorems, SequenceTheorems

-----------------------------------------------------------------------------
(***************************************************************************)
(* Sums over finite sets of keys.  Total adds up sizes in an order that is *)
(* not given; these lemmas show that the order does not matter.            *)
(***************************************************************************)

\* One step of the sum over s, when g has the sums of the smaller sets.
Picked(s) == CHOOSE x \in s : TRUE
SumStep(g, f, s) == IF s = {} THEN 0 ELSE f[Picked(s)] + g[s \ {Picked(s)}]
Summing(g, f, S) == g = [s \in SUBSET S |-> SumStep(g, f, s)]
GivesTotals(g, f, S) == Summing(g, f, S) /\ \A s \in SUBSET S : Total(f, s) = g[s]

\* Taking a member from a finite set leaves a set with one member less.
LEMMA OneLess ==
  ASSUME NEW s, IsFiniteSet(s), NEW x \in s
  PROVE  /\ IsFiniteSet(s \ {x}) /\ Cardinality(s) \in Nat \ {0}
         /\ Cardinality(s \ {x}) = Cardinality(s) - 1
<1>1. IsFiniteSet(s \ {x}) /\ Cardinality(s \ {x}) = Cardinality(s) - 1
  BY FS_RemoveElement
<1>2. Cardinality(s) \in Nat /\ (Cardinality(s) = 0 <=> s = {})
  BY FS_CardinalityType, FS_EmptySet
<1> QED BY <1>1, <1>2

\* The subsets of a finite set are finite and not larger.
LEMMA SubsetSize ==
  ASSUME NEW S, IsFiniteSet(S), NEW s \in SUBSET S
  PROVE  /\ IsFiniteSet(s) /\ Cardinality(s) \in Nat /\ Cardinality(S) \in Nat
         /\ Cardinality(s) <= Cardinality(S)
         /\ Cardinality(s) = 0 <=> s = {}
BY FS_Subset, FS_CardinalityType, FS_EmptySet

\* The recursion of the sum has a solution.
LEMMA SumExists ==
  ASSUME NEW S, IsFiniteSet(S), NEW f, \A x \in S : f[x] \in Nat
  PROVE  \E g \in [SUBSET S -> Nat] : Summing(g, f, S)
<1> DEFINE n == Cardinality(S)
           Upto(g, m) == \A s \in SUBSET S : Cardinality(s) <= m => g[s] = SumStep(g, f, s)
           M == {m \in 0 .. n : \E g \in [SUBSET S -> Nat] : Upto(g, m)}
<1>1. n \in Nat
  BY FS_CardinalityType
<1>2. 0 \in M
  <2> DEFINE g == [s \in SUBSET S |-> 0]
  <2>1. g \in [SUBSET S -> Nat]
    OBVIOUS
  <2>2. ASSUME NEW s \in SUBSET S, Cardinality(s) <= 0 PROVE s = {}
    BY <2>2, SubsetSize
  <2>3. Upto(g, 0)
    BY <2>2 DEF SumStep
  <2> HIDE DEF g, Upto
  <2> QED BY <1>1, <2>1, <2>3
<1>3. ASSUME NEW m \in 1 .. n, m - 1 \in M PROVE m \in M
  <2>1. PICK g \in [SUBSET S -> Nat] : Upto(g, m - 1)
    BY <1>3
  <2> DEFINE h == [s \in SUBSET S |-> IF Cardinality(s) <= m - 1 THEN g[s] ELSE SumStep(g, f, s)]
  <2>2. ASSUME NEW s \in SUBSET S, s # {}
        PROVE  /\ Picked(s) \in s /\ s \ {Picked(s)} \in SUBSET S
               /\ Cardinality(s) \in Nat /\ Cardinality(s \ {Picked(s)}) = Cardinality(s) - 1
    <3>1. Picked(s) \in s
      BY <2>2 DEF Picked
    <3> QED BY <3>1, OneLess, SubsetSize
  <2>3. \A s \in SUBSET S : SumStep(g, f, s) \in Nat
    BY <2>2 DEF SumStep
  <2>4. h \in [SUBSET S -> Nat]
    BY <2>3
  <2>5. ASSUME NEW s \in SUBSET S, Cardinality(s) <= m PROVE h[s] = SumStep(h, f, s)
    <3>1. CASE s = {}
      BY <2>1, <3>1 DEF SumStep
    <3>2. CASE s # {}
      <4> DEFINE r == s \ {Picked(s)}
      <4>1. r \in SUBSET S /\ Cardinality(r) <= m - 1
        BY <2>2, <2>5, <3>2
      <4>2. h[r] = g[r]
        BY <4>1
      <4>3. SumStep(h, f, s) = SumStep(g, f, s)
        BY <4>2 DEF SumStep
      <4>4. h[s] = SumStep(g, f, s)
        BY <2>1
      <4> QED BY <4>3, <4>4
    <3> QED BY <3>1, <3>2
  <2> HIDE DEF h
  <2>6. Upto(h, m)
    BY <2>5
  <2> QED BY <2>4, <2>6
<1>4. \A m \in 0 .. n : m \in M
  <2> HIDE DEF M, n
  <2> QED BY <1>1, <1>2, <1>3, UpTo
<1>5. n \in M
  <2> HIDE DEF M
  <2> QED BY <1>1, <1>4
<1>6. PICK g \in [SUBSET S -> Nat] : Upto(g, n)
  BY <1>5
<1>7. \A s \in SUBSET S : g[s] = SumStep(g, f, s)
  BY <1>6, SubsetSize
<1>8. Summing(g, f, S)
  BY <1>7 DEF Summing
<1> QED BY <1>8

\* It has only one, also where two sets overlap.
LEMMA SumUnique ==
  ASSUME NEW S, NEW T, NEW f, NEW g, NEW h, Summing(g, f, S), Summing(h, f, T),
         NEW r, IsFiniteSet(r), r \subseteq S, r \subseteq T
  PROVE  g[r] = h[r]
<1> DEFINE n == Cardinality(r)
           M == {m \in 0 .. n : \A s \in SUBSET r : Cardinality(s) <= m => g[s] = h[s]}
<1>1. n \in Nat
  BY FS_CardinalityType
<1>2. \A s \in SUBSET r : g[s] = SumStep(g, f, s) /\ h[s] = SumStep(h, f, s)
  BY DEF Summing
<1>3. 0 \in M
  <2>1. ASSUME NEW s \in SUBSET r, Cardinality(s) <= 0 PROVE g[s] = h[s]
    <3>1. s = {}
      BY <2>1, SubsetSize
    <3> QED BY <1>2, <3>1 DEF SumStep
  <2> QED BY <1>1, <2>1
<1>4. ASSUME NEW m \in 1 .. n, m - 1 \in M PROVE m \in M
  <2>1. ASSUME NEW s \in SUBSET r, Cardinality(s) <= m PROVE g[s] = h[s]
    <3>1. CASE s = {}
      BY <1>2, <3>1 DEF SumStep
    <3>2. CASE s # {}
      <4> DEFINE p == s \ {Picked(s)}
      <4>1. Picked(s) \in s
        BY <3>2 DEF Picked
      <4>2. IsFiniteSet(s) /\ Cardinality(s) \in Nat
        BY SubsetSize
      <4>3. Cardinality(p) = Cardinality(s) - 1
        BY <4>1, <4>2, OneLess
      <4>4. p \in SUBSET r /\ Cardinality(p) <= m - 1
        BY <2>1, <4>2, <4>3
      <4>5. g[p] = h[p]
        BY <1>4, <4>4
      <4> QED BY <1>2, <4>5 DEF SumStep
    <3> QED BY <3>1, <3>2
  <2> QED BY <1>1, <2>1
<1>5. \A m \in 0 .. n : m \in M
  <2> HIDE DEF M, n
  <2> QED BY <1>1, <1>3, <1>4, UpTo
<1>6. n \in M
  BY <1>1, <1>5
<1> QED BY <1>1, <1>6

\* Total over any set of keys is what one solution gives.
LEMMA TotalIsSum ==
  ASSUME NEW S, IsFiniteSet(S), NEW f, \A x \in S : f[x] \in Nat
  PROVE  \E g \in [SUBSET S -> Nat] : GivesTotals(g, f, S)
<1>1. PICK g \in [SUBSET S -> Nat] : Summing(g, f, S)
  BY SumExists
<1>2. ASSUME NEW s \in SUBSET S PROVE Total(f, s) = g[s]
  <2>1. IsFiniteSet(s)
    BY SubsetSize
  <2>2. PICK j : Summing(j, f, s)
    BY <2>1, SumExists
  <2> DEFINE c == CHOOSE h : Summing(h, f, s)
  <2>3. Summing(c, f, s)
    <3> HIDE DEF Summing
    <3> QED BY <2>2
  <2>4. Total(f, s) = c[s]
    BY DEF Total, MapThenSumSet, MapThenFoldSet, Summing, SumStep, Picked
  <2> HIDE DEF c
  <2>5. c[s] = g[s]
    BY <1>1, <2>1, <2>3, SumUnique
  <2> QED BY <2>4, <2>5
<1> QED BY <1>1, <1>2 DEF GivesTotals

\* A sum of sizes is a size; nothing adds up to 0.
LEMMA TotalType ==
  ASSUME NEW S, IsFiniteSet(S), NEW f, \A x \in S : f[x] \in Nat
  PROVE  Total(f, S) \in Nat /\ Total(f, {}) = 0
<1>0. PICK g \in [SUBSET S -> Nat] : GivesTotals(g, f, S)
  BY TotalIsSum
<1>1. Summing(g, f, S) /\ \A s \in SUBSET S : Total(f, s) = g[s]
  BY <1>0 DEF GivesTotals
<1>2. g[{}] = 0
  BY <1>1 DEF Summing, SumStep
<1> QED BY <1>1, <1>2

\* Any member can be taken out of a sum.
LEMMA TotalRemove ==
  ASSUME NEW S, IsFiniteSet(S), NEW f, \A x \in S : f[x] \in Nat, NEW y \in S
  PROVE  Total(f, S) = f[y] + Total(f, S \ {y})
<1>0. PICK g \in [SUBSET S -> Nat] : GivesTotals(g, f, S)
  BY TotalIsSum
<1>1. Summing(g, f, S) /\ \A s \in SUBSET S : Total(f, s) = g[s]
  BY <1>0 DEF GivesTotals
<1>2. \A s \in SUBSET S : g[s] = SumStep(g, f, s)
  BY <1>1 DEF Summing
<1> DEFINE n == Cardinality(S)
           Any(s) == \A x \in s : g[s] = f[x] + g[s \ {x}]
           M == {m \in 0 .. n : \A s \in SUBSET S : Cardinality(s) <= m => Any(s)}
<1>3. n \in Nat
  BY FS_CardinalityType
<1>4. 0 \in M
  <2>1. ASSUME NEW s \in SUBSET S, Cardinality(s) <= 0 PROVE Any(s)
    <3>1. s = {}
      BY <2>1, SubsetSize
    <3> QED BY <3>1
  <2> HIDE DEF Any
  <2> QED BY <1>3, <2>1
<1>5. ASSUME NEW m \in 1 .. n, m - 1 \in M PROVE m \in M
  <2>1. ASSUME NEW s \in SUBSET S, Cardinality(s) <= m, NEW x \in s PROVE g[s] = f[x] + g[s \ {x}]
    <3> DEFINE p == Picked(s)
    <3>1. p \in s /\ g[s] = f[p] + g[s \ {p}]
      BY <1>2 DEF SumStep, Picked
    <3> HIDE DEF p
    <3>2. CASE p = x
      BY <3>1, <3>2
    <3>3. CASE p # x
      <4>1. IsFiniteSet(s) /\ Cardinality(s) \in Nat
        BY SubsetSize
      <4>2. Cardinality(s \ {p}) = Cardinality(s) - 1 /\ Cardinality(s \ {x}) = Cardinality(s) - 1
        BY <3>1, <4>1, OneLess
      <4>3. /\ s \ {p} \in SUBSET S /\ x \in s \ {p} /\ Cardinality(s \ {p}) <= m - 1
            /\ s \ {x} \in SUBSET S /\ p \in s \ {x} /\ Cardinality(s \ {x}) <= m - 1
        BY <2>1, <3>1, <3>3, <4>1, <4>2
      <4>4. g[s \ {p}] = f[x] + g[(s \ {p}) \ {x}] /\ g[s \ {x}] = f[p] + g[(s \ {x}) \ {p}]
        BY <1>5, <4>3
      <4>5. (s \ {p}) \ {x} = (s \ {x}) \ {p} /\ (s \ {p}) \ {x} \in SUBSET S
        OBVIOUS
      <4>6. f[x] \in Nat /\ f[p] \in Nat /\ g[(s \ {p}) \ {x}] \in Nat
        BY <1>1, <3>1, <4>5
      <4> DEFINE rest == g[(s \ {p}) \ {x}]
      <4>7. g[s] = f[p] + (f[x] + rest) /\ g[s \ {x}] = f[p] + rest
        BY <3>1, <4>4, <4>5
      <4> HIDE DEF rest
      <4>8. f[p] + (f[x] + rest) = f[x] + (f[p] + rest)
        BY <4>6 DEF rest
      <4> QED BY <4>7, <4>8
    <3> QED BY <3>2, <3>3
  <2> QED BY <1>3, <2>1
<1>6. \A m \in 0 .. n : m \in M
  <2> HIDE DEF M, n
  <2> QED BY <1>3, <1>4, <1>5, UpTo
<1>7. Any(S)
  <2>1. n \in M
    <3> HIDE DEF M
    <3> QED BY <1>3, <1>6
  <2> HIDE DEF Any
  <2> QED BY <1>3, <2>1
<1>8. g[S] = f[y] + g[S \ {y}]
  BY <1>7
<1> QED BY <1>1, <1>8

\* A member can be added to a sum.
LEMMA TotalAdd ==
  ASSUME NEW S, IsFiniteSet(S), NEW f, NEW y, y \notin S, \A x \in S \cup {y} : f[x] \in Nat
  PROVE  Total(f, S \cup {y}) = Total(f, S) + f[y]
<1> DEFINE T == S \cup {y}
<1>1. IsFiniteSet(T) /\ y \in T /\ T \ {y} = S /\ \A x \in T : f[x] \in Nat
  BY FS_AddElement
<1> HIDE DEF T
<1>2. Total(f, T) = f[y] + Total(f, T \ {y})
  BY <1>1, TotalRemove
<1>3. Total(f, S) \in Nat /\ f[y] \in Nat
  BY <1>1, TotalType
<1> QED BY <1>1, <1>2, <1>3 DEF T

\* A part of a sum is not larger than the sum.
LEMMA TotalMonotone ==
  ASSUME NEW S, IsFiniteSet(S), NEW f, \A x \in S : f[x] \in Nat, NEW r \in SUBSET S
  PROVE  Total(f, r) <= Total(f, S)
<1> DEFINE n == Cardinality(S)
           M == {m \in 0 .. n : \A s \in SUBSET S : r \subseteq s /\ Cardinality(s) <= m =>
                                  Total(f, r) <= Total(f, s)}
<1>1. n \in Nat /\ \A s \in SUBSET S : Total(f, s) \in Nat /\ IsFiniteSet(s)
  BY FS_CardinalityType, FS_Subset, TotalType
<1>2. ASSUME NEW s \in SUBSET S, r = s PROVE Total(f, r) <= Total(f, s)
  BY <1>1, <1>2
<1>3. 0 \in M
  <2>1. ASSUME NEW s \in SUBSET S, r \subseteq s, Cardinality(s) <= 0 PROVE r = s
    <3>1. s = {}
      BY <2>1, SubsetSize
    <3> QED BY <2>1, <3>1
  <2> QED BY <1>1, <1>2, <2>1
<1>4. ASSUME NEW m \in 1 .. n, m - 1 \in M PROVE m \in M
  <2>1. ASSUME NEW s \in SUBSET S, r \subseteq s, Cardinality(s) <= m
        PROVE  Total(f, r) <= Total(f, s)
    <3>1. CASE r # s
      <4>1. PICK x \in s : x \notin r
        BY <2>1, <3>1
      <4>2. Cardinality(s) \in Nat /\ Cardinality(s \ {x}) = Cardinality(s) - 1
        BY <1>1, OneLess
      <4>3. s \ {x} \in SUBSET S /\ r \subseteq s \ {x} /\ Cardinality(s \ {x}) <= m - 1
        BY <2>1, <4>1, <4>2
      <4>4. Total(f, r) <= Total(f, s \ {x})
        BY <1>4, <4>3
      <4>5. Total(f, s) = f[x] + Total(f, s \ {x}) /\ f[x] \in Nat
        BY <1>1, TotalRemove
      <4> QED BY <1>1, <4>3, <4>4, <4>5
    <3> QED BY <1>2, <3>1
  <2> QED BY <1>1, <2>1
<1>5. \A m \in 0 .. n : m \in M
  <2> HIDE DEF M, n
  <2> QED BY <1>1, <1>3, <1>4, UpTo
<1>6. n \in M
  <2> HIDE DEF M
  <2> QED BY <1>1, <1>5
<1> QED BY <1>1, <1>6

-----------------------------------------------------------------------------
(***************************************************************************)
(* The layout of the file.                                                 *)
(***************************************************************************)

\* The values of a memtable, and the sizes of the parts of its file.
Sized == memtable \in Table /\ IsFiniteSet(KeysOf(memtable))

LEMMA Sizes ==
  ASSUME Sized
  PROVE  /\ \A k \in KeysOf(memtable) :
              /\ k \in Key /\ k \in Nat /\ memtable[k] \in Value
              /\ ValueSize(memtable[k]) \in Nat /\ ValueSize(memtable[k]) >= 4
              /\ ValueSizes(memtable)[k] = ValueSize(memtable[k])
         /\ IndexSize(memtable) \in Nat /\ IndexSize(memtable) >= 8
         /\ \A W \in SUBSET KeysOf(memtable) : IsFiniteSet(W) /\ Total(ValueSizes(memtable), W) \in Nat
<1> DEFINE K == KeysOf(memtable)
           keySizes == [k \in K |-> U64 + KeyLength[k] + 2 * U64]
<1>1. ASSUME NEW k \in K
      PROVE  /\ k \in Key /\ k \in Nat /\ memtable[k] \in Value
             /\ ValueSize(memtable[k]) \in Nat /\ ValueSize(memtable[k]) >= 4
             /\ ValueSizes(memtable)[k] = ValueSize(memtable[k])
  <2>1. k \in Key /\ memtable[k] \in Value
    BY DEF Sized, KeysOf, Table, Entry
  <2>2. k \in Nat
    BY <2>1, KeyAssumption, FormatAssumption
  <2>3. ValueSize(memtable[k]) \in Nat /\ ValueSize(memtable[k]) >= 4
    BY <2>1, FormatAssumption DEF ValueSize, Value, U64
  <2> QED BY <2>1, <2>2, <2>3 DEF ValueSizes
<1>2. ASSUME NEW k \in K PROVE keySizes[k] \in Nat
  <2>1. KeyLength[k] \in Nat
    BY <1>1, FormatAssumption
  <2> QED BY <2>1 DEF U64
<1>3. IsFiniteSet(K)
  BY DEF Sized
<1> HIDE DEF K, keySizes
<1>4. Total(keySizes, K) \in Nat
  BY <1>2, <1>3, TotalType
<1>5. IndexSize(memtable) = 8 + Total(keySizes, K)
  BY DEF IndexSize, U64, keySizes, K
<1>6. ASSUME NEW W \in SUBSET K PROVE IsFiniteSet(W) /\ Total(ValueSizes(memtable), W) \in Nat
  <2>1. IsFiniteSet(W)
    BY <1>3, FS_Subset
  <2>2. \A k \in W : ValueSizes(memtable)[k] \in Nat
    BY <1>1
  <2> QED BY <2>1, <2>2, TotalType
<1> QED BY <1>1, <1>4, <1>5, <1>6 DEF K

\* The value of k is at Start(k), after the values of the smaller keys, and
\* ends before anything that is written after the smaller keys and k.
LEMMA ValuePlace ==
  ASSUME Sized, NEW k \in KeysOf(memtable), NEW W \in SUBSET KeysOf(memtable)
  PROVE  /\ Start(k) = U64 + IndexSize(memtable) + Total(ValueSizes(memtable), Below(memtable, k))
         /\ Start(k) \in Nat /\ Below(memtable, k) \in SUBSET KeysOf(memtable)
         /\ k \in W /\ Below(memtable, k) \subseteq W =>
              Start(k) + ValueSize(memtable[k])
                <= U64 + IndexSize(memtable) + Total(ValueSizes(memtable), W)
<1> DEFINE B == Below(memtable, k)
           f == ValueSizes(memtable)
           is == IndexSize(memtable)
           v == ValueSize(memtable[k])
<1>1. Start(k) = U64 + is + Total(f, B)
  BY DEF Start, Index
<1>2. B \in SUBSET KeysOf(memtable) /\ k \notin B
  BY Sizes DEF Below
<1>3. /\ IsFiniteSet(B) /\ IsFiniteSet(W) /\ Total(f, B) \in Nat /\ Total(f, W) \in Nat
      /\ is \in Nat /\ v \in Nat /\ f[k] = v
      /\ \A x \in KeysOf(memtable) : f[x] \in Nat
  BY <1>2, Sizes
<1> HIDE DEF B, f, is, v
<1>4. ASSUME k \in W, B \subseteq W PROVE Total(f, B) + v <= Total(f, W)
  <2>0. \A x \in B \cup {k} : f[x] \in Nat
    BY <1>2, <1>3
  <2>1. Total(f, B \cup {k}) = Total(f, B) + v
    BY <1>2, <1>3, <2>0, TotalAdd
  <2>2. B \cup {k} \in SUBSET W /\ \A x \in W : f[x] \in Nat
    BY <1>3, <1>4
  <2>3. Total(f, B \cup {k}) <= Total(f, W)
    BY <1>3, <2>2, TotalMonotone
  <2> QED BY <2>1, <2>3
<1>5. Start(k) \in Nat
  BY <1>1, <1>3 DEF U64
<1>6. ASSUME k \in W, B \subseteq W PROVE Start(k) + v <= U64 + is + Total(f, W)
  BY <1>1, <1>3, <1>4, <1>6 DEF U64
<1> QED BY <1>1, <1>2, <1>5, <1>6 DEF B, f, is, v

\* The key whose value is written next is the smallest one left.
LEMMA LeastKey ==
  ASSUME NEW S \in SUBSET Nat, S # {}
  PROVE  Min(S) \in S /\ \A k \in S : Min(S) <= k
<1> DEFINE R == OpToRel(<, Nat)
<1>1. IsWellFoundedOn(R, Nat)
  BY NatLessThanWellFounded
<1>2. PICK x \in S : \A y \in S : ~(<<y, x>> \in R)
  <2> HIDE DEF R
  <2> QED BY <1>1, WFMin
<1>3. ASSUME NEW y \in S PROVE x <= y
  <2>1. x \in Nat /\ y \in Nat /\ ~(y < x)
    BY <1>2 DEF OpToRel
  <2> QED BY <2>1
<1> QED BY <1>3 DEF Min

\* A part of n bytes.
LEMMA BytesType ==
  ASSUME NEW part \in Int, NEW n \in Nat
  PROVE  /\ Bytes(part, n) \in Seq(Int \X Nat) /\ Len(Bytes(part, n)) = n
         /\ \A i \in 1 .. n : Bytes(part, n)[i] = <<part, i>>
<1>1. Bytes(part, n) \in [1 .. n -> Int \X Nat]
  BY DEF Bytes
<1>2. Bytes(part, n) \in Seq(Int \X Nat)
  BY <1>1, IsASeq
<1>3. Len(Bytes(part, n)) = n
  BY <1>1, <1>2, LenProperties
<1> QED BY <1>2, <1>3 DEF Bytes

\* Appending a part to the file.
LEMMA AppendPart ==
  ASSUME file \in Seq(Int \X Nat), NEW part \in Int, NEW n \in Nat
  PROVE  LET f == file \o Bytes(part, n)
         IN  /\ f \in Seq(Int \X Nat) /\ Len(f) = Len(file) + n /\ Len(file) \in Nat
             /\ \A i \in 1 .. Len(file) : f[i] = file[i]
             /\ \A i \in 1 .. n : f[Len(file) + i] = <<part, i>>
<1> DEFINE f == file \o Bytes(part, n)
<1> DEFINE b == Bytes(part, n)
<1>1. b \in Seq(Int \X Nat) /\ Len(b) = n /\ \A i \in 1 .. n : b[i] = <<part, i>>
  BY BytesType
<1> HIDE DEF b
<1>2. /\ f \in Seq(Int \X Nat) /\ Len(f) = Len(file) + Len(b)
      /\ \A i \in 1 .. Len(file) + Len(b) :
           f[i] = IF i <= Len(file) THEN file[i] ELSE b[i - Len(file)]
  BY <1>1, ConcatProperties DEF b
<1>3. Len(file) \in Nat
  BY LenProperties
<1>4. \A i \in 1 .. Len(file) : f[i] = file[i]
  BY <1>1, <1>2, <1>3
<1>5. ASSUME NEW i \in 1 .. n PROVE f[Len(file) + i] = <<part, i>>
  <2>1. Len(file) + i \in 1 .. Len(file) + Len(b) /\ ~(Len(file) + i <= Len(file))
    BY <1>1, <1>3
  <2>2. (Len(file) + i) - Len(file) = i
    BY <1>3
  <2> QED BY <1>1, <1>2, <2>1, <2>2
<1> QED BY <1>1, <1>2, <1>3, <1>4, <1>5

\* A file that has not been written to is laid out.
LEMMA InitFormat == Init => TypeOK /\ FormatInv
<1> SUFFICES ASSUME Init PROVE TypeOK /\ FormatInv
  OBVIOUS
<1>1. file = <<>> /\ file \in Seq(Int \X Nat) /\ Len(file) = 0
  BY EmptySeq DEF Init
<1>2. Sized
  BY DEF Init, Sized
<1>3. BytesPlaced
  BY <1>1, <1>2, Sizes, ValuePlace DEF BytesPlaced, U64
<1> QED BY <1>1, <1>3 DEF Init, TypeOK, FormatInv, WrittenInOrder

\* SSTable::write puts each part where the index leads, and a cut moves none.
LEMMA NextFormat == TypeOK /\ FormatInv /\ [Next]_vars => (TypeOK /\ FormatInv)'
<1> SUFFICES ASSUME TypeOK, FormatInv, [Next]_vars PROVE (TypeOK /\ FormatInv)'
  OBVIOUS
<1>1. CASE UNCHANGED vars
  BY <1>1 DEF vars, TypeOK, FormatInv, BytesPlaced, WrittenInOrder, Start
<1> DEFINE K == KeysOf(memtable)
           is == IndexSize(memtable)
           sizes == ValueSizes(memtable)
           Size(k) == ValueSize(memtable[k])
<1>2. Sized /\ file \in Seq(Int \X Nat) /\ Len(file) \in Nat
  BY LenProperties DEF TypeOK, FormatInv, Sized
<1>3. is \in Nat /\ is >= 8
  BY <1>2, Sizes
<1>4. ASSUME NEW k \in K
      PROVE  k \in Nat /\ Start(k) \in Nat /\ Start(k) >= U64 + is /\ Size(k) \in Nat
  BY <1>2, <1>3, Sizes, ValuePlace DEF U64
<1>5. ASSUME Next, memtable' = memtable PROVE (memtable \in Table /\ IsFiniteSet(KeysOf(memtable)))'
  BY <1>5 DEF TypeOK, FormatInv
<1> DEFINE Header(f) == \A i \in 1 .. U64 : i <= Len(f) => f[i] = <<HeaderPart, i>>
           Indexed(f) == \A i \in 1 .. is : U64 + i <= Len(f) => f[U64 + i] = <<IndexPart, i>>
           Valued(f) == \A k \in K : \A i \in 1 .. Size(k) :
                          Start(k) + i <= Len(f) => f[Start(k) + i] = <<k, i>>
<1>6. Header(file) /\ Indexed(file) /\ Valued(file) /\ U64 \in Nat
  BY DEF FormatInv, BytesPlaced, U64
<1>7. ASSUME memtable' = memtable, Header(file'), Indexed(file'), Valued(file') PROVE BytesPlaced'
  BY <1>7 DEF BytesPlaced, Start
<1>0. ASSUME NEW k \in K, NEW i \in 1 .. Size(k)
      PROVE  i \in Nat /\ i >= 1 /\ i <= Size(k) /\ Start(k) + i > U64 + is
  BY <1>3, <1>4, <1>6
<1>8. ASSUME WriteIndexSize PROVE (TypeOK /\ FormatInv)'
  <2>1. /\ pc = "header" /\ file' = file \o Bytes(HeaderPart, U64) /\ pc' = "index"
        /\ memtable' = memtable /\ left' = left /\ Len(file) = 0 /\ left = K
    BY <1>8 DEF WriteIndexSize, FormatInv, WrittenInOrder
  <2>2. HeaderPart \in Int /\ U64 \in Nat
    BY DEF HeaderPart, U64
  <2>3. /\ file' \in Seq(Int \X Nat) /\ Len(file') = U64
        /\ \A i \in 1 .. U64 : file'[i] = <<HeaderPart, i>>
    <3>1. /\ file' \in Seq(Int \X Nat) /\ Len(file') = Len(file) + U64
          /\ \A i \in 1 .. U64 : file'[Len(file) + i] = <<HeaderPart, i>>
      BY <1>2, <2>1, <2>2, AppendPart
    <3>2. \A i \in 1 .. U64 : Len(file) + i = i
      BY <2>1
    <3> QED BY <2>1, <2>2, <3>1, <3>2
  <2>4. Header(file') /\ Indexed(file')
    BY <1>3, <2>2, <2>3
  <2>a. Valued(file')
    BY <1>0, <1>3, <1>4, <2>2, <2>3
  <2> HIDE DEF Header, Indexed, Valued
  <2>5. BytesPlaced'
    BY <1>7, <2>1, <2>4, <2>a
  <2> QED BY <2>1, <2>3, <2>5 DEF TypeOK, FormatInv, WrittenInOrder
<1>9. ASSUME WriteIndex PROVE (TypeOK /\ FormatInv)'
  <2>1. /\ pc = "index" /\ file' = file \o Bytes(IndexPart, is) /\ pc' = "values"
        /\ memtable' = memtable /\ left' = left /\ Len(file) = U64 /\ left = K
    BY <1>9 DEF WriteIndex, FormatInv, WrittenInOrder
  <2>2. IndexPart \in Int /\ U64 \in Nat
    BY DEF IndexPart, U64
  <2>3. /\ file' \in Seq(Int \X Nat) /\ Len(file') = U64 + is
        /\ \A i \in 1 .. U64 : file'[i] = file[i]
        /\ \A i \in 1 .. is : file'[U64 + i] = <<IndexPart, i>>
    BY <1>2, <1>3, <2>1, <2>2, AppendPart
  <2>4. Header(file')
    BY <1>6, <2>1, <2>3
  <2>a. Indexed(file')
    BY <2>3
  <2>b. Valued(file')
    BY <1>0, <1>3, <1>4, <2>2, <2>3
  <2>5. Total(sizes, K \ left) = 0
    <3>1. K \ left = {}
      BY <2>1
    <3>2. Total(sizes, {}) = 0
      BY <1>2, Sizes, TotalType
    <3> QED BY <3>1, <3>2
  <2> HIDE DEF Header, Indexed, Valued
  <2>6. BytesPlaced'
    BY <1>7, <2>1, <2>4, <2>a, <2>b
  <2>7. (Len(file) = U64 + IndexSize(memtable) + Total(ValueSizes(memtable), KeysOf(memtable) \ left))'
    BY <1>3, <2>1, <2>2, <2>3, <2>5
  <2> QED BY <2>1, <2>3, <2>6, <2>7 DEF TypeOK, FormatInv, WrittenInOrder
<1>10. ASSUME WriteValue PROVE (TypeOK /\ FormatInv)'
  <2> DEFINE k == Min(left)
             W == K \ left
             v == Size(k)
  <2>1. /\ pc = "values" /\ left # {} /\ file' = file \o Bytes(k, v) /\ left' = left \ {k}
        /\ memtable' = memtable /\ pc' = pc
        /\ left \subseteq K /\ \A i \in W, j \in left : i < j
        /\ Len(file) = U64 + is + Total(sizes, W)
    BY <1>10 DEF WriteValue, TypeOK, FormatInv, WrittenInOrder
  <2>2. k \in left /\ \A j \in left : k <= j
    <3>1. left \in SUBSET Nat
      BY <1>4, <2>1
    <3> QED BY <2>1, <3>1, LeastKey
  <2> HIDE DEF k
  <2>3. k \in K /\ k \in Int /\ v \in Nat
    BY <1>4, <2>1, <2>2
  <2>4. Below(memtable, k) = W
    <3>1. \A j \in K : j < k <=> j \notin left
      BY <1>4, <2>1, <2>2, <2>3
    <3> QED BY <3>1 DEF Below
  <2>5. Len(file) = Start(k)
    BY <1>2, <2>1, <2>3, <2>4, ValuePlace
  <2>6. /\ file' \in Seq(Int \X Nat) /\ Len(file') = Start(k) + v
        /\ \A i \in 1 .. Len(file) : file'[i] = file[i]
        /\ \A i \in 1 .. v : file'[Start(k) + i] = <<k, i>>
    <3> HIDE DEF v
    <3>1. /\ file' \in Seq(Int \X Nat) /\ Len(file') = Len(file) + v
          /\ \A i \in 1 .. Len(file) : file'[i] = file[i]
          /\ \A i \in 1 .. v : file'[Len(file) + i] = <<k, i>>
      BY <1>2, <2>1, <2>3, AppendPart
    <3> QED BY <2>5, <3>1
  <2>7. ASSUME NEW j \in K, j # k
        PROVE  Start(j) + Size(j) <= Len(file) \/ Start(j) >= Start(k) + v
    <3>1. CASE j < k
      <4>0. \A i \in K : i < j => i < k
        BY <1>4, <2>3, <3>1
      <4>1. j \in W /\ Below(memtable, j) \subseteq W /\ W \in SUBSET K
        BY <2>4, <3>1, <4>0 DEF Below
      <4> QED BY <1>2, <2>1, <4>1, ValuePlace
    <3>2. CASE k < j
      <4> DEFINE B == Below(memtable, j)
      <4>0. \A i \in K : i < k => i < j
        BY <1>4, <2>3, <3>2
      <4>1. k \in B /\ Below(memtable, k) \subseteq B /\ B \in SUBSET K
        BY <2>3, <3>2, <4>0 DEF Below
      <4>2. Start(k) + v <= U64 + is + Total(sizes, B)
        BY <1>2, <2>3, <4>1, ValuePlace
      <4>3. Start(j) = U64 + is + Total(sizes, B)
        BY <1>2, <4>1, ValuePlace
      <4> QED BY <1>4, <2>3, <4>2, <4>3
    <3> QED BY <1>4, <2>3, <2>7, <3>1, <3>2
  <2>8. Header(file') /\ Indexed(file')
    <3>1. Len(file) >= U64 + is
      BY <1>2, <1>3, <2>1, Sizes DEF U64
    <3>2. \A i \in 1 .. U64 : i \in 1 .. Len(file) /\ i <= Len(file)
      BY <1>2, <1>3, <1>6, <3>1
    <3>3. \A i \in 1 .. is : U64 + i \in 1 .. Len(file) /\ U64 + i <= Len(file)
      BY <1>2, <1>3, <1>6, <3>1
    <3> QED BY <1>6, <2>6, <3>2, <3>3
  <2>a. ASSUME NEW j \in K, NEW i \in 1 .. Size(j), Start(j) + i <= Len(file')
        PROVE  file'[Start(j) + i] = <<j, i>>
    <3>1. CASE j = k
      BY <2>6, <3>1
    <3>2. CASE j # k
      <4>1. /\ i \in Nat /\ i >= 1 /\ i <= Size(j) /\ Start(j) \in Nat /\ Size(j) \in Nat
            /\ v \in Nat /\ Start(k) \in Nat
        BY <1>0, <1>4, <2>3
      <4>2. ~(Start(j) >= Start(k) + v)
        BY <2>6, <2>a, <4>1
      <4>3. Start(j) + Size(j) <= Len(file)
        BY <2>7, <3>2, <4>2
      <4>4. Start(j) + i <= Len(file) /\ Start(j) + i \in 1 .. Len(file)
        <5>1. Len(file) \in Nat
          BY <1>2
        <5> HIDE DEF Size
        <5> QED BY <4>1, <4>3, <5>1
      <4> QED BY <1>6, <2>6, <4>4
    <3> QED BY <3>1, <3>2
  <2>9. Len(file') = U64 + is + Total(sizes, K \ left')
    <3>1. K \ left' = W \cup {k} /\ k \notin W
      BY <2>1, <2>2, <2>3
    <3>2. IsFiniteSet(W) /\ Total(sizes, W) \in Nat /\ sizes[k] = v
      BY <1>2, <2>3, Sizes
    <3>3. \A x \in W \cup {k} : sizes[x] \in Nat
      BY <1>2, <2>3, Sizes
    <3> HIDE DEF W, sizes
    <3>4. Total(sizes, W \cup {k}) = Total(sizes, W) + sizes[k]
      BY <3>1, <3>2, <3>3, TotalAdd
    <3>5. Len(file') = U64 + is + Total(sizes, W) + v
      BY <2>1, <2>5, <2>6
    <3> HIDE DEF is, v
    <3>6. U64 + is + Total(sizes, W) + v = U64 + is + (Total(sizes, W) + v)
      BY <1>3, <1>6, <2>3, <3>2
    <3> QED BY <3>1, <3>2, <3>4, <3>5, <3>6
  <2>10. \A i \in K \ left', j \in left' : i < j
    BY <1>4, <2>1, <2>2, <2>3
  <2>b. Valued(file')
    BY <2>a
  <2> HIDE DEF Header, Indexed, Valued
  <2>11. BytesPlaced'
    BY <1>7, <2>1, <2>8, <2>b
  <2> QED BY <2>1, <2>6, <2>9, <2>10, <2>11 DEF TypeOK, FormatInv, WrittenInOrder
<1>11. ASSUME SyncAll PROVE (TypeOK /\ FormatInv)'
  <2>1. Header(file') /\ Indexed(file') /\ Valued(file') /\ memtable' = memtable
    BY <1>6, <1>11 DEF SyncAll
  <2> HIDE DEF Header, Indexed, Valued
  <2>2. BytesPlaced'
    BY <1>7, <2>1
  <2> QED BY <1>11, <2>2 DEF SyncAll, TypeOK, FormatInv, WrittenInOrder
<1>12. ASSUME Cut PROVE (TypeOK /\ FormatInv)'
  <2>1. PICK n \in 0 .. Len(file) : file' = SubSeq(file, 1, n)
    BY <1>12 DEF Cut
  <2>2. memtable' = memtable /\ left' = left /\ pc' = "cut"
    BY <1>12 DEF Cut
  <2>3. file' \in Seq(Int \X Nat) /\ Len(file') = n /\ \A i \in 1 .. n : file'[i] = file[i]
    BY <1>2, <2>1, SubSeqProperties
  <2>c. Len(file) \in Nat /\ n \in Nat /\ n <= Len(file)
    BY <1>2, <2>1
  <2>d. \A i \in Nat : i >= 1 /\ i <= Len(file') => i <= Len(file) /\ file'[i] = file[i]
    BY <2>3, <2>c
  <2>4. Header(file') /\ Indexed(file')
    <3>1. \A i \in 1 .. U64 : i \in Nat /\ i >= 1
      OBVIOUS
    <3>2. \A i \in 1 .. is : U64 + i \in Nat /\ U64 + i >= 1
      BY <1>3, <1>6
    <3> QED BY <1>6, <2>d, <3>1, <3>2
  <2>a. ASSUME NEW k \in K, NEW i \in 1 .. Size(k), Start(k) + i <= Len(file')
        PROVE  file'[Start(k) + i] = <<k, i>>
    <3>1. Start(k) + i \in Nat /\ Start(k) + i >= 1
      BY <1>0, <1>4
    <3> QED BY <1>6, <2>a, <2>d, <3>1
  <2>b. Valued(file')
    BY <2>a
  <2> HIDE DEF Header, Indexed, Valued
  <2>5. BytesPlaced'
    BY <1>7, <2>2, <2>4, <2>b
  <2> QED BY <2>2, <2>3, <2>5 DEF TypeOK, FormatInv, WrittenInOrder
<1> QED BY <1>1, <1>8, <1>9, <1>10, <1>11, <1>12 DEF Next

(***************************************************************************)
(* Type correctness; in particular write returns Ok only when no value is  *)
(* left to write.                                                          *)
(***************************************************************************)
THEOREM FormatTypeCorrect == Spec => []TypeOK
<1>1. Spec => [](TypeOK /\ FormatInv)
  BY InitFormat, NextFormat, PTL DEF Spec
<1> QED BY <1>1, PTL

(***************************************************************************)
(* At every moment, and after a cut, each byte in the file is the one the  *)
(* offsets of the index lead to.                                           *)
(***************************************************************************)
THEOREM FormatInvariant == Spec => []FormatInv
<1>1. Spec => [](TypeOK /\ FormatInv)
  BY InitFormat, NextFormat, PTL DEF Spec
<1> QED BY <1>1, PTL

-----------------------------------------------------------------------------
(***************************************************************************)
(* Reading the file back.                                                  *)
(***************************************************************************)

\* What one read_buf call at an offset returns.
Reads(buf, offset, n) ==
  /\ n <= MaxRead /\ offset + n <= Len(file) => Len(buf) = n
  /\ MaxRead < n \/ Len(file) < offset + n => Len(buf) < n \/ n = 0
  /\ Len(buf) \in Nat
  /\ \A i \in 1 .. Len(buf) : buf[i] = file[offset + i] /\ offset + i <= Len(file) /\ i <= n
  /\ buf \in Seq(Int \X Nat)

LEMMA ReadBufReads ==
  ASSUME file \in Seq(Int \X Nat), NEW offset \in Nat, NEW n \in Nat
  PROVE  Reads(ReadBuf(offset, n), offset, n)
<1> DEFINE ends == {offset + n, offset + MaxRead, Len(file)}
           e == Min(ends)
           buf == ReadBuf(offset, n)
<1>1. Len(file) \in Nat /\ MaxRead \in Nat
  BY LenProperties, FormatAssumption
<1>2. ends \in SUBSET Nat /\ ends # {}
  BY <1>1
<1>3. e \in ends /\ \A x \in ends : e <= x
  <2> HIDE DEF ends
  <2> QED BY <1>2, LeastKey
<1>4. /\ e \in Nat /\ e <= offset + n /\ e <= offset + MaxRead /\ e <= Len(file)
      /\ e = offset + n \/ e = offset + MaxRead \/ e = Len(file)
  BY <1>1, <1>3
<1>5. buf = SubSeq(file, offset + 1, e)
  BY DEF ReadBuf
<1> HIDE DEF ends, e, buf
<1>6. ASSUME offset + 1 <= e PROVE Reads(buf, offset, n)
  <2>1. offset + 1 \in 1 .. Len(file) + 1 /\ e \in offset .. Len(file)
    BY <1>1, <1>4, <1>6
  <2>2. /\ buf \in Seq(Int \X Nat) /\ Len(buf) = e - offset
        /\ \A i \in 1 .. e - offset : buf[i] = file[offset + i]
    <3>1. offset + 1 \in Int /\ e \in Int /\ \A i \in offset + 1 .. e : file[i] \in Int \X Nat
      <4>1. \A i \in offset + 1 .. e : i \in 1 .. Len(file)
        BY <1>1, <1>4
      <4> QED BY <1>4, <4>1, ElementOfSeq
    <3>2. /\ buf \in Seq(Int \X Nat) /\ Len(buf) = e - (offset + 1) + 1
          /\ \A i \in 1 .. e - (offset + 1) + 1 : buf[i] = file[offset + 1 + i - 1]
      BY <1>5, <1>6, <3>1, SubSeqProperties
    <3>3. e - (offset + 1) + 1 = e - offset /\ \A i \in 1 .. e - offset : offset + 1 + i - 1 = offset + i
      BY <1>4
    <3> QED BY <3>2, <3>3
  <2>3. \A i \in 1 .. e - offset : offset + i <= Len(file) /\ i <= n
    BY <1>1, <1>4
  <2>4. e - offset \in Nat
    BY <1>4, <1>6
  <2>5. n <= MaxRead /\ offset + n <= Len(file) => e - offset = n
    BY <1>1, <1>4
  <2>6. MaxRead < n \/ Len(file) < offset + n => e - offset < n
    BY <1>1, <1>4
  <2> QED BY <2>2, <2>3, <2>4, <2>5, <2>6 DEF Reads
<1>7. ASSUME ~(offset + 1 <= e) PROVE Reads(buf, offset, n)
  <2>1. buf = << >>
    BY <1>1, <1>4, <1>5, <1>7, SubSeqEmpty
  <2>2. Len(buf) = 0 /\ buf \in Seq(Int \X Nat)
    BY <2>1, EmptySeq
  <2>3. n <= MaxRead /\ offset + n <= Len(file) => n = 0
    BY <1>1, <1>4, <1>7
  <2>4. 0 < n \/ n = 0
    OBVIOUS
  <2> QED BY <2>2, <2>3, <2>4 DEF Reads
<1> QED BY <1>6, <1>7 DEF buf

\* read_index works if, and only if, the index is complete and one read long.
LEMMA IndexRead ==
  ASSUME TypeOK, FormatInv
  PROVE  ReadIndexOk <=> IndexSize(memtable) <= MaxRead /\ Len(file) >= U64 + IndexSize(memtable)
<1> DEFINE is == IndexSize(memtable)
           buf == ReadBuf(U64, is)
<1>1. Sized /\ file \in Seq(Int \X Nat) /\ Len(file) \in Nat /\ U64 \in Nat
  BY LenProperties DEF TypeOK, FormatInv, Sized, U64
<1>2. is \in Nat /\ is >= 8
  BY <1>1, Sizes
<1>3. /\ \A i \in 1 .. U64 : i <= Len(file) => file[i] = <<HeaderPart, i>>
      /\ \A i \in 1 .. is : U64 + i <= Len(file) => file[U64 + i] = <<IndexPart, i>>
  BY DEF FormatInv, BytesPlaced
<1>4. /\ Bytes(IndexPart, is) \in Seq(Int \X Nat) /\ Len(Bytes(IndexPart, is)) = is
      /\ \A i \in 1 .. is : Bytes(IndexPart, is)[i] = <<IndexPart, i>>
  <2>1. IndexPart \in Int
    BY DEF IndexPart
  <2> HIDE DEF is
  <2> QED BY <1>2, <2>1, BytesType
<1>5. /\ Bytes(HeaderPart, U64) \in Seq(Int \X Nat) /\ Len(Bytes(HeaderPart, U64)) = U64
      /\ \A i \in 1 .. U64 : Bytes(HeaderPart, U64)[i] = <<HeaderPart, i>>
  <2>1. HeaderPart \in Int
    BY DEF HeaderPart
  <2> QED BY <1>1, <2>1, BytesType
<1>6. ReadIndexOk <=> /\ Len(file) >= U64 /\ SubSeq(file, 1, U64) = Bytes(HeaderPart, U64)
                      /\ buf = Bytes(IndexPart, is)
  BY DEF ReadIndexOk
<1> HIDE DEF is
<1>7. /\ is <= MaxRead /\ U64 + is <= Len(file) => Len(buf) = is
      /\ MaxRead < is \/ Len(file) < U64 + is => Len(buf) < is \/ is = 0
      /\ Len(buf) \in Nat
      /\ \A i \in 1 .. Len(buf) : buf[i] = file[U64 + i] /\ U64 + i <= Len(file) /\ i <= is
      /\ buf \in Seq(Int \X Nat)
  <2>1. Reads(buf, U64, is)
    BY <1>1, <1>2, ReadBufReads
  <2> HIDE DEF buf
  <2> QED BY <2>1 DEF Reads
<1> HIDE DEF buf
<1>8. MaxRead \in Nat
  BY FormatAssumption
<1>9. ASSUME is <= MaxRead, Len(file) >= U64 + is PROVE ReadIndexOk
  <2>1. Len(buf) = is
    BY <1>1, <1>2, <1>7, <1>9
  <2>2. buf = Bytes(IndexPart, is)
    <3>1. \A i \in 1 .. is : buf[i] = <<IndexPart, i>>
      BY <1>3, <1>7, <2>1
    <3> QED BY <1>4, <1>7, <2>1, <3>1, SeqEqual
  <2>3. Len(file) >= U64 /\ \A i \in 1 .. U64 : i \in 1 .. Len(file) /\ i <= Len(file)
    BY <1>1, <1>2, <1>9
  <2>4. SubSeq(file, 1, U64) = Bytes(HeaderPart, U64)
    <3>1. \A i \in 1 .. U64 : file[i] \in Int \X Nat
      BY <1>1, <2>3, ElementOfSeq
    <3>2. /\ SubSeq(file, 1, U64) \in Seq(Int \X Nat) /\ Len(SubSeq(file, 1, U64)) = U64
          /\ \A i \in 1 .. U64 : SubSeq(file, 1, U64)[i] = file[i]
      BY <3>1, SubSeqProperties DEF U64
    <3>3. \A i \in 1 .. U64 : SubSeq(file, 1, U64)[i] = <<HeaderPart, i>>
      BY <1>3, <2>3, <3>2
    <3> QED BY <1>5, <3>2, <3>3, SeqEqual
  <2> QED BY <1>6, <2>2, <2>3, <2>4
<1>10. ASSUME ReadIndexOk PROVE is <= MaxRead /\ Len(file) >= U64 + is
  <2>1. Len(buf) = is
    BY <1>4, <1>6, <1>10
  <2> QED BY <1>1, <1>2, <1>7, <1>8, <2>1
<1> QED BY <1>9, <1>10 DEF is

\* read_value at the offset of a key gives its value, if the value is there
\* and one read long, and an error if not.
LEMMA ValueRead ==
  ASSUME TypeOK, FormatInv, NEW k \in KeysOf(memtable)
  PROVE  LET v == ValueSize(memtable[k])
         IN  ReadValue(Index(memtable)[k]) =
               IF v <= MaxRead /\ Start(k) + v <= Len(file) THEN memtable[k] ELSE Error
<1> DEFINE K == KeysOf(memtable)
           Size(j) == ValueSize(memtable[j])
           v == Size(k)
           buf == ReadBuf(Start(k), v)
           found == {j \in K : Size(j) <= Len(buf) /\ SubSeq(buf, 1, Size(j)) = Bytes(j, Size(j))}
<1>1. Sized /\ file \in Seq(Int \X Nat) /\ Len(file) \in Nat /\ MaxRead \in Nat
  BY LenProperties, FormatAssumption DEF TypeOK, FormatInv, Sized
<1>2. \A j \in K : j \in Nat /\ Size(j) \in Nat /\ Size(j) >= 4
  BY <1>1, Sizes
<1>3. Start(k) \in Nat
  BY <1>1, ValuePlace
<1>4. ReadValue(Index(memtable)[k]) = IF found = {} THEN Error ELSE memtable[CHOOSE j \in found : TRUE]
  <2>1. Index(memtable)[k].offset = Start(k) /\ Index(memtable)[k].size = v
    BY DEF Index, Start
  <2> QED BY <2>1 DEF ReadValue
<1>5. \A i \in 1 .. v : Start(k) + i <= Len(file) => file[Start(k) + i] = <<k, i>>
  BY DEF FormatInv, BytesPlaced
<1>6. /\ v <= MaxRead /\ Start(k) + v <= Len(file) => Len(buf) = v
      /\ MaxRead < v \/ Len(file) < Start(k) + v => Len(buf) < v \/ v = 0
      /\ Len(buf) \in Nat
      /\ \A i \in 1 .. Len(buf) : buf[i] = file[Start(k) + i] /\ Start(k) + i <= Len(file) /\ i <= v
      /\ buf \in Seq(Int \X Nat)
  <2>1. v \in Nat
    BY <1>2
  <2> HIDE DEF v
  <2>2. Reads(buf, Start(k), v)
    BY <1>1, <1>3, <2>1, ReadBufReads
  <2> HIDE DEF buf
  <2> QED BY <2>2 DEF Reads
<1> HIDE DEF buf
<1>7. \A i \in 1 .. Len(buf) : buf[i] = <<k, i>>
  <2>1. \A i \in 1 .. Len(buf) : i \in 1 .. v
    BY <1>2, <1>6
  <2> QED BY <1>5, <1>6, <2>1
<1>8. ASSUME NEW j \in K, Size(j) <= Len(buf)
      PROVE  /\ Len(SubSeq(buf, 1, Size(j))) = Size(j) /\ SubSeq(buf, 1, Size(j)) \in Seq(Int \X Nat)
             /\ \A i \in 1 .. Size(j) : SubSeq(buf, 1, Size(j))[i] = <<k, i>>
             /\ Bytes(j, Size(j)) \in Seq(Int \X Nat) /\ Len(Bytes(j, Size(j))) = Size(j)
             /\ \A i \in 1 .. Size(j) : Bytes(j, Size(j))[i] = <<j, i>>
             /\ 1 \in 1 .. Size(j)
  <2> DEFINE n == Size(j)
  <2>1. n \in Nat /\ n >= 4 /\ j \in Int /\ n <= Len(buf)
    BY <1>2, <1>8
  <2> HIDE DEF n
  <2>2. \A i \in 1 .. n : i \in 1 .. Len(buf)
    BY <1>6, <2>1
  <2>3. \A i \in 1 .. n : buf[i] \in Int \X Nat
    BY <1>6, <2>2, ElementOfSeq
  <2>4. /\ SubSeq(buf, 1, n) \in Seq(Int \X Nat) /\ Len(SubSeq(buf, 1, n)) = n
        /\ \A i \in 1 .. n : SubSeq(buf, 1, n)[i] = buf[i]
    <3>1. /\ SubSeq(buf, 1, n) \in Seq(Int \X Nat) /\ Len(SubSeq(buf, 1, n)) = n - 1 + 1
          /\ \A i \in 1 .. n - 1 + 1 : SubSeq(buf, 1, n)[i] = buf[1 + i - 1]
      BY <2>1, <2>3, SubSeqProperties
    <3>2. n - 1 + 1 = n /\ \A i \in 1 .. n : 1 + i - 1 = i
      BY <2>1
    <3> QED BY <3>1, <3>2
  <2>5. \A i \in 1 .. n : SubSeq(buf, 1, n)[i] = <<k, i>>
    BY <1>7, <2>2, <2>4
  <2>6. /\ Bytes(j, n) \in Seq(Int \X Nat) /\ Len(Bytes(j, n)) = n
        /\ \A i \in 1 .. n : Bytes(j, n)[i] = <<j, i>>
    BY <2>1, BytesType
  <2>7. 1 \in 1 .. n
    BY <2>1
  <2> QED BY <2>4, <2>5, <2>6, <2>7 DEF n
<1>9. ASSUME NEW j \in found PROVE j = k
  <2>1. j \in K /\ Size(j) <= Len(buf) /\ SubSeq(buf, 1, Size(j)) = Bytes(j, Size(j))
    BY <1>9
  <2>2. SubSeq(buf, 1, Size(j))[1] = <<k, 1>> /\ Bytes(j, Size(j))[1] = <<j, 1>>
    BY <1>8, <2>1
  <2>3. <<k, 1>> = <<j, 1>>
    BY <2>1, <2>2
  <2> QED BY <2>3
<1>10. CASE v <= MaxRead /\ Start(k) + v <= Len(file)
  <2>1. Len(buf) = v /\ Size(k) <= Len(buf)
    BY <1>2, <1>6, <1>10
  <2>2. SubSeq(buf, 1, Size(k)) = Bytes(k, Size(k))
    <3> DEFINE n == Size(k)
    <3>1. /\ Len(SubSeq(buf, 1, n)) = n /\ SubSeq(buf, 1, n) \in Seq(Int \X Nat)
          /\ \A i \in 1 .. n : SubSeq(buf, 1, n)[i] = <<k, i>>
          /\ Bytes(k, n) \in Seq(Int \X Nat) /\ Len(Bytes(k, n)) = n
          /\ \A i \in 1 .. n : Bytes(k, n)[i] = <<k, i>>
      BY <1>8, <2>1
    <3> HIDE DEF n
    <3> QED BY <3>1, SeqEqual DEF n
  <2>3. k \in found
    BY <2>1, <2>2
  <2>4. found # {} /\ (CHOOSE j \in found : TRUE) = k
    <3> HIDE DEF found
    <3> QED BY <1>9, <2>3
  <2> HIDE DEF found
  <2> QED BY <1>4, <1>10, <2>4
<1>11. CASE ~(v <= MaxRead /\ Start(k) + v <= Len(file))
  <2>1. v \in Nat /\ v >= 4 /\ v = Size(k)
    BY <1>2
  <2>2. ~(Size(k) <= Len(buf))
    <3> HIDE DEF v, Size
    <3>0. Len(file) \in Nat /\ MaxRead \in Nat /\ Start(k) + v \in Nat
      BY <1>1, <1>3, <2>1
    <3>1. MaxRead < v \/ Len(file) < Start(k) + v
      BY <1>11, <2>1, <3>0
    <3>2. Len(buf) \in Nat /\ Len(buf) < v
      BY <1>6, <2>1, <3>1
    <3> QED BY <2>1, <3>2
  <2>3. found = {}
    <3>1. k \notin found
      BY <2>2
    <3> HIDE DEF found
    <3> QED BY <1>9, <3>1
  <2> HIDE DEF found
  <2> QED BY <1>4, <1>11, <2>3
<1> QED BY <1>10, <1>11

\* A value in full ends before the end of the file.
LEMMA ValuesFit ==
  ASSUME TypeOK, FormatInv, NEW k \in KeysOf(memtable)
  PROVE  Start(k) + ValueSize(memtable[k]) <= FileSize(memtable)
<1>1. Sized
  BY DEF TypeOK, FormatInv, Sized
<1>2. Below(memtable, k) \subseteq KeysOf(memtable)
  BY DEF Below
<1> QED BY <1>1, <1>2, ValuePlace DEF FileSize

\* The three states of a file, by its length.
LEMMA FileStatus ==
  ASSUME TypeOK, FormatInv
  PROVE  /\ AsFile.table = memtable
         /\ AsFile.status = "torn" <=> Len(file) < U64 + IndexSize(memtable)
         /\ AsFile.status = "full" <=> Len(file) >= FileSize(memtable)
         /\ AsFile.status \in {"torn", "index", "full"}
         /\ pc = "done" => AsFile.status = "full"
<1> DEFINE a == U64 + IndexSize(memtable)
           b == FileSize(memtable)
<1>1. Sized /\ Len(file) \in Nat
  BY LenProperties DEF TypeOK, FormatInv, Sized
<1>2. a \in Nat /\ b \in Nat /\ a <= b
  BY <1>1, Sizes DEF U64, FileSize
<1>3. pc = "done" => Len(file) = b
  <2>1. ASSUME pc = "done" PROVE KeysOf(memtable) \ left = KeysOf(memtable)
    BY <2>1 DEF TypeOK
  <2> QED BY <2>1 DEF FormatInv, WrittenInOrder, FileSize
<1>4. AsFile.table = memtable
  BY DEF AsFile
<1>5. AsFile.status = CASE Len(file) < a                    -> "torn"
                        [] Len(file) >= a /\ Len(file) < b  -> "index"
                        [] Len(file) >= b                   -> "full"
  BY DEF AsFile
<1> HIDE DEF a, b
<1>6. Len(file) < a => AsFile.status = "torn" /\ ~(Len(file) >= b)
  BY <1>1, <1>2, <1>5
<1>7. Len(file) >= a /\ Len(file) < b => AsFile.status = "index"
  BY <1>1, <1>2, <1>5
<1>8. Len(file) >= b => AsFile.status = "full" /\ ~(Len(file) < a)
  BY <1>1, <1>2, <1>5
<1> QED BY <1>1, <1>2, <1>3, <1>4, <1>6, <1>7, <1>8 DEF a, b

\* The layout makes search right.
LEMMA SearchFollows == TypeOK /\ FormatInv => SearchIsRight
<1> SUFFICES ASSUME TypeOK, FormatInv, NEW k \in Key
             PROVE  /\ SearchFile(k) \in {Error, memtable[k]}
                    /\ OneReadEach =>
                         /\ \/ SearchFile(k) = Search(AsFile, k)
                            \/ AsFile.status = "index" /\ SearchFile(k) = memtable[k]
                         /\ pc = "done" => SearchFile(k) = memtable[k]
  BY DEF SearchIsRight
<1>1. Sized /\ Len(file) \in Nat /\ U64 + IndexSize(memtable) \in Nat
  <2>1. Sized /\ Len(file) \in Nat
    BY LenProperties DEF TypeOK, FormatInv, Sized
  <2> QED BY <2>1, Sizes DEF U64
<1>2. ReadIndexOk => AsFile.status # "torn"
  BY <1>1, IndexRead, FileStatus
<1>3. OneReadEach /\ AsFile.status # "torn" => ReadIndexOk
  BY <1>1, IndexRead, FileStatus DEF OneReadEach
<1>4. FileKeys(AsFile) = KeysOf(memtable)
  BY FileStatus DEF FileKeys
<1>5. CASE ~ReadIndexOk
  <2>1. SearchFile(k) = Error
    BY <1>5 DEF SearchFile
  <2>2. OneReadEach => Search(AsFile, k) = Error /\ pc # "done"
    BY <1>3, <1>5, FileStatus DEF Search
  <2> QED BY <2>1, <2>2
<1>6. CASE ReadIndexOk /\ k \notin KeysOf(memtable)
  <2>1. SearchFile(k) = Absent /\ memtable[k] = Absent
    BY <1>6 DEF SearchFile, KeysOf
  <2>2. Search(AsFile, k) = Absent
    BY <1>2, <1>4, <1>6, FileStatus DEF Search
  <2> QED BY <2>1, <2>2
<1>7. CASE ReadIndexOk /\ k \in KeysOf(memtable)
  <2> DEFINE v == ValueSize(memtable[k])
  <2>1. SearchFile(k) = IF v <= MaxRead /\ Start(k) + v <= Len(file) THEN memtable[k] ELSE Error
    BY <1>7, ValueRead DEF SearchFile
  <2>2. OneReadEach => v <= MaxRead
    BY <1>7 DEF OneReadEach
  <2>3. Start(k) + v <= FileSize(memtable) /\ Start(k) + v \in Nat /\ FileSize(memtable) \in Nat
    <3>1. Start(k) \in Nat /\ v \in Nat
      BY <1>1, <1>7, Sizes, ValuePlace
    <3>2. FileSize(memtable) \in Nat
      BY <1>1, Sizes DEF FileSize, U64
    <3> QED BY <1>7, <3>1, <3>2, ValuesFit
  <2> HIDE DEF v
  <2>4. OneReadEach /\ AsFile.status = "full" => SearchFile(k) = memtable[k]
    <3>1. AsFile.status = "full" => Start(k) + v <= Len(file)
      BY <1>1, <2>3, FileStatus
    <3> QED BY <2>1, <2>2, <3>1
  <2>5. /\ AsFile.status = "full" => Search(AsFile, k) = memtable[k]
        /\ AsFile.status = "index" => Search(AsFile, k) = Error
    BY <1>4, <1>7, FileStatus DEF Search
  <2>6. SearchFile(k) \in {Error, memtable[k]}
    BY <2>1
  <2> QED BY <1>2, <1>7, <2>4, <2>5, <2>6, FileStatus
<1> QED BY <1>5, <1>6, <1>7

\* And scan, too.
LEMMA ScanFollows == TypeOK /\ FormatInv => ScanIsRight
<1> SUFFICES ASSUME TypeOK, FormatInv,
                    NEW from \in Key \cup {k + 1 : k \in Key}, NEW to \in Key \cup {k + 1 : k \in Key}
             PROVE  LET range == {k \in Key : from <= k /\ k < to}
                    IN  \/ ScanFile(from, to) = Error /\ (OneReadEach => ScanFails(AsFile, range))
                        \/ /\ AsFile.status # "torn"
                           /\ ScanFile(from, to) = [k \in KeysOf(memtable) \cap range |-> memtable[k]]
  BY DEF ScanIsRight
<1> DEFINE range == {k \in Key : from <= k /\ k < to}
           found == {k \in KeysOf(memtable) : from <= k /\ k < to}
           values == [k \in found |-> ReadValue(Index(memtable)[k])]
<1>1. found = KeysOf(memtable) \cap range
  BY DEF KeysOf
<1>2. ScanFile(from, to) = IF ~ReadIndexOk \/ \E k \in found : values[k] = Error THEN Error ELSE values
  BY DEF ScanFile
<1>3. Sized /\ Len(file) \in Nat /\ U64 + IndexSize(memtable) \in Nat
  <2>1. Sized /\ Len(file) \in Nat
    BY LenProperties DEF TypeOK, FormatInv, Sized
  <2> QED BY <2>1, Sizes DEF U64
<1>4. /\ ReadIndexOk => AsFile.status # "torn"
      /\ OneReadEach /\ AsFile.status # "torn" => ReadIndexOk
  BY <1>3, IndexRead, FileStatus DEF OneReadEach
<1>5. CASE ~ReadIndexOk
  <2>1. OneReadEach => ScanFails(AsFile, range)
    BY <1>4, <1>5 DEF ScanFails
  <2> QED BY <1>2, <1>5, <2>1
<1>6. ASSUME NEW k \in found
      PROVE  /\ values[k] \in {Error, memtable[k]}
             /\ OneReadEach /\ AsFile.status = "full" => values[k] = memtable[k] /\ values[k] # Error
  <2> DEFINE v == ValueSize(memtable[k])
  <2>0. k \in KeysOf(memtable)
    OBVIOUS
  <2>1. values[k] = IF v <= MaxRead /\ Start(k) + v <= Len(file) THEN memtable[k] ELSE Error
    BY <2>0, ValueRead
  <2>2. Start(k) + v <= FileSize(memtable) /\ Start(k) + v \in Nat /\ FileSize(memtable) \in Nat
    <3>1. Start(k) \in Nat /\ v \in Nat
      BY <1>3, <2>0, Sizes, ValuePlace
    <3>2. FileSize(memtable) \in Nat
      BY <1>3, Sizes DEF FileSize, U64
    <3> QED BY <2>0, <3>1, <3>2, ValuesFit
  <2>3. memtable[k] # Error
    BY <1>3, <2>0, Sizes, SentinelAssumption DEF Value
  <2>4. OneReadEach => v <= MaxRead
    BY <2>0 DEF OneReadEach
  <2> HIDE DEF v, values, found
  <2>5. AsFile.status = "full" => Start(k) + v <= Len(file)
    BY <1>3, <2>2, FileStatus
  <2> QED BY <2>1, <2>3, <2>4, <2>5
<1>7. CASE ReadIndexOk /\ \E k \in found : values[k] = Error
  <2>1. PICK k \in found : values[k] = Error
    BY <1>7
  <2>2. OneReadEach => AsFile.status = "index"
    BY <1>4, <1>6, <1>7, <2>1, FileStatus
  <2>3. FileKeys(AsFile) \cap range # {}
    BY <1>1, <2>1, FileStatus DEF FileKeys
  <2>4. OneReadEach => ScanFails(AsFile, range)
    BY <2>2, <2>3 DEF ScanFails
  <2> QED BY <1>2, <1>7, <2>4
<1>8. CASE ReadIndexOk /\ ~\E k \in found : values[k] = Error
  <2>1. values = [k \in found |-> memtable[k]]
    BY <1>6, <1>8
  <2>2. ScanFile(from, to) = values
    BY <1>2, <1>8
  <2> QED BY <1>1, <1>4, <1>8, <2>1, <2>2
<1> QED BY <1>5, <1>7, <1>8

(***************************************************************************)
(* search (sstable.rs) answers with the right value or an error, whatever  *)
(* the sizes and wherever the file is cut; when no part is longer than one *)
(* read and write returned Ok, with the right value.                       *)
(***************************************************************************)
THEOREM SearchCorrect == Spec => []SearchIsRight
BY FormatTypeCorrect, FormatInvariant, SearchFollows, PTL

(***************************************************************************)
(* scan (sstable.rs) returns all the entries of its range, or an error.    *)
(***************************************************************************)
THEOREM ScanCorrect == Spec => []ScanIsRight
BY FormatTypeCorrect, FormatInvariant, ScanFollows, PTL

=============================================================================
