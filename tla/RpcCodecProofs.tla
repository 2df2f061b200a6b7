---------------------------- MODULE RpcCodecProofs ----------------------------
(***************************************************************************)
(* Proofs about the codec of RpcCodec, for every message of every class and *)
(* whatever the lengths of the texts (TextAssumption).                     *)
(*                                                                         *)
(* AllHonest: SerializeWithCachedSizes writes as many bytes as ByteSize    *)
(* counts, with each of the nested messages prefixed with the count of its *)
(* own bytes.  CopyIs: CopyFrom makes an equal message.                    *)
(*                                                                         *)
(* Both go over the depth of the classes.  The levels of RpcCodec (Size1 to *)
(* Size4 and ByteSize, and so on) are enough for the five that the classes *)
(* have, so that each of the operators satisfies its recursive equation    *)
(* (IsUnfolds, SizeUnfolds, SerializeUnfolds).  The tables of the classes  *)
(* agree on the fields (ClassesFit), so what is written is what is sized.  *)
(* And sums over finite sets, which the community modules compute by       *)
(* recursion, have the values they should, by an induction on the          *)
(* cardinality: Induct.                                                    *)
(***************************************************************************)
EXTENDS RpcCodec, TLAPS, WellFoundedInduction, FiniteSetTheorems

-----------------------------------------------------------------------------
(***************************************************************************)
(* Sums over finite sets.                                                  *)
(***************************************************************************)

(***************************************************************************)
(* Induction, as a lemma about sets of naturals.                           *)
(***************************************************************************)
LEMMA LeastNatural ==
    ASSUME NEW T \in SUBSET Nat, T # {}
    PROVE  \E x \in T: \A y \in T: ~(y < x)
<1> DEFINE R == {ss \in Nat \X Nat: ss[1] < ss[2]}
<1>1. IsWellFoundedOn(R, Nat)
  BY NatLessThanWellFounded DEF OpToRel
<1>2. \E x \in T: \A y \in T: ~(<<y, x>> \in R)
  <2> HIDE DEF R
  <2> QED
    BY <1>1, WFMin
<1>3. QED
  BY <1>2

\* Induction: a set that holds 0 and the successor of every natural it holds, holds all.
LEMMA Induct ==
    ASSUME NEW S, 0 \in S, \A n \in Nat: n \in S => n + 1 \in S
    PROVE  Nat \subseteq S
<1> DEFINE T == Nat \ S
<1>1. SUFFICES ASSUME T # {} PROVE FALSE
  OBVIOUS
<1>2. PICK x \in T: \A y \in T: ~(y < x)
  BY <1>1, LeastNatural
<1>3. x # 0 /\ x - 1 \in Nat /\ x - 1 < x
  BY <1>2
<1>4. x - 1 \in S
  BY <1>2, <1>3
<1>5. QED
  BY <1>2, <1>3, <1>4

(***************************************************************************)
(* SumFunctionOnSet, which the Functions module defines by a recursion on  *)
(* subsets, an element being chosen from each.                             *)
(***************************************************************************)
One(s) == CHOOSE x \in s: TRUE

\* The sum over s, from the sums over smaller sets: what MapThenFoldSet computes.
Summed(f, it, s) == IF s = {} THEN 0 ELSE f[One(s)] + it[s \ {One(s)}]

\* it is the function from every subset of S to the sum over it.
IsSum(f, S, it) == it = [s \in SUBSET S |-> Summed(f, it, s)]

\* What is needed of the cardinality of a subset and of the subset without One of it.
LEMMA SubsetFacts ==
    ASSUME NEW S, IsFiniteSet(S), NEW s \in SUBSET S
    PROVE  /\ IsFiniteSet(s) /\ Cardinality(s) \in Nat
           /\ Cardinality(s) = 0 <=> s = {}
           /\ s # {} => /\ One(s) \in s /\ s \ {One(s)} \in SUBSET S
                        /\ Cardinality(s \ {One(s)}) = Cardinality(s) - 1
<1>1. IsFiniteSet(s) /\ Cardinality(s) \in Nat
  BY FS_Subset, FS_CardinalityType
<1>2. Cardinality(s) = 0 <=> s = {}
  BY <1>1, FS_EmptySet
<1>3. s # {} => One(s) \in s
  BY DEF One
<1>4. One(s) \in s => Cardinality(s \ {One(s)}) = Cardinality(s) - 1
  BY <1>1, FS_RemoveElement
<1>5. QED
  BY <1>1, <1>2, <1>3, <1>4

\* SumFunctionOnSet, unfolded down to the recursive function of the community modules.
LEMMA SumDefinition ==
    ASSUME NEW f, NEW S
    PROVE  SumFunctionOnSet(f, S) =
               (CHOOSE it: IsSum(f, S, it))[S]
BY DEF SumFunctionOnSet, FoldFunctionOnSet, MapThenFoldSet, Summed, One, IsSum

\* The recursion is well founded: a function that satisfies its equation exists.
LEMMA SumsExist ==
    ASSUME NEW f, NEW S, IsFiniteSet(S)
    PROVE  \E it: IsSum(f, S, it)
<1> DEFINE Small(n) == {s \in SUBSET S: Cardinality(s) <= n}
           N == {n \in Nat: \E it: it = [s \in Small(n) |-> Summed(f, it, s)]}
<1>1. 0 \in N
  <2> DEFINE it == [s \in Small(0) |-> 0]
  <2>1. ASSUME NEW s \in SUBSET S, Cardinality(s) <= 0
        PROVE  s = {}
    <3>1. Cardinality(s) \in Nat
      BY SubsetFacts
    <3>2. Cardinality(s) = 0
      BY <2>1, <3>1
    <3>3. QED
      BY <3>2, SubsetFacts
  <2>2. it = [s \in Small(0) |-> Summed(f, it, s)]
    BY <2>1 DEF Summed
  <2>3. QED
    BY <2>2
<1>2. ASSUME NEW n \in Nat, n \in N
      PROVE  n + 1 \in N
  <2>1. PICK it: it = [s \in Small(n) |-> Summed(f, it, s)]
    BY <1>2
  <2> DEFINE jt == [s \in Small(n + 1) |-> Summed(f, it, s)]
  <2>2. ASSUME NEW s \in Small(n + 1)
        PROVE  Summed(f, it, s) = Summed(f, jt, s)
    <3>1. CASE s = {}
      BY <3>1 DEF Summed
    <3>2. CASE s # {}
      <4> DEFINE t == s \ {One(s)}
      <4>1. Cardinality(t) = Cardinality(s) - 1
        BY <3>2, SubsetFacts
      <4>2. t \in SUBSET S /\ Cardinality(s) \in Nat /\ Cardinality(s) <= n + 1
        BY SubsetFacts
      <4>3. t \in Small(n) /\ t \in Small(n + 1)
        BY <4>1, <4>2
      <4>4. it[t] = jt[t]
        BY <2>1, <4>3
      <4>5. QED
        BY <3>2, <4>4 DEF Summed
    <3>3. QED
      BY <3>1, <3>2
  <2> HIDE DEF Small
  <2>3. jt = [s \in Small(n + 1) |-> Summed(f, jt, s)]
    BY <2>2
  <2> HIDE DEF jt
  <2>4. \E kt: kt = [s \in Small(n + 1) |-> Summed(f, kt, s)]
    BY <2>3
  <2>5. QED
    BY <2>4
<1> HIDE DEF N
<1>3. Nat \subseteq N
  BY <1>1, <1>2, Induct
<1>4. Cardinality(S) \in N
  BY <1>3, FS_CardinalityType
<1>5. Small(Cardinality(S)) = SUBSET S
  BY FS_Subset
<1>6. QED
  BY <1>4, <1>5 DEF N, IsSum

\* Any two functions that satisfy the equation agree where both are defined.
LEMMA SumsAgree ==
    ASSUME NEW f, NEW S, IsFiniteSet(S), NEW T \in SUBSET S,
           NEW a, IsSum(f, S, a),
           NEW b, IsSum(f, T, b)
    PROVE  \A s \in SUBSET T: a[s] = b[s]
<1> DEFINE N == {n \in Nat: \A s \in SUBSET T: Cardinality(s) = n => a[s] = b[s]}
<1>0. IsFiniteSet(T)
  BY FS_Subset
<1>1. 0 \in N
  <2>1. \A s \in SUBSET T: Cardinality(s) = 0 => s = {}
    BY <1>0, SubsetFacts
  <2>2. a[{}] = 0 /\ b[{}] = 0
    BY DEF Summed, IsSum
  <2>3. QED
    BY <2>1, <2>2
<1>2. ASSUME NEW n \in Nat, n \in N
      PROVE  n + 1 \in N
  <2>0. SUFFICES ASSUME NEW s \in SUBSET T, Cardinality(s) = n + 1
                 PROVE  a[s] = b[s]
    <3>1. n + 1 \in Nat
      OBVIOUS
    <3>2. QED
      BY <3>1
  <2>1. s # {}
    <3>1. Cardinality(s) # 0
      BY <2>0
    <3>2. QED
      BY <1>0, <3>1, SubsetFacts
  <2> DEFINE t == s \ {One(s)}
  <2>2. t \in SUBSET T /\ Cardinality(t) = n
    BY <1>0, <2>0, <2>1, SubsetFacts
  <2>3. a[t] = b[t]
    BY <1>2, <2>2
  <2>4. a[s] = f[One(s)] + a[t] /\ b[s] = f[One(s)] + b[t]
    BY <2>1 DEF Summed, IsSum
  <2>5. QED
    BY <2>3, <2>4
<1> HIDE DEF N
<1>3. Nat \subseteq N
  BY <1>1, <1>2, Induct
<1>4. \A s \in SUBSET T: Cardinality(s) \in Nat
  BY <1>0, SubsetFacts
<1>5. QED
  BY <1>3, <1>4 DEF N

\* So the chosen function satisfies its equation, and the sum is its value at S.
LEMMA SumValue ==
    ASSUME NEW f, NEW S, IsFiniteSet(S)
    PROVE  \E a: IsSum(f, S, a) /\ SumFunctionOnSet(f, S) = a[S]
<1> DEFINE a == CHOOSE it: IsSum(f, S, it)
<1>1. IsSum(f, S, a)
  BY SumsExist
<1>2. SumFunctionOnSet(f, S) = a[S]
  BY SumDefinition
<1> HIDE DEF a
<1>3. QED
  BY <1>1, <1>2

\* The sum over no element is 0.
LEMMA SumEmpty == \A f: SumFunctionOnSet(f, {}) = 0
<1> TAKE f
<1>1. PICK a: IsSum(f, {}, a) /\ SumFunctionOnSet(f, {}) = a[{}]
  BY SumValue, FS_EmptySet
<1>2. QED
  BY <1>1 DEF Summed, IsSum

\* The sum over a set is one value and the sum over the others.
LEMMA SumStep ==
    ASSUME NEW f, NEW S, IsFiniteSet(S), S # {}
    PROVE  SumFunctionOnSet(f, S) = f[One(S)] + SumFunctionOnSet(f, S \ {One(S)})
<1>1. PICK T: T = S \ {One(S)}
  OBVIOUS
<1>2. T \in SUBSET S /\ IsFiniteSet(T)
  BY <1>1, FS_Subset
<1>3. PICK a: IsSum(f, S, a) /\ SumFunctionOnSet(f, S) = a[S]
  BY SumValue
<1>4. PICK b: IsSum(f, T, b) /\ SumFunctionOnSet(f, T) = b[T]
  BY <1>2, SumValue
<1>5. a[T] = b[T]
  BY <1>2, <1>3, <1>4, SumsAgree
<1>6. a[S] = f[One(S)] + a[T]
  BY <1>1, <1>3 DEF Summed, IsSum
<1>7. QED
  BY <1>1, <1>3, <1>4, <1>5, <1>6

\* From here on, sums are known by these two facts alone.
LEMMA SumType ==
    ASSUME NEW f, NEW S, IsFiniteSet(S), \A x \in S: f[x] \in Nat
    PROVE  SumFunctionOnSet(f, S) \in Nat
<1> DEFINE N == {n \in Nat: \A T \in SUBSET S:
                               Cardinality(T) = n => SumFunctionOnSet(f, T) \in Nat}
<1>1. 0 \in N
  <2>1. \A T \in SUBSET S: Cardinality(T) = 0 => T = {}
    BY SubsetFacts
  <2>2. SumFunctionOnSet(f, {}) \in Nat
    BY SumEmpty
  <2>3. QED
    BY <2>1, <2>2
<1>2. ASSUME NEW n \in Nat, n \in N
      PROVE  n + 1 \in N
  <2>0. SUFFICES ASSUME NEW T \in SUBSET S, Cardinality(T) = n + 1
                 PROVE  SumFunctionOnSet(f, T) \in Nat
    OBVIOUS
  <2>1. T # {} /\ IsFiniteSet(T)
    <3>1. Cardinality(T) # 0
      BY <2>0
    <3>2. QED
      BY <3>1, SubsetFacts
  <2>2. /\ T \ {One(T)} \in SUBSET S /\ One(T) \in S
        /\ Cardinality(T \ {One(T)}) = n
    BY <2>0, <2>1, SubsetFacts
  <2>3. SumFunctionOnSet(f, T \ {One(T)}) \in Nat
    BY <1>2, <2>2
  <2>4. SumFunctionOnSet(f, T) = f[One(T)] + SumFunctionOnSet(f, T \ {One(T)})
    BY <2>1, SumStep
  <2>5. QED
    BY <2>2, <2>3, <2>4
<1> HIDE DEF N
<1>3. Nat \subseteq N
  BY <1>1, <1>2, Induct
<1>4. S \in SUBSET S /\ Cardinality(S) \in Nat
  BY FS_CardinalityType
<1>5. QED
  BY <1>3, <1>4 DEF N

\* Any element may be taken out.
LEMMA SumRemove ==
    ASSUME NEW f, NEW S, IsFiniteSet(S), \A x \in S: f[x] \in Nat, NEW y \in S
    PROVE  SumFunctionOnSet(f, S) = f[y] + SumFunctionOnSet(f, S \ {y})
<1> DEFINE N == {n \in Nat: \A T \in SUBSET S: Cardinality(T) = n =>
                     \A z \in T: SumFunctionOnSet(f, T) = f[z] + SumFunctionOnSet(f, T \ {z})}
<1>1. 0 \in N
  BY SubsetFacts
<1>2. ASSUME NEW n \in Nat, n \in N
      PROVE  n + 1 \in N
  <2>0. SUFFICES ASSUME NEW T \in SUBSET S, Cardinality(T) = n + 1, NEW z \in T
                 PROVE  SumFunctionOnSet(f, T) = f[z] + SumFunctionOnSet(f, T \ {z})
    OBVIOUS
  <2>1. PICK o: o = One(T)
    OBVIOUS
  <2>2. IsFiniteSet(T) /\ o \in T
    BY <2>1, SubsetFacts
  <2>3. SumFunctionOnSet(f, T) = f[o] + SumFunctionOnSet(f, T \ {o})
    BY <2>1, <2>2, SumStep
  <2>4. CASE z = o
    BY <2>3, <2>4
  <2>5. CASE z # o
    <3>1. /\ IsFiniteSet((T \ {o}) \ {z})
          /\ Cardinality(T \ {z}) = n /\ Cardinality(T \ {o}) = n
      <4>1. \A x \in T: IsFiniteSet(T \ {x}) /\ Cardinality(T \ {x}) = Cardinality(T) - 1
        BY <2>2, FS_RemoveElement
      <4>2. IsFiniteSet((T \ {o}) \ {z})
        BY <2>2, <4>1, FS_RemoveElement
      <4>3. QED
        BY <2>0, <2>2, <4>1, <4>2
    <3>2. SumFunctionOnSet(f, T \ {o}) = f[z] + SumFunctionOnSet(f, (T \ {o}) \ {z})
      <4>1. z \in T \ {o} /\ T \ {o} \in SUBSET S
        BY <2>5
      <4>2. QED
        BY <1>2, <3>1, <4>1
    <3>3. SumFunctionOnSet(f, T \ {z}) = f[o] + SumFunctionOnSet(f, (T \ {z}) \ {o})
      <4>1. o \in T \ {z} /\ T \ {z} \in SUBSET S
        BY <2>2, <2>5
      <4>2. QED
        BY <1>2, <3>1, <4>1
    <3>4. (T \ {z}) \ {o} = (T \ {o}) \ {z}
      OBVIOUS
    <3>5. SumFunctionOnSet(f, (T \ {o}) \ {z}) \in Nat /\ f[o] \in Nat /\ f[z] \in Nat
      BY <2>2, <3>1, SumType
    <3>6. QED
      BY <2>3, <3>2, <3>3, <3>4, <3>5
  <2>6. QED
    BY <2>4, <2>5
<1> HIDE DEF N
<1>3. Nat \subseteq N
  BY <1>1, <1>2, Induct
<1>4. S \in SUBSET S /\ Cardinality(S) \in Nat
  BY FS_CardinalityType
<1>5. QED
  BY <1>3, <1>4 DEF N

\* A sum over elements is the sum over what they are mapped to, one to one.
LEMMA SumMapped ==
    ASSUME NEW f, NEW g, NEW S, IsFiniteSet(S), NEW h,
           \A x \in S: f[x] \in Nat /\ g[h[x]] = f[x],
           \A x, y \in S: h[x] = h[y] => x = y
    PROVE  SumFunctionOnSet(f, S) = SumFunctionOnSet(g, {h[x]: x \in S})
<1> DEFINE Image(T) == {h[x]: x \in T}
           N == {n \in Nat: \A T \in SUBSET S: Cardinality(T) = n =>
                     /\ IsFiniteSet(Image(T))
                     /\ SumFunctionOnSet(f, T) = SumFunctionOnSet(g, Image(T))}
<1>1. 0 \in N
  <2>1. Image({}) = {}
    OBVIOUS
  <2>2. QED
    BY <2>1, SubsetFacts, SumEmpty, FS_EmptySet
<1>2. ASSUME NEW n \in Nat, n \in N
      PROVE  n + 1 \in N
  <2>0. SUFFICES ASSUME NEW T \in SUBSET S, Cardinality(T) = n + 1
                 PROVE  /\ IsFiniteSet(Image(T))
                        /\ SumFunctionOnSet(f, T) = SumFunctionOnSet(g, Image(T))
    OBVIOUS
  <2>1. T # {} /\ IsFiniteSet(T)
    <3>1. Cardinality(T) # 0
      BY <2>0
    <3>2. QED
      BY <3>1, SubsetFacts
  <2>2. PICK o: o = One(T)
    OBVIOUS
  <2>3. o \in T /\ T \ {o} \in SUBSET S /\ Cardinality(T \ {o}) = n
    BY <2>0, <2>1, <2>2, SubsetFacts
  <2>4. /\ IsFiniteSet(Image(T \ {o}))
        /\ SumFunctionOnSet(f, T \ {o}) = SumFunctionOnSet(g, Image(T \ {o}))
    BY <1>2, <2>3
  <2>5. Image(T) = Image(T \ {o}) \cup {h[o]} /\ Image(T) \ {h[o]} = Image(T \ {o})
    BY <2>3
  <2>6. \A y \in Image(T): g[y] \in Nat
    OBVIOUS
  <2> HIDE DEF Image
  <2>7. IsFiniteSet(Image(T))
    <3>1. IsFiniteSet(Image(T \ {o}) \cup {h[o]})
      BY <2>4, FS_AddElement
    <3>2. QED
      BY <2>5, <3>1
  <2>8. h[o] \in Image(T)
    BY <2>3 DEF Image
  <2>9. SumFunctionOnSet(g, Image(T)) = g[h[o]] + SumFunctionOnSet(g, Image(T) \ {h[o]})
    BY <2>7, <2>6, <2>8, SumRemove
  <2>10. SumFunctionOnSet(f, T) = f[o] + SumFunctionOnSet(f, T \ {o})
    BY <2>1, <2>2, SumStep
  <2>11. QED
    BY <2>3, <2>4, <2>5, <2>7, <2>9, <2>10
<1> HIDE DEF N
<1>3. Nat \subseteq N
  BY <1>1, <1>2, Induct
<1>4. S \in SUBSET S /\ Cardinality(S) \in Nat
  BY FS_CardinalityType
<1>5. QED
  BY <1>3, <1>4 DEF N

\* Two functions that agree on a set have the same sum over it.
LEMMA SumSame ==
    ASSUME NEW f, NEW g, NEW S, IsFiniteSet(S), \A x \in S: f[x] \in Nat /\ g[x] = f[x]
    PROVE  SumFunctionOnSet(f, S) = SumFunctionOnSet(g, S)
<1> DEFINE h == [x \in S |-> x]
<1>1. /\ \A x \in S: f[x] \in Nat /\ g[h[x]] = f[x]
      /\ \A x, y \in S: h[x] = h[y] => x = y
  OBVIOUS
<1>2. {h[x]: x \in S} = S
  OBVIOUS
<1> HIDE DEF h
<1>3. SumFunctionOnSet(f, S) = SumFunctionOnSet(g, {h[x]: x \in S})
  BY <1>1, SumMapped
<1>4. QED
  BY <1>2, <1>3

\* The sum over a disjoint union is the sum of the sums.
LEMMA SumUnion ==
    ASSUME NEW f, NEW S, IsFiniteSet(S), NEW T, IsFiniteSet(T), S \cap T = {},
           \A x \in S \cup T: f[x] \in Nat
    PROVE  SumFunctionOnSet(f, S \cup T) = SumFunctionOnSet(f, S) + SumFunctionOnSet(f, T)
<1> DEFINE N == {n \in Nat: \A U \in SUBSET T: Cardinality(U) = n =>
                     SumFunctionOnSet(f, S \cup U)
                         = SumFunctionOnSet(f, S) + SumFunctionOnSet(f, U)}
<1>0. SumFunctionOnSet(f, S) \in Nat
  BY SumType
<1>1. 0 \in N
  <2>1. \A U \in SUBSET T: Cardinality(U) = 0 => U = {}
    BY SubsetFacts
  <2>2. SumFunctionOnSet(f, S \cup {}) = SumFunctionOnSet(f, S) + SumFunctionOnSet(f, {})
    BY <1>0, SumEmpty
  <2>3. QED
    BY <2>1, <2>2
<1>2. ASSUME NEW n \in Nat, n \in N
      PROVE  n + 1 \in N
  <2>0. SUFFICES ASSUME NEW U \in SUBSET T, Cardinality(U) = n + 1
                 PROVE  SumFunctionOnSet(f, S \cup U)
                            = SumFunctionOnSet(f, S) + SumFunctionOnSet(f, U)
    OBVIOUS
  <2>1. U # {} /\ IsFiniteSet(U)
    <3>1. Cardinality(U) # 0
      BY <2>0
    <3>2. QED
      BY <3>1, SubsetFacts
  <2>2. PICK o: o = One(U)
    OBVIOUS
  <2>3. o \in U /\ U \ {o} \in SUBSET T /\ Cardinality(U \ {o}) = n
    BY <2>0, <2>1, <2>2, SubsetFacts
  <2>4. SumFunctionOnSet(f, S \cup (U \ {o}))
            = SumFunctionOnSet(f, S) + SumFunctionOnSet(f, U \ {o})
    BY <1>2, <2>3
  <2>5. S \cup (U \ {o}) = (S \cup U) \ {o}
    BY <2>3
  <2>6. IsFiniteSet(S \cup U)
    BY <2>1, FS_Union
  <2>7. SumFunctionOnSet(f, S \cup U) = f[o] + SumFunctionOnSet(f, (S \cup U) \ {o})
    <3>1. o \in S \cup U /\ \A x \in S \cup U: f[x] \in Nat
      BY <2>3
    <3>2. QED
      BY <2>6, <3>1, SumRemove
  <2>8. SumFunctionOnSet(f, U) = f[o] + SumFunctionOnSet(f, U \ {o})
    BY <2>1, <2>2, SumStep
  <2>9. f[o] \in Nat /\ SumFunctionOnSet(f, U \ {o}) \in Nat
    <3>1. IsFiniteSet(U \ {o})
      BY <2>1, FS_RemoveElement
    <3>2. QED
      BY <2>3, <3>1, SumType
  <2>10. QED
    BY <1>0, <2>4, <2>5, <2>7, <2>8, <2>9
<1> HIDE DEF N
<1>3. Nat \subseteq N
  BY <1>1, <1>2, Induct
<1>4. T \in SUBSET T /\ Cardinality(T) \in Nat
  BY FS_CardinalityType
<1>5. QED
  BY <1>3, <1>4 DEF N

\* An interval is summed in two parts.
LEMMA SumHalves ==
    ASSUME NEW f, NEW i \in Nat, NEW k \in Nat, NEW j \in Nat, i <= k, k <= j,
           \A x \in i + 1..j: f[x] \in Nat
    PROVE  SumFunctionOnSet(f, i + 1..j)
               = SumFunctionOnSet(f, i + 1..k) + SumFunctionOnSet(f, k + 1..j)
<1>1. /\ i + 1..j = (i + 1..k) \cup (k + 1..j)
      /\ (i + 1..k) \cap (k + 1..j) = {}
  OBVIOUS
<1>2. IsFiniteSet(i + 1..k) /\ IsFiniteSet(k + 1..j)
  BY FS_Interval
<1>3. PICK S, T: S = i + 1..k /\ T = k + 1..j
  OBVIOUS
<1>4. SumFunctionOnSet(f, S \cup T) = SumFunctionOnSet(f, S) + SumFunctionOnSet(f, T)
  <2>1. \A x \in S \cup T: f[x] \in Nat
    BY <1>1, <1>3
  <2>2. IsFiniteSet(S) /\ IsFiniteSet(T) /\ S \cap T = {}
    BY <1>1, <1>2, <1>3
  <2>3. QED
    BY <2>1, <2>2, SumUnion
<1>5. QED
  BY <1>1, <1>3, <1>4

\* The sum over one element is its value.
LEMMA SumOfOne ==
    ASSUME NEW f, NEW x, f[x] \in Nat
    PROVE  SumFunctionOnSet(f, {x}) = f[x]
<1>1. IsFiniteSet({x}) /\ {x} # {} /\ One({x}) = x /\ {x} \ {x} = {}
  BY FS_Singleton DEF One
<1>2. SumFunctionOnSet(f, {x}) = f[x] + SumFunctionOnSet(f, {})
  BY <1>1, SumStep
<1>3. QED
  BY <1>2, SumEmpty

-----------------------------------------------------------------------------
(***************************************************************************)
(* The width of tokens.                                                    *)
(***************************************************************************)

\* The widths of a sequence of tokens, and the sum of those after the i-th up to the j-th.
Widths(tokens) == [i \in 1..Len(tokens) |-> tokens[i].width]
SumTo(f, i, j) == SumFunctionOnSet(f, i + 1..j)

\* Width halves the sequence: it is computed over the pairs of ends of a part.
Spans(tokens) == (0..Len(tokens)) \X (0..Len(tokens))

PartOf(tokens, it, i, j) ==
    CASE j <= i    -> 0
      [] j = i + 1 -> tokens[j].width
      [] OTHER     -> it[<<i, (i + j) \div 2>>] + it[<<(i + j) \div 2, j>>]

IsPart(tokens, it) == it = [p \in Spans(tokens) |-> PartOf(tokens, it, p[1], p[2])]

\* Width is the value, at the whole sequence, of a function defined by halving.
LEMMA WidthDefinition ==
    \A tokens: tokens # <<>> =>
        Width(tokens) = (CHOOSE it: IsPart(tokens, it))[<<0, Len(tokens)>>]
BY DEF Width, PartOf, IsPart, Spans

\* The middle of two ends that are more than one apart lies strictly between them.
LEMMA Middle ==
    ASSUME NEW i \in Nat, NEW j \in Nat, ~(j <= i), j # i + 1
    PROVE  /\ (i + j) \div 2 \in Nat
           /\ i < (i + j) \div 2 /\ (i + j) \div 2 < j
OBVIOUS

\* The sum of the widths between two ends satisfies the equation of the halving.
LEMMA SumToParts ==
    ASSUME NEW tokens \in Seq(Tokens), NEW i \in 0..Len(tokens), NEW j \in 0..Len(tokens)
    PROVE  LET f == Widths(tokens)
               k == (i + j) \div 2
           IN  /\ j <= i => SumTo(f, i, j) = 0
               /\ ~(j <= i) /\ j = i + 1 => SumTo(f, i, j) = tokens[j].width
               /\ ~(j <= i) /\ j # i + 1 => SumTo(f, i, j) = SumTo(f, i, k) + SumTo(f, k, j)
<1> DEFINE f == Widths(tokens)  k == (i + j) \div 2
<1>1. \A x \in 1..Len(tokens): f[x] = tokens[x].width /\ f[x] \in Nat
  BY DEF Widths, Tokens
<1> HIDE DEF f
<1>2. CASE j <= i
  <2>1. i + 1..j = {}
    BY <1>2
  <2>2. QED
    BY <1>2, <2>1, SumEmpty DEF SumTo
<1>3. CASE ~(j <= i) /\ j = i + 1
  <2>1. i + 1..j = {j} /\ j \in 1..Len(tokens)
    BY <1>3
  <2>2. SumFunctionOnSet(f, {j}) = f[j]
    BY <1>1, <2>1, SumOfOne
  <2>3. SumTo(f, i, j) = tokens[j].width
    BY <1>1, <2>1, <2>2 DEF SumTo
  <2>4. QED
    BY <1>3, <2>3 DEF f
<1>4. CASE ~(j <= i) /\ j # i + 1
  <2>1. k \in Nat /\ i < k /\ k < j
    BY <1>4, Middle
  <2> HIDE DEF k
  <2>2. \A x \in i + 1..j: f[x] \in Nat
    BY <1>1
  <2>3. SumTo(f, i, j) = SumTo(f, i, k) + SumTo(f, k, j)
    BY <2>1, <2>2, SumHalves DEF SumTo
  <2>4. QED
    BY <1>4, <2>3 DEF f, k
<1>5. QED
  BY <1>2, <1>3, <1>4 DEF f

\* The halving is well founded: a function that satisfies its equation exists.
LEMMA PartsExist ==
    ASSUME NEW tokens \in Seq(Tokens)
    PROVE  \E it: IsPart(tokens, it)
<1> DEFINE f == Widths(tokens)  n == Len(tokens)
           it == [p \in Spans(tokens) |-> SumTo(f, p[1], p[2])]
<1> HIDE DEF f
<1>1. \A i, j \in 0..n: it[<<i, j>>] = SumTo(f, i, j)
  BY DEF Spans
<1>2. ASSUME NEW i \in 0..n, NEW j \in 0..n
      PROVE  SumTo(f, i, j) = PartOf(tokens, it, i, j)
  <2> DEFINE k == (i + j) \div 2
  <2>1. ~(j <= i) /\ j # i + 1 => k \in 0..n
    BY Middle
  <2> HIDE DEF it
  <2>2. PartOf(tokens, it, i, j) =
            IF j <= i THEN 0 ELSE IF j = i + 1 THEN tokens[j].width
            ELSE it[<<i, k>>] + it[<<k, j>>]
    <3>1. i \in Int /\ j \in Int
      OBVIOUS
    <3>2. QED
      BY <3>1 DEF PartOf
  <2> HIDE DEF k
  <2>3. ~(j <= i) /\ j # i + 1 => it[<<i, k>>] = SumTo(f, i, k) /\ it[<<k, j>>] = SumTo(f, k, j)
    BY <1>1, <2>1
  <2>4. QED
    BY <2>2, <2>3, SumToParts DEF f, k
<1>3. \A p \in Spans(tokens): it[p] = PartOf(tokens, it, p[1], p[2])
  <2> HIDE DEF it
  <2> QED
    BY <1>1, <1>2 DEF Spans
<1>4. it = [p \in Spans(tokens) |-> it[p]]
  OBVIOUS
<1> HIDE DEF it
<1>5. IsPart(tokens, it)
  BY <1>3, <1>4 DEF IsPart
<1>6. QED
  BY <1>5

\* Width is the sum of the widths, whatever the order it adds them in.
LEMMA WidthIs ==
    ASSUME NEW tokens \in Seq(Tokens)
    PROVE  Width(tokens) = SumFunctionOnSet(Widths(tokens), 1..Len(tokens))
<1> DEFINE f == Widths(tokens)  n == Len(tokens)
<1>1. CASE tokens = <<>>
  <2>1. 1..Len(tokens) = {} /\ Width(tokens) = 0
    BY <1>1 DEF Width
  <2>2. QED
    BY <2>1, SumEmpty
<1>2. CASE tokens # <<>>
  <2>1. PICK it: IsPart(tokens, it) /\ Width(tokens) = it[<<0, n>>]
    BY <1>2, PartsExist, WidthDefinition
  <2>2. \A i, j \in 0..n:
           it[<<i, j>>] = IF j <= i THEN 0 ELSE IF j = i + 1 THEN tokens[j].width
                          ELSE it[<<i, (i + j) \div 2>>] + it[<<(i + j) \div 2, j>>]
    <3> TAKE i, j \in 0..n
    <3>1. it[<<i, j>>] = PartOf(tokens, it, i, j)
      BY <2>1 DEF IsPart, Spans
    <3>2. i \in Int /\ j \in Int
      OBVIOUS
    <3>3. QED
      BY <3>1, <3>2 DEF PartOf
  <2> DEFINE Right(i, j) == it[<<i, j>>] = SumTo(f, i, j)
             N == {d \in Nat: \A i, j \in 0..n: j - i <= d => Right(i, j)}
  <2>3. ASSUME NEW i \in 0..n, NEW j \in 0..n, j <= i
        PROVE  Right(i, j)
    <3>1. it[<<i, j>>] = 0
      BY <2>2, <2>3
    <3>2. QED
      BY <2>3, <3>1, SumToParts
  <2>4. 0 \in N
    <3> HIDE DEF Right
    <3>1. \A i, j \in 0..n: j - i <= 0 => j <= i
      OBVIOUS
    <3>2. QED
      BY <2>3, <3>1
  <2>5. ASSUME NEW d \in Nat, d \in N
        PROVE  d + 1 \in N
    <3>1. ASSUME NEW i \in 0..n, NEW j \in 0..n, j - i <= d + 1
          PROVE  Right(i, j)
      <4> DEFINE k == (i + j) \div 2
      <4>1. CASE j <= i
        BY <2>3, <4>1
      <4>2. CASE ~(j <= i) /\ j = i + 1
        <5>1. it[<<i, j>>] = tokens[j].width
          BY <2>2, <4>2
        <5>2. QED
          BY <4>2, <5>1, SumToParts
      <4>3. CASE ~(j <= i) /\ j # i + 1
        <5>1. k \in Nat /\ i < k /\ k < j
          BY <4>3, Middle
        <5>2. it[<<i, j>>] = it[<<i, k>>] + it[<<k, j>>]
          BY <2>2, <4>3
        <5>3. SumTo(f, i, j) = SumTo(f, i, k) + SumTo(f, k, j)
          BY <4>3, SumToParts
        <5> HIDE DEF k, f
        <5>4. k \in 0..n /\ k - i <= d /\ j - k <= d
          BY <3>1, <5>1
        <5>5. Right(i, k) /\ Right(k, j)
          BY <2>5, <5>4
        <5>6. QED
          BY <5>2, <5>3, <5>5
      <4>4. QED
        BY <4>1, <4>2, <4>3
    <3> HIDE DEF Right
    <3>2. QED
      BY <3>1
  <2> HIDE DEF N
  <2>6. Nat \subseteq N
    BY <2>4, <2>5, Induct
  <2>7. n \in N /\ 0 \in 0..n /\ n \in 0..n /\ n - 0 <= n
    BY <2>6
  <2>8. Right(0, n)
    BY <2>7 DEF N
  <2>9. SumTo(f, 0, n) = SumFunctionOnSet(f, 1..n)
    BY DEF SumTo
  <2>10. QED
    BY <2>1, <2>8, <2>9
<1>3. QED
  BY <1>1, <1>2

\* A sum over an interval is that over its two parts.
LEMMA SumParts ==
    ASSUME NEW f, NEW k \in Nat, NEW n \in Nat, k <= n, \A x \in 1..n: f[x] \in Nat
    PROVE  SumFunctionOnSet(f, 1..n) = SumFunctionOnSet(f, 1..k) + SumFunctionOnSet(f, k + 1..n)
<1>1. PICK i \in Nat: i = 0
  OBVIOUS
<1>2. i + 1..n = 1..n /\ i + 1..k = 1..k /\ i <= k
  BY <1>1
<1>3. \A x \in i + 1..n: f[x] \in Nat
  BY <1>2
<1>4. SumFunctionOnSet(f, i + 1..n)
          = SumFunctionOnSet(f, i + 1..k) + SumFunctionOnSet(f, k + 1..n)
  BY <1>2, <1>3, SumHalves
<1>5. QED
  BY <1>2, <1>4

\* The widths of tokens are naturals.
LEMMA WidthsTyped ==
    ASSUME NEW tokens \in Seq(Tokens)
    PROVE  /\ Len(tokens) \in Nat
           /\ \A i \in 1..Len(tokens): /\ Widths(tokens)[i] = tokens[i].width
                                       /\ Widths(tokens)[i] \in Nat
BY DEF Widths, Tokens

\* The width of tokens is a natural.
LEMMA WidthType ==
    ASSUME NEW tokens \in Seq(Tokens)
    PROVE  Width(tokens) \in Nat
<1>1. IsFiniteSet(1..Len(tokens))
  BY FS_Interval
<1>2. \A i \in 1..Len(tokens): Widths(tokens)[i] \in Nat
  BY WidthsTyped
<1>3. QED
  BY <1>1, <1>2, SumType, WidthIs

\* The width of tokens and then others is the sum of the two widths.
LEMMA WidthConcat ==
    ASSUME NEW s \in Seq(Tokens), NEW t \in Seq(Tokens)
    PROVE  s \o t \in Seq(Tokens) /\ Width(s \o t) = Width(s) + Width(t)
<1> DEFINE u == s \o t
<1>1. u \in Seq(Tokens) /\ Len(s) \in Nat /\ Len(t) \in Nat /\ Len(u) = Len(s) + Len(t)
  OBVIOUS
<1>2. /\ \A i \in 1..Len(s): u[i] = s[i]
      /\ \A i \in 1..Len(t): u[Len(s) + i] = t[i]
  OBVIOUS
<1> HIDE DEF u
<1>3. Width(u) = SumFunctionOnSet(Widths(u), 1..Len(s))
                     + SumFunctionOnSet(Widths(u), Len(s) + 1..Len(u))
  <2>1. \A x \in 1..Len(u): Widths(u)[x] \in Nat
    BY <1>1, WidthsTyped
  <2>2. Len(s) <= Len(u) /\ Len(u) \in Nat
    BY <1>1
  <2>3. QED
    BY <1>1, <2>1, <2>2, SumParts, WidthIs
<1>4. SumFunctionOnSet(Widths(u), 1..Len(s)) = Width(s)
  <2>1. ASSUME NEW i \in 1..Len(s)
        PROVE  Widths(s)[i] \in Nat /\ Widths(u)[i] = Widths(s)[i]
    <3>1. i \in 1..Len(u)
      BY <1>1
    <3>2. Widths(s)[i] \in Nat /\ Widths(s)[i] = s[i].width
      BY WidthsTyped
    <3>3. Widths(u)[i] = u[i].width
      BY <1>1, <3>1, WidthsTyped
    <3>4. QED
      BY <1>2, <3>2, <3>3
  <2>2. IsFiniteSet(1..Len(s))
    BY FS_Interval
  <2>3. QED
    BY <2>1, <2>2, SumSame, WidthIs
<1>5. SumFunctionOnSet(Widths(u), Len(s) + 1..Len(u)) = Width(t)
  <2> DEFINE h == [i \in 1..Len(t) |-> Len(s) + i]
  <2>1. ASSUME NEW i \in 1..Len(t)
        PROVE  Widths(t)[i] \in Nat /\ Widths(u)[h[i]] = Widths(t)[i]
    <3>1. h[i] = Len(s) + i /\ Len(s) + i \in 1..Len(u)
      BY <1>1
    <3>2. Widths(t)[i] \in Nat /\ Widths(t)[i] = t[i].width
      BY WidthsTyped
    <3>3. Widths(u)[Len(s) + i] = u[Len(s) + i].width
      BY <1>1, <3>1, WidthsTyped
    <3>4. QED
      BY <1>2, <3>1, <3>2, <3>3
  <2>2. \A x, y \in 1..Len(t): h[x] = h[y] => x = y
    BY <1>1
  <2>3. {h[x]: x \in 1..Len(t)} = Len(s) + 1..Len(u)
    <3>1. \A z \in Len(s) + 1..Len(u): z - Len(s) \in 1..Len(t) /\ h[z - Len(s)] = z
      BY <1>1
    <3>2. \A x \in 1..Len(t): h[x] \in Len(s) + 1..Len(u)
      BY <1>1
    <3> HIDE DEF h
    <3>3. QED
      BY <3>1, <3>2
  <2> HIDE DEF h
  <2>4. IsFiniteSet(1..Len(t))
    BY FS_Interval
  <2>5. SumFunctionOnSet(Widths(t), 1..Len(t))
            = SumFunctionOnSet(Widths(u), {h[x]: x \in 1..Len(t)})
    <3>1. PICK S, f, g: S = 1..Len(t) /\ f = Widths(t) /\ g = Widths(u)
      OBVIOUS
    <3>2. /\ \A x \in S: f[x] \in Nat /\ g[h[x]] = f[x]
          /\ \A x, y \in S: h[x] = h[y] => x = y
      BY <2>1, <2>2, <3>1
    <3>3. IsFiniteSet(S)
      BY <2>4, <3>1
    <3>4. SumFunctionOnSet(f, S) = SumFunctionOnSet(g, {h[x]: x \in S})
      BY <3>2, <3>3, SumMapped
    <3>5. QED
      BY <3>1, <3>4
  <2>6. QED
    BY <2>3, <2>5, WidthIs
<1>6. QED
  BY <1>1, <1>3, <1>4, <1>5 DEF u

\* The width of one token is its own.
LEMMA WidthOfOne ==
    ASSUME NEW t \in Tokens
    PROVE  <<t>> \in Seq(Tokens) /\ Width(<<t>>) = t.width
<1> DEFINE s == <<t>>
<1>1. s \in Seq(Tokens) /\ Len(s) = 1 /\ s[1] = t /\ t.width \in Nat /\ 1..1 = {1}
  BY DEF Tokens
<1> HIDE DEF s
<1>2. Widths(s)[1] = t.width
  BY <1>1, WidthsTyped
<1>3. Width(s) = SumFunctionOnSet(Widths(s), {1})
  BY <1>1, WidthIs
<1>4. QED
  BY <1>1, <1>2, <1>3, SumOfOne DEF s

(***************************************************************************)
(* Sequences of tokens one after the other.                                *)
(***************************************************************************)
IsTokenized(seqs) ==
    /\ Len(seqs) \in Nat /\ DOMAIN seqs = 1..Len(seqs)
    /\ \A i \in DOMAIN seqs: seqs[i] \in Seq(Tokens)

\* FlattenSeq concatenates from the left: what it computes of the first i sequences.
Prefix(seqs, it, i) == IF i = 1 THEN seqs[i] ELSE it[i - 1] \o seqs[i]

ArePrefixes(seqs, n, it) == it = [i \in 1..n |-> Prefix(seqs, it, i)]

\* FlattenSeq is the last value of a function defined over the prefixes.
LEMMA FlattenDefinition ==
    \A seqs: Len(seqs) # 0 =>
        FlattenSeq(seqs) = (CHOOSE it: ArePrefixes(seqs, Len(seqs), it))[Len(seqs)]
BY DEF FlattenSeq, Prefix, ArePrefixes

\* A function that satisfies the equation of the prefixes exists.
LEMMA PrefixesExist ==
    ASSUME NEW seqs, NEW n \in Nat
    PROVE  \E it: ArePrefixes(seqs, n, it)
<1> DEFINE N == {k \in Nat: \E it: ArePrefixes(seqs, k, it)}
<1>1. 0 \in N
  <2> DEFINE it == [i \in 1..0 |-> 0]
  <2>1. it = [i \in 1..0 |-> Prefix(seqs, it, i)]
    OBVIOUS
  <2>2. QED
    BY <2>1 DEF ArePrefixes
<1>2. ASSUME NEW k \in Nat, k \in N
      PROVE  k + 1 \in N
  <2>1. PICK it: it = [i \in 1..k |-> Prefix(seqs, it, i)]
    BY <1>2 DEF ArePrefixes
  <2> DEFINE jt == [i \in 1..k + 1 |-> Prefix(seqs, it, i)]
  <2>2. \A i \in 1..k: it[i] = jt[i]
    BY <2>1
  <2>3. ASSUME NEW i \in 1..k + 1
        PROVE  Prefix(seqs, it, i) = Prefix(seqs, jt, i)
    <3>1. i = 1 \/ i - 1 \in 1..k
      OBVIOUS
    <3> HIDE DEF jt
    <3>2. QED
      BY <2>2, <3>1 DEF Prefix
  <2>4. jt = [i \in 1..k + 1 |-> Prefix(seqs, jt, i)]
    BY <2>3
  <2> HIDE DEF jt
  <2>5. QED
    BY <2>4 DEF ArePrefixes
<1> HIDE DEF N
<1>3. Nat \subseteq N
  BY <1>1, <1>2, Induct
<1>4. QED
  BY <1>3 DEF N

\* The bytes of sequences, one after the other, are those of each.
LEMMA FlattenWidth ==
    ASSUME NEW seqs, IsTokenized(seqs),
           NEW f, \A i \in DOMAIN seqs: f[i] = Width(seqs[i])
    PROVE  /\ FlattenSeq(seqs) \in Seq(Tokens)
           /\ Width(FlattenSeq(seqs)) = SumFunctionOnSet(f, DOMAIN seqs)
<1> DEFINE n == Len(seqs)
<1>1. n \in Nat /\ DOMAIN seqs = 1..n /\ \A i \in 1..n: seqs[i] \in Seq(Tokens) /\ f[i] \in Nat
  BY WidthType DEF IsTokenized
<1>2. CASE n = 0
  <2>1. DOMAIN seqs = {} /\ seqs = <<>> /\ FlattenSeq(seqs) = seqs
    BY <1>1, <1>2 DEF FlattenSeq
  <2>2. FlattenSeq(seqs) \in Seq(Tokens) /\ Width(FlattenSeq(seqs)) = 0
    <3>1. Width(<<>>) = 0
      BY DEF Width
    <3>2. FlattenSeq(seqs) = <<>> /\ <<>> \in Seq(Tokens)
      BY <2>1
    <3>3. QED
      BY <3>1, <3>2
  <2>3. QED
    BY <2>1, <2>2, SumEmpty
<1>3. CASE n # 0
  <2>1. PICK it: ArePrefixes(seqs, n, it) /\ FlattenSeq(seqs) = it[n]
    BY <1>1, <1>3, PrefixesExist, FlattenDefinition
  <2>2. \A i \in 1..n: it[i] = IF i = 1 THEN seqs[i] ELSE it[i - 1] \o seqs[i]
    BY <2>1 DEF ArePrefixes, Prefix
  <2> DEFINE Right(i) == it[i] \in Seq(Tokens) /\ Width(it[i]) = SumFunctionOnSet(f, 1..i)
             N == {i \in Nat: i \in 1..n => Right(i)}
  <2>3. 0 \in N
    OBVIOUS
  <2>4. ASSUME NEW i \in Nat, i \in N, i + 1 \in 1..n
        PROVE  Right(i + 1)
    <3>1. CASE i = 0
      <4>1. it[1] = seqs[1] /\ 1 \in 1..n /\ 1..1 = {1}
        BY <1>1, <1>3, <2>2
      <4>2. SumFunctionOnSet(f, {1}) = f[1]
        BY <1>1, <4>1, SumOfOne
      <4>3. QED
        BY <1>1, <3>1, <4>1, <4>2
    <3>2. CASE i # 0
      <4>1. i \in 1..n /\ Right(i)
        BY <2>4, <3>2
      <4>2. it[i + 1] = it[i] \o seqs[i + 1]
        <5>1. i + 1 # 1 /\ i + 1 \in 1..n /\ (i + 1) - 1 = i
          BY <2>4, <3>2
        <5>2. QED
          BY <2>2, <5>1
      <4>3. it[i + 1] \in Seq(Tokens) /\ Width(it[i + 1]) = Width(it[i]) + f[i + 1]
        BY <1>1, <2>4, <4>1, <4>2, WidthConcat
      <4>4. SumFunctionOnSet(f, 1..i + 1) = SumFunctionOnSet(f, 1..i) + f[i + 1]
        <5>1. \A x \in 1..i + 1: f[x] \in Nat
          BY <1>1, <2>4
        <5>2. SumFunctionOnSet(f, 1..i + 1)
                  = SumFunctionOnSet(f, 1..i) + SumFunctionOnSet(f, i + 1..i + 1)
          <6>1. i + 1 \in Nat /\ i <= i + 1
            OBVIOUS
          <6>2. QED
            BY <5>1, <6>1, SumParts
        <5>3. i + 1..i + 1 = {i + 1}
          OBVIOUS
        <5>4. SumFunctionOnSet(f, {i + 1}) = f[i + 1]
          BY <1>1, <2>4, SumOfOne
        <5>5. QED
          BY <5>2, <5>3, <5>4
      <4>5. QED
        BY <4>1, <4>3, <4>4
    <3>3. QED
      BY <3>1, <3>2
  <2>5. \A i \in Nat: i \in N => i + 1 \in N
    BY <2>4
  <2> HIDE DEF N
  <2>6. Nat \subseteq N
    BY <2>3, <2>5, Induct
  <2>7. n \in N /\ n \in 1..n
    BY <1>1, <1>3, <2>6
  <2>8. QED
    BY <1>1, <2>1, <2>7 DEF N
<1>4. QED
  BY <1>2, <1>3

-----------------------------------------------------------------------------
(***************************************************************************)
(* The tables of the classes.                                              *)
(***************************************************************************)

\* How deep the messages of a class nest: 1 for a class of scalars, 5 at most.
Depth ==
    [Metric_TagsEntry |-> 1,
     ConfigMap_IntMapEntry |-> 1, ConfigMap_StringMapEntry |-> 1,
     ConfigMap_FloatMapEntry |-> 1, ConfigMap_BoolMapEntry |-> 1,
     Time |-> 1, NamespaceElement |-> 1, Empty |-> 1, ErrReply |-> 1, KillArg |-> 1,
     BoolRule |-> 1, FloatRule |-> 1, IntegerRule |-> 1, StringRule |-> 1,
     ConfigMap |-> 2, BoolPolicy_RulesEntry |-> 2, FloatPolicy_RulesEntry |-> 2,
     IntegerPolicy_RulesEntry |-> 2, StringPolicy_RulesEntry |-> 2,
     Metric |-> 3, GetMetricTypesArg |-> 3, BoolPolicy |-> 3, FloatPolicy |-> 3,
     IntegerPolicy |-> 3, StringPolicy |-> 3,
     MetricsArg |-> 4, MetricsReply |-> 4, PubProcArg |-> 4,
     GetConfigPolicyReply_BoolPolicyEntry |-> 4,
     GetConfigPolicyReply_FloatPolicyEntry |-> 4,
     GetConfigPolicyReply_IntegerPolicyEntry |-> 4,
     GetConfigPolicyReply_StringPolicyEntry |-> 4,
     CollectArg |-> 5, CollectReply |-> 5, GetConfigPolicyReply |-> 5]

TypeNames == DOMAIN Depth

\* The member that a description is of: as a member, a string is text.
Member(e) == [e EXCEPT !.of = IF @ \in TextKinds THEN "text" ELSE @]
MemberKind(kind) == IF kind \in TextKinds THEN "text" ELSE kind

Shapes == {"value", "choice", "held", "message", "repeated", "mapped"}

\* The messages that are alone in a field of another.
Flat == {"Time", "ConfigMap", "MetricsArg", "MetricsReply", "ErrReply"}

\* What a field is described by: its shape decides what it may hold.
IsDescription(e) ==
    /\ {"shape", "field", "of"} \subseteq DOMAIN e /\ e.shape \in Shapes
    /\ e.shape = "choice" => "choice" \in DOMAIN e
    /\ e.shape \in {"value", "choice"} => e.of \in Kinds
    /\ e.shape = "message" => e.of \in Types /\ e.of \in Flat
    /\ e.shape = "mapped" => e.of \in EntryTypes

\* A field holds a scalar or a message of a lesser depth.
Nested(e, type) == \/ e.of \in Kinds
                   \/ e.of \in TypeNames /\ Depth[e.of] < Depth[type]

\* Two members are not in one field, unless they are choices of a union.
Apart(e, f) ==
    e.field = f.field =>
        \/ e = f
        \/ e.shape = "choice" /\ f.shape = "choice" /\ e.choice # f.choice

\* A write of a field with its tag, as the size function lists it: the tag by its width.
Sized(w) == <<IF w[1] <= 15 THEN 1 ELSE 2, w[2]>>

\* The fields of a class are described, nested and apart.
MembersFit(type, members) ==
    /\ \A e \in members: IsDescription(e) /\ Nested(e, type)
    /\ \A e, f \in members: Apart(e, f)

\* A field is written once, and what is measured is what is written.
WritesFit(writes, sizes) ==
    /\ Len(writes) \in Nat /\ DOMAIN writes = 1..Len(writes)
    /\ \A i \in DOMAIN writes: writes[i][1] \in Nat /\ Sized(writes[i]) \in sizes
    /\ \A s \in sizes: \E i \in DOMAIN writes: s = Sized(writes[i])
    /\ \A i, j \in DOMAIN writes: writes[i][2] = writes[j][2] => i = j

\* A new message has the fields of its class, each with its default.
NewFits(new, members) ==
    /\ new = [f \in {e.field: e \in members} |-> new[f]]
    /\ \A e \in members:
          /\ e.shape # "held"
          /\ new[e.field] = IF e.shape = "value" THEN Zero(e.of) ELSE <<>>

\* The tables of one class agree: what it reads, sizes, writes, creates, clears and merges
\* are its fields.
ClassFits(type) ==
    /\ type \in Types /\ type \notin EntryTypes /\ type \in TypeNames
    /\ MembersFit(type, Members[type])
    /\ \A r \in Reads[type]: Member(r[2]) \in Members[type]
    /\ \A s \in Sizes[type]: s[1] \in {1, 2} /\ Member(s[2]) \in Members[type]
    /\ \A array \in BOOLEAN: WritesFit(WritesOf(type, array), Sizes[type])
    /\ NewFits(NewOf[type], Members[type])
    /\ Cleared[type] = {e.field: e \in Members[type]}
    /\ Merges[type] = Members[type]

\* The default of each kind of scalar.
LEMMA ZeroIs ==
    Zero("text") = "" /\ Zero("bool") = FALSE /\ Zero("int64") = 0 /\ Zero("double") = 0
    /\ Zero("uint32") = 0 /\ Zero("uint64") = 0 /\ Zero("int32") = 0 /\ Zero("float") = 0
BY DEF Zero, TextKinds

\* A field of bytes and a field of a string are the same member.
LEMMA MemberOf ==
    \A f, c, k: /\ Member(Value(f, k)) = Value(f, MemberKind(k))
                /\ Member(Choice(f, c, k)) = Choice(f, c, MemberKind(k))
                /\ Member(Message(f, k)) = Message(f, MemberKind(k))
                /\ Member(Repeated(f, k)) = Repeated(f, MemberKind(k))
                /\ Member(Mapped(f, k)) = Mapped(f, MemberKind(k))
                /\ Member(Held(f, k)) = Held(f, MemberKind(k))
BY DEF Member, MemberKind, Value, Choice, Message, Repeated, Mapped, Held

\* The tables of Time agree.
LEMMA TimeFits == ClassFits("Time")
<1> DEFINE new == TimeNew
<1>1. /\ "Time" \in Types /\ "Time" \notin EntryTypes /\ "Time" \in TypeNames
      /\ Members["Time"] = TimeMembers /\ NewOf["Time"] = new
      /\ Cleared["Time"] = TimeCleared /\ Reads["Time"] = TimeReads
      /\ Sizes["Time"] = TimeSizes /\ Merges["Time"] = TimeMerges
  BY DEF Types, EntryTypes, Entries, TypeNames, Depth, Members, NewOf, Cleared, Reads, Sizes,
         Merges
<1>2. \A array \in BOOLEAN: WritesOf("Time", array) = TimeWrites
  BY <1>1 DEF WritesOf, Writes
<1>3. MembersFit("Time", TimeMembers)
  BY DEF MembersFit, IsDescription, Shapes, Flat, Types, Members, EntryTypes, Entries,
         Kinds, IntegerKinds, TextKinds, Nested, TypeNames, Depth, Apart, TimeMembers, Value
<1>4. /\ \A r \in TimeReads: Member(r[2]) \in TimeMembers
      /\ \A s \in TimeSizes: s[1] \in {1, 2} /\ Member(s[2]) \in TimeMembers
  BY MemberOf
     DEF TimeReads, TimeSizes, TimeMembers, MemberKind, TextKinds
<1>5. WritesFit(TimeWrites, TimeSizes)
  BY DEF WritesFit, Sized, TimeSizes, TimeWrites, Value
<1>6. TimeCleared = {e.field: e \in TimeMembers} /\ TimeMerges = TimeMembers
  BY DEF TimeCleared, TimeMerges, TimeMembers, Value
<1>7. /\ new = [f \in TimeCleared |-> new[f]]
      /\ new["sec"] = Zero("int64") /\ new["nsec"] = Zero("int64")
  BY ZeroIs DEF TimeNew, TimeCleared
<1> HIDE DEF new
<1>8. NewFits(new, TimeMembers)
  BY <1>6, <1>7 DEF NewFits, TimeMembers, Value
<1>9. QED
  BY <1>1, <1>2, <1>3, <1>4, <1>5, <1>6, <1>8 DEF ClassFits

\* The tables of NamespaceElement agree.
LEMMA NamespaceElementFits == ClassFits("NamespaceElement")
<1> DEFINE new == NamespaceElementNew
<1>1. /\ "NamespaceElement" \in Types
      /\ "NamespaceElement" \notin EntryTypes
      /\ "NamespaceElement" \in TypeNames
      /\ Members["NamespaceElement"] = NamespaceElementMembers /\ NewOf["NamespaceElement"] = new
      /\ Cleared["NamespaceElement"] = NamespaceElementCleared
      /\ Reads["NamespaceElement"] = NamespaceElementReads
      /\ Sizes["NamespaceElement"] = NamespaceElementSizes
      /\ Merges["NamespaceElement"] = NamespaceElementMerges
  BY DEF Types, EntryTypes, Entries, TypeNames, Depth, Members, NewOf, Cleared, Reads, Sizes,
         Merges
<1>2. \A array \in BOOLEAN: WritesOf("NamespaceElement", array) = NamespaceElementWrites
  BY <1>1 DEF WritesOf, Writes
<1>3. MembersFit("NamespaceElement", NamespaceElementMembers)
  BY DEF MembersFit, IsDescription, Shapes, Flat, Types, Members, EntryTypes, Entries,
         Kinds, IntegerKinds, TextKinds, Nested, TypeNames, Depth, Apart,
         NamespaceElementMembers, Value
<1>4. /\ \A r \in NamespaceElementReads: Member(r[2]) \in NamespaceElementMembers
      /\ \A s \in NamespaceElementSizes: s[1] \in {1, 2} /\
            Member(s[2]) \in NamespaceElementMembers
  BY MemberOf
     DEF NamespaceElementReads, NamespaceElementSizes, NamespaceElementMembers, MemberKind,
         TextKinds
<1>5. WritesFit(NamespaceElementWrites, NamespaceElementSizes)
  BY DEF WritesFit, Sized, NamespaceElementSizes, NamespaceElementWrites, Value
<1>6. /\ NamespaceElementCleared = {e.field: e \in NamespaceElementMembers}
      /\ NamespaceElementMerges = NamespaceElementMembers
  BY DEF NamespaceElementCleared, NamespaceElementMerges, NamespaceElementMembers, Value
<1>7. /\ new = [f \in NamespaceElementCleared |-> new[f]]
      /\ new["value"] = Zero("text") /\ new["description"] = Zero("text")
      /\ new["name"] = Zero("text")
  BY ZeroIs DEF NamespaceElementNew, NamespaceElementCleared
<1> HIDE DEF new
<1>8. NewFits(new, NamespaceElementMembers)
  BY <1>6, <1>7 DEF NewFits, NamespaceElementMembers, Value
<1>9. QED
  BY <1>1, <1>2, <1>3, <1>4, <1>5, <1>6, <1>8 DEF ClassFits

\* The tables of Empty agree.
LEMMA EmptyFits == ClassFits("Empty")
<1> DEFINE new == EmptyNew
<1>1. /\ "Empty" \in Types /\ "Empty" \notin EntryTypes /\ "Empty" \in TypeNames
      /\ Members["Empty"] = EmptyMembers /\ NewOf["Empty"] = new
      /\ Cleared["Empty"] = EmptyCleared /\ Reads["Empty"] = EmptyReads
      /\ Sizes["Empty"] = EmptySizes /\ Merges["Empty"] = EmptyMerges
  BY DEF Types, EntryTypes, Entries, TypeNames, Depth, Members, NewOf, Cleared, Reads, Sizes,
         Merges
<1>2. \A array \in BOOLEAN: WritesOf("Empty", array) = EmptyWrites
  BY <1>1 DEF WritesOf, Writes
<1>3. MembersFit("Empty", EmptyMembers)
  BY DEF MembersFit, IsDescription, Shapes, Flat, Types, Members, EntryTypes, Entries,
         Kinds, IntegerKinds, TextKinds, Nested, TypeNames, Depth, Apart, EmptyMembers
<1>4. /\ \A r \in EmptyReads: Member(r[2]) \in EmptyMembers
      /\ \A s \in EmptySizes: s[1] \in {1, 2} /\ Member(s[2]) \in EmptyMembers
  BY MemberOf
     DEF EmptyReads, EmptySizes, EmptyMembers, MemberKind, TextKinds
<1>5. WritesFit(EmptyWrites, EmptySizes)
  BY DEF WritesFit, Sized, EmptySizes, EmptyWrites
<1>6. EmptyCleared = {e.field: e \in EmptyMembers} /\ EmptyMerges = EmptyMembers
  BY DEF EmptyCleared, EmptyMerges, EmptyMembers
<1>7. new = [f \in EmptyCleared |-> new[f]]
  BY DEF EmptyNew, EmptyCleared
<1> HIDE DEF new
<1>8. NewFits(new, EmptyMembers)
  BY <1>6, <1>7 DEF NewFits, EmptyMembers
<1>9. QED
  BY <1>1, <1>2, <1>3, <1>4, <1>5, <1>6, <1>8 DEF ClassFits

\* The tables of ErrReply agree.
LEMMA ErrReplyFits == ClassFits("ErrReply")
<1> DEFINE new == ErrReplyNew
<1>1. /\ "ErrReply" \in Types /\ "ErrReply" \notin EntryTypes /\ "ErrReply" \in TypeNames
      /\ Members["ErrReply"] = ErrReplyMembers /\ NewOf["ErrReply"] = new
      /\ Cleared["ErrReply"] = ErrReplyCleared /\ Reads["ErrReply"] = ErrReplyReads
      /\ Sizes["ErrReply"] = ErrReplySizes /\ Merges["ErrReply"] = ErrReplyMerges
  BY DEF Types, EntryTypes, Entries, TypeNames, Depth, Members, NewOf, Cleared, Reads, Sizes,
         Merges
<1>2. \A array \in BOOLEAN: WritesOf("ErrReply", array) = ErrReplyWrites
  BY <1>1 DEF WritesOf, Writes
<1>3. MembersFit("ErrReply", ErrReplyMembers)
  BY DEF MembersFit, IsDescription, Shapes, Flat, Types, Members, EntryTypes, Entries,
         Kinds, IntegerKinds, TextKinds, Nested, TypeNames, Depth, Apart, ErrReplyMembers,
         Value
<1>4. /\ \A r \in ErrReplyReads: Member(r[2]) \in ErrReplyMembers
      /\ \A s \in ErrReplySizes: s[1] \in {1, 2} /\ Member(s[2]) \in ErrReplyMembers
  BY MemberOf
     DEF ErrReplyReads, ErrReplySizes, ErrReplyMembers, MemberKind, TextKinds
<1>5. WritesFit(ErrReplyWrites, ErrReplySizes)
  BY DEF WritesFit, Sized, ErrReplySizes, ErrReplyWrites, Value
<1>6. ErrReplyCleared = {e.field: e \in ErrReplyMembers} /\ ErrReplyMerges = ErrReplyMembers
  BY DEF ErrReplyCleared, ErrReplyMerges, ErrReplyMembers, Value
<1>7. /\ new = [f \in ErrReplyCleared |-> new[f]]
      /\ new["error"] = Zero("text")
  BY ZeroIs DEF ErrReplyNew, ErrReplyCleared
<1> HIDE DEF new
<1>8. NewFits(new, ErrReplyMembers)
  BY <1>6, <1>7 DEF NewFits, ErrReplyMembers, Value
<1>9. QED
  BY <1>1, <1>2, <1>3, <1>4, <1>5, <1>6, <1>8 DEF ClassFits

\* The tables of KillArg agree.
LEMMA KillArgFits == ClassFits("KillArg")
<1> DEFINE new == KillArgNew
<1>1. /\ "KillArg" \in Types /\ "KillArg" \notin EntryTypes /\ "KillArg" \in TypeNames
      /\ Members["KillArg"] = KillArgMembers /\ NewOf["KillArg"] = new
      /\ Cleared["KillArg"] = KillArgCleared /\ Reads["KillArg"] = KillArgReads
      /\ Sizes["KillArg"] = KillArgSizes /\ Merges["KillArg"] = KillArgMerges
  BY DEF Types, EntryTypes, Entries, TypeNames, Depth, Members, NewOf, Cleared, Reads, Sizes,
         Merges
<1>2. \A array \in BOOLEAN: WritesOf("KillArg", array) = KillArgWrites
  BY <1>1 DEF WritesOf, Writes
<1>3. MembersFit("KillArg", KillArgMembers)
  BY DEF MembersFit, IsDescription, Shapes, Flat, Types, Members, EntryTypes, Entries,
         Kinds, IntegerKinds, TextKinds, Nested, TypeNames, Depth, Apart, KillArgMembers,
         Value
<1>4. /\ \A r \in KillArgReads: Member(r[2]) \in KillArgMembers
      /\ \A s \in KillArgSizes: s[1] \in {1, 2} /\ Member(s[2]) \in KillArgMembers
  BY MemberOf
     DEF KillArgReads, KillArgSizes, KillArgMembers, MemberKind, TextKinds
<1>5. WritesFit(KillArgWrites, KillArgSizes)
  BY DEF WritesFit, Sized, KillArgSizes, KillArgWrites, Value
<1>6. KillArgCleared = {e.field: e \in KillArgMembers} /\ KillArgMerges = KillArgMembers
  BY DEF KillArgCleared, KillArgMerges, KillArgMembers, Value
<1>7. /\ new = [f \in KillArgCleared |-> new[f]]
      /\ new["reason"] = Zero("text")
  BY ZeroIs DEF KillArgNew, KillArgCleared
<1> HIDE DEF new
<1>8. NewFits(new, KillArgMembers)
  BY <1>6, <1>7 DEF NewFits, KillArgMembers, Value
<1>9. QED
  BY <1>1, <1>2, <1>3, <1>4, <1>5, <1>6, <1>8 DEF ClassFits

\* The tables of BoolRule agree.
LEMMA BoolRuleFits == ClassFits("BoolRule")
<1> DEFINE new == BoolRuleNew
<1>1. /\ "BoolRule" \in Types /\ "BoolRule" \notin EntryTypes /\ "BoolRule" \in TypeNames
      /\ Members["BoolRule"] = BoolRuleMembers /\ NewOf["BoolRule"] = new
      /\ Cleared["BoolRule"] = BoolRuleCleared /\ Reads["BoolRule"] = BoolRuleReads
      /\ Sizes["BoolRule"] = BoolRuleSizes /\ Merges["BoolRule"] = BoolRuleMerges
  BY DEF Types, EntryTypes, Entries, TypeNames, Depth, Members, NewOf, Cleared, Reads, Sizes,
         Merges
<1>2. \A array \in BOOLEAN: WritesOf("BoolRule", array) = BoolRuleWrites
  BY <1>1 DEF WritesOf, Writes
<1>3. MembersFit("BoolRule", BoolRuleMembers)
  BY DEF MembersFit, IsDescription, Shapes, Flat, Types, Members, EntryTypes, Entries,
         Kinds, IntegerKinds, TextKinds, Nested, TypeNames, Depth, Apart, BoolRuleMembers,
         Value
<1>4. /\ \A r \in BoolRuleReads: Member(r[2]) \in BoolRuleMembers
      /\ \A s \in BoolRuleSizes: s[1] \in {1, 2} /\ Member(s[2]) \in BoolRuleMembers
  BY MemberOf
     DEF BoolRuleReads, BoolRuleSizes, BoolRuleMembers, MemberKind, TextKinds
<1>5. WritesFit(BoolRuleWrites, BoolRuleSizes)
  BY DEF WritesFit, Sized, BoolRuleSizes, BoolRuleWrites, Value
<1>6. BoolRuleCleared = {e.field: e \in BoolRuleMembers} /\ BoolRuleMerges = BoolRuleMembers
  BY DEF BoolRuleCleared, BoolRuleMerges, BoolRuleMembers, Value
<1>7. /\ new = [f \in BoolRuleCleared |-> new[f]]
      /\ new["required"] = Zero("bool") /\ new["default_"] = Zero("bool")
      /\ new["has_default"] = Zero("bool")
  BY ZeroIs DEF BoolRuleNew, BoolRuleCleared
<1> HIDE DEF new
<1>8. NewFits(new, BoolRuleMembers)
  BY <1>6, <1>7 DEF NewFits, BoolRuleMembers, Value
<1>9. QED
  BY <1>1, <1>2, <1>3, <1>4, <1>5, <1>6, <1>8 DEF ClassFits

\* The tables of FloatRule agree.
LEMMA FloatRuleFits == ClassFits("FloatRule")
<1> DEFINE new == FloatRuleNew
<1>1. /\ "FloatRule" \in Types /\ "FloatRule" \notin EntryTypes /\ "FloatRule" \in TypeNames
      /\ Members["FloatRule"] = FloatRuleMembers /\ NewOf["FloatRule"] = new
      /\ Cleared["FloatRule"] = FloatRuleCleared /\ Reads["FloatRule"] = FloatRuleReads
      /\ Sizes["FloatRule"] = FloatRuleSizes /\ Merges["FloatRule"] = FloatRuleMerges
  BY DEF Types, EntryTypes, Entries, TypeNames, Depth, Members, NewOf, Cleared, Reads, Sizes,
         Merges
<1>2. \A array \in BOOLEAN: WritesOf("FloatRule", array) = FloatRuleWrites
  BY <1>1 DEF WritesOf, Writes
<1>3. MembersFit("FloatRule", FloatRuleMembers)
  BY DEF MembersFit, IsDescription, Shapes, Flat, Types, Members, EntryTypes, Entries,
         Kinds, IntegerKinds, TextKinds, Nested, TypeNames, Depth, Apart, FloatRuleMembers,
         Value
<1>4. /\ \A r \in FloatRuleReads: Member(r[2]) \in FloatRuleMembers
      /\ \A s \in FloatRuleSizes: s[1] \in {1, 2} /\ Member(s[2]) \in FloatRuleMembers
  BY MemberOf
     DEF FloatRuleReads, FloatRuleSizes, FloatRuleMembers, MemberKind, TextKinds
<1>5. WritesFit(FloatRuleWrites, FloatRuleSizes)
  BY DEF WritesFit, Sized, FloatRuleSizes, FloatRuleWrites, Value
<1>6. FloatRuleCleared = {e.field: e \in FloatRuleMembers} /\ FloatRuleMerges = FloatRuleMembers
  BY DEF FloatRuleCleared, FloatRuleMerges, FloatRuleMembers, Value
<1>7. /\ new = [f \in FloatRuleCleared |-> new[f]]
      /\ new["minimum"] = Zero("double") /\ new["maximum"] = Zero("double")
      /\ new["default_"] = Zero("double") /\ new["required"] = Zero("bool")
      /\ new["has_default"] = Zero("bool") /\ new["has_min"] = Zero("bool")
      /\ new["has_max"] = Zero("bool")
  BY ZeroIs DEF FloatRuleNew, FloatRuleCleared
<1> HIDE DEF new
<1>8. NewFits(new, FloatRuleMembers)
  BY <1>6, <1>7 DEF NewFits, FloatRuleMembers, Value
<1>9. QED
  BY <1>1, <1>2, <1>3, <1>4, <1>5, <1>6, <1>8 DEF ClassFits

\* The tables of IntegerRule agree.
LEMMA IntegerRuleFits == ClassFits("IntegerRule")
<1> DEFINE new == IntegerRuleNew
<1>1. /\ "IntegerRule" \in Types /\ "IntegerRule" \notin EntryTypes /\ "IntegerRule" \in TypeNames
      /\ Members["IntegerRule"] = IntegerRuleMembers /\ NewOf["IntegerRule"] = new
      /\ Cleared["IntegerRule"] = IntegerRuleCleared /\ Reads["IntegerRule"] = IntegerRuleReads
      /\ Sizes["IntegerRule"] = IntegerRuleSizes /\ Merges["IntegerRule"] = IntegerRuleMerges
  BY DEF Types, EntryTypes, Entries, TypeNames, Depth, Members, NewOf, Cleared, Reads, Sizes,
         Merges
<1>2. \A array \in BOOLEAN: WritesOf("IntegerRule", array) = IntegerRuleWrites
  BY <1>1 DEF WritesOf, Writes
<1>3. MembersFit("IntegerRule", IntegerRuleMembers)
  BY DEF MembersFit, IsDescription, Shapes, Flat, Types, Members, EntryTypes, Entries,
         Kinds, IntegerKinds, TextKinds, Nested, TypeNames, Depth, Apart,
         IntegerRuleMembers, Value
<1>4. /\ \A r \in IntegerRuleReads: Member(r[2]) \in IntegerRuleMembers
      /\ \A s \in IntegerRuleSizes: s[1] \in {1, 2} /\ Member(s[2]) \in IntegerRuleMembers
  BY MemberOf
     DEF IntegerRuleReads, IntegerRuleSizes, IntegerRuleMembers, MemberKind, TextKinds
<1>5. WritesFit(IntegerRuleWrites, IntegerRuleSizes)
  BY DEF WritesFit, Sized, IntegerRuleSizes, IntegerRuleWrites, Value
<1>6. /\ IntegerRuleCleared = {e.field: e \in IntegerRuleMembers}
      /\ IntegerRuleMerges = IntegerRuleMembers
  BY DEF IntegerRuleCleared, IntegerRuleMerges, IntegerRuleMembers, Value
<1>7. /\ new = [f \in IntegerRuleCleared |-> new[f]]
      /\ new["minimum"] = Zero("int64") /\ new["maximum"] = Zero("int64")
      /\ new["default_"] = Zero("int64") /\ new["required"] = Zero("bool")
      /\ new["has_default"] = Zero("bool") /\ new["has_min"] = Zero("bool")
      /\ new["has_max"] = Zero("bool")
  BY ZeroIs DEF IntegerRuleNew, IntegerRuleCleared
<1> HIDE DEF new
<1>8. NewFits(new, IntegerRuleMembers)
  BY <1>6, <1>7 DEF NewFits, IntegerRuleMembers, Value
<1>9. QED
  BY <1>1, <1>2, <1>3, <1>4, <1>5, <1>6, <1>8 DEF ClassFits

\* The tables of StringRule agree.
LEMMA StringRuleFits == ClassFits("StringRule")
<1> DEFINE new == StringRuleNew
<1>1. /\ "StringRule" \in Types /\ "StringRule" \notin EntryTypes /\ "StringRule" \in TypeNames
      /\ Members["StringRule"] = StringRuleMembers /\ NewOf["StringRule"] = new
      /\ Cleared["StringRule"] = StringRuleCleared /\ Reads["StringRule"] = StringRuleReads
      /\ Sizes["StringRule"] = StringRuleSizes /\ Merges["StringRule"] = StringRuleMerges
  BY DEF Types, EntryTypes, Entries, TypeNames, Depth, Members, NewOf, Cleared, Reads, Sizes,
         Merges
<1>2. \A array \in BOOLEAN: WritesOf("StringRule", array) = StringRuleWrites
  BY <1>1 DEF WritesOf, Writes
<1>3. MembersFit("StringRule", StringRuleMembers)
  BY DEF MembersFit, IsDescription, Shapes, Flat, Types, Members, EntryTypes, Entries,
         Kinds, IntegerKinds, TextKinds, Nested, TypeNames, Depth, Apart, StringRuleMembers,
         Value
<1>4. /\ \A r \in StringRuleReads: Member(r[2]) \in StringRuleMembers
      /\ \A s \in StringRuleSizes: s[1] \in {1, 2} /\ Member(s[2]) \in StringRuleMembers
  BY MemberOf
     DEF StringRuleReads, StringRuleSizes, StringRuleMembers, MemberKind, TextKinds
<1>5. WritesFit(StringRuleWrites, StringRuleSizes)
  BY DEF WritesFit, Sized, StringRuleSizes, StringRuleWrites, Value
<1>6. /\ StringRuleCleared = {e.field: e \in StringRuleMembers}
      /\ StringRuleMerges = StringRuleMembers
  BY DEF StringRuleCleared, StringRuleMerges, StringRuleMembers, Value
<1>7. /\ new = [f \in StringRuleCleared |-> new[f]]
      /\ new["default_"] = Zero("text") /\ new["required"] = Zero("bool")
      /\ new["has_default"] = Zero("bool")
  BY ZeroIs DEF StringRuleNew, StringRuleCleared
<1> HIDE DEF new
<1>8. NewFits(new, StringRuleMembers)
  BY <1>6, <1>7 DEF NewFits, StringRuleMembers, Value
<1>9. QED
  BY <1>1, <1>2, <1>3, <1>4, <1>5, <1>6, <1>8 DEF ClassFits

\* The tables of ConfigMap agree.
LEMMA ConfigMapFits == ClassFits("ConfigMap")
<1> DEFINE new == ConfigMapNew
<1>1. /\ "ConfigMap" \in Types /\ "ConfigMap" \notin EntryTypes /\ "ConfigMap" \in TypeNames
      /\ Members["ConfigMap"] = ConfigMapMembers /\ NewOf["ConfigMap"] = new
      /\ Cleared["ConfigMap"] = ConfigMapCleared /\ Reads["ConfigMap"] = ConfigMapReads
      /\ Sizes["ConfigMap"] = ConfigMapSizes /\ Merges["ConfigMap"] = ConfigMapMerges
  BY DEF Types, EntryTypes, Entries, TypeNames, Depth, Members, NewOf, Cleared, Reads, Sizes,
         Merges
<1>2. \A array \in BOOLEAN: WritesOf("ConfigMap", array) = ConfigMapWrites
  BY <1>1 DEF WritesOf, Writes, ConfigMapWrites, ConfigMapWritesToArray
<1>3. MembersFit("ConfigMap", ConfigMapMembers)
  BY DEF MembersFit, IsDescription, Shapes, Flat, Types, Members, EntryTypes, Entries,
         Kinds, IntegerKinds, TextKinds, Nested, TypeNames, Depth, Apart, ConfigMapMembers,
         Mapped
<1>4. /\ \A r \in ConfigMapReads: Member(r[2]) \in ConfigMapMembers
      /\ \A s \in ConfigMapSizes: s[1] \in {1, 2} /\ Member(s[2]) \in ConfigMapMembers
  BY MemberOf
     DEF ConfigMapReads, ConfigMapSizes, ConfigMapMembers, MemberKind, TextKinds
<1>5. WritesFit(ConfigMapWrites, ConfigMapSizes)
  BY DEF WritesFit, Sized, ConfigMapSizes, ConfigMapWrites, Mapped
<1>6. ConfigMapCleared = {e.field: e \in ConfigMapMembers} /\ ConfigMapMerges = ConfigMapMembers
  BY DEF ConfigMapCleared, ConfigMapMerges, ConfigMapMembers, Mapped
<1>7. /\ new = [f \in ConfigMapCleared |-> new[f]]
      /\ new["intmap"] = <<>> /\ new["stringmap"] = <<>> /\ new["floatmap"] = <<>>
      /\ new["boolmap"] = <<>>
  BY ZeroIs DEF ConfigMapNew, ConfigMapCleared
<1> HIDE DEF new
<1>8. NewFits(new, ConfigMapMembers)
  BY <1>6, <1>7 DEF NewFits, ConfigMapMembers, Mapped
<1>9. QED
  BY <1>1, <1>2, <1>3, <1>4, <1>5, <1>6, <1>8 DEF ClassFits

\* The tables of Metric agree.
LEMMA MetricFits == ClassFits("Metric")
<1> DEFINE new == MetricNew
<1>1. /\ "Metric" \in Types /\ "Metric" \notin EntryTypes /\ "Metric" \in TypeNames
      /\ Members["Metric"] = MetricMembers /\ NewOf["Metric"] = new
      /\ Cleared["Metric"] = MetricCleared /\ Reads["Metric"] = MetricReads
      /\ Sizes["Metric"] = MetricSizes /\ Merges["Metric"] = MetricMerges
  BY DEF Types, EntryTypes, Entries, TypeNames, Depth, Members, NewOf, Cleared, Reads, Sizes,
         Merges
<1>2. \A array \in BOOLEAN: WritesOf("Metric", array) = MetricWrites
  BY <1>1 DEF WritesOf, Writes, MetricWrites, MetricWritesToArray
<1>3. MembersFit("Metric", MetricMembers)
  BY DEF MembersFit, IsDescription, Shapes, Flat, Types, Members, EntryTypes, Entries,
         Kinds, IntegerKinds, TextKinds, Nested, TypeNames, Depth, Apart, MetricMembers,
         MetricDataMembers, Value, Choice, Message, Repeated, Mapped
<1>4. /\ \A r \in MetricReads: Member(r[2]) \in MetricMembers
      /\ \A s \in MetricSizes: s[1] \in {1, 2} /\ Member(s[2]) \in MetricMembers
  BY MemberOf
     DEF MetricReads, MetricDataReads, MetricSizes, MetricMembers, MetricDataMembers,
         MemberKind, TextKinds
<1>5. WritesFit(MetricWrites, MetricSizes)
  BY DEF WritesFit, Sized, MetricSizes, MetricWrites, Value, Choice, Message, Repeated, Mapped
<1>6. MetricCleared = {e.field: e \in MetricMembers} /\ MetricMerges = MetricMembers
  BY DEF MetricCleared, MetricMerges, MetricMembers, MetricDataMembers, Value, Choice,
         Message, Repeated, Mapped
<1>7. /\ new = [f \in MetricCleared |-> new[f]]
      /\ new["namespace_"] = <<>> /\ new["version"] = Zero("int64")
      /\ new["config"] = <<>> /\ new["lastadvertisedtime"] = <<>> /\ new["tags"] = <<>>
      /\ new["timestamp"] = <<>> /\ new["unit"] = Zero("text")
      /\ new["description"] = Zero("text") /\ new["data"] = <<>>
  BY ZeroIs DEF MetricNew, MetricCleared
<1> HIDE DEF new
<1>8. NewFits(new, MetricMembers)
  BY <1>6, <1>7
     DEF NewFits, MetricMembers, MetricDataMembers, Value, Choice, Message, Repeated, Mapped
<1>9. QED
  BY <1>1, <1>2, <1>3, <1>4, <1>5, <1>6, <1>8 DEF ClassFits

\* The tables of GetMetricTypesArg agree.
LEMMA GetMetricTypesArgFits == ClassFits("GetMetricTypesArg")
<1> DEFINE new == GetMetricTypesArgNew
<1>1. /\ "GetMetricTypesArg" \in Types
      /\ "GetMetricTypesArg" \notin EntryTypes
      /\ "GetMetricTypesArg" \in TypeNames
      /\ Members["GetMetricTypesArg"] = GetMetricTypesArgMembers
      /\ NewOf["GetMetricTypesArg"] = new
      /\ Cleared["GetMetricTypesArg"] = GetMetricTypesArgCleared
      /\ Reads["GetMetricTypesArg"] = GetMetricTypesArgReads
      /\ Sizes["GetMetricTypesArg"] = GetMetricTypesArgSizes
      /\ Merges["GetMetricTypesArg"] = GetMetricTypesArgMerges
  BY DEF Types, EntryTypes, Entries, TypeNames, Depth, Members, NewOf, Cleared, Reads, Sizes,
         Merges
<1>2. \A array \in BOOLEAN: WritesOf("GetMetricTypesArg", array) = GetMetricTypesArgWrites
  BY <1>1 DEF WritesOf, Writes
<1>3. MembersFit("GetMetricTypesArg", GetMetricTypesArgMembers)
  BY DEF MembersFit, IsDescription, Shapes, Flat, Types, Members, EntryTypes, Entries,
         Kinds, IntegerKinds, TextKinds, Nested, TypeNames, Depth, Apart,
         GetMetricTypesArgMembers, Message
<1>4. /\ \A r \in GetMetricTypesArgReads: Member(r[2]) \in GetMetricTypesArgMembers
      /\ \A s \in GetMetricTypesArgSizes: s[1] \in {1, 2} /\
            Member(s[2]) \in GetMetricTypesArgMembers
  BY MemberOf
     DEF GetMetricTypesArgReads, GetMetricTypesArgSizes, GetMetricTypesArgMembers,
         MemberKind, TextKinds
<1>5. WritesFit(GetMetricTypesArgWrites, GetMetricTypesArgSizes)
  BY DEF WritesFit, Sized, GetMetricTypesArgSizes, GetMetricTypesArgWrites, Message
<1>6. /\ GetMetricTypesArgCleared = {e.field: e \in GetMetricTypesArgMembers}
      /\ GetMetricTypesArgMerges = GetMetricTypesArgMembers
  BY DEF GetMetricTypesArgCleared, GetMetricTypesArgMerges, GetMetricTypesArgMembers,
         Message
<1>7. /\ new = [f \in GetMetricTypesArgCleared |-> new[f]]
      /\ new["config"] = <<>>
  BY ZeroIs DEF GetMetricTypesArgNew, GetMetricTypesArgCleared
<1> HIDE DEF new
<1>8. NewFits(new, GetMetricTypesArgMembers)
  BY <1>6, <1>7 DEF NewFits, GetMetricTypesArgMembers, Message
<1>9. QED
  BY <1>1, <1>2, <1>3, <1>4, <1>5, <1>6, <1>8 DEF ClassFits

\* The tables of BoolPolicy agree.
LEMMA BoolPolicyFits == ClassFits("BoolPolicy")
<1> DEFINE new == BoolPolicyNew
<1>1. /\ "BoolPolicy" \in Types /\ "BoolPolicy" \notin EntryTypes /\ "BoolPolicy" \in TypeNames
      /\ Members["BoolPolicy"] = BoolPolicyMembers /\ NewOf["BoolPolicy"] = new
      /\ Cleared["BoolPolicy"] = BoolPolicyCleared /\ Reads["BoolPolicy"] = BoolPolicyReads
      /\ Sizes["BoolPolicy"] = BoolPolicySizes /\ Merges["BoolPolicy"] = BoolPolicyMerges
  BY DEF Types, EntryTypes, Entries, TypeNames, Depth, Members, NewOf, Cleared, Reads, Sizes,
         Merges
<1>2. \A array \in BOOLEAN: WritesOf("BoolPolicy", array) = BoolPolicyWrites
  BY <1>1 DEF WritesOf, Writes
<1>3. MembersFit("BoolPolicy", BoolPolicyMembers)
  BY DEF MembersFit, IsDescription, Shapes, Flat, Types, Members, EntryTypes, Entries,
         Kinds, IntegerKinds, TextKinds, Nested, TypeNames, Depth, Apart, BoolPolicyMembers,
         Repeated, Mapped
<1>4. /\ \A r \in BoolPolicyReads: Member(r[2]) \in BoolPolicyMembers
      /\ \A s \in BoolPolicySizes: s[1] \in {1, 2} /\ Member(s[2]) \in BoolPolicyMembers
  BY MemberOf
     DEF BoolPolicyReads, BoolPolicySizes, BoolPolicyMembers, MemberKind, TextKinds
<1>5. WritesFit(BoolPolicyWrites, BoolPolicySizes)
  BY DEF WritesFit, Sized, BoolPolicySizes, BoolPolicyWrites, Repeated, Mapped
<1>6. /\ BoolPolicyCleared = {e.field: e \in BoolPolicyMembers}
      /\ BoolPolicyMerges = BoolPolicyMembers
  BY DEF BoolPolicyCleared, BoolPolicyMerges, BoolPolicyMembers, Repeated, Mapped
<1>7. /\ new = [f \in BoolPolicyCleared |-> new[f]]
      /\ new["rules"] = <<>> /\ new["key"] = <<>>
  BY ZeroIs DEF BoolPolicyNew, BoolPolicyCleared
<1> HIDE DEF new
<1>8. NewFits(new, BoolPolicyMembers)
  BY <1>6, <1>7 DEF NewFits, BoolPolicyMembers, Repeated, Mapped
<1>9. QED
  BY <1>1, <1>2, <1>3, <1>4, <1>5, <1>6, <1>8 DEF ClassFits

\* The tables of FloatPolicy agree.
LEMMA FloatPolicyFits == ClassFits("FloatPolicy")
<1> DEFINE new == FloatPolicyNew
<1>1. /\ "FloatPolicy" \in Types /\ "FloatPolicy" \notin EntryTypes /\ "FloatPolicy" \in TypeNames
      /\ Members["FloatPolicy"] = FloatPolicyMembers /\ NewOf["FloatPolicy"] = new
      /\ Cleared["FloatPolicy"] = FloatPolicyCleared /\ Reads["FloatPolicy"] = FloatPolicyReads
      /\ Sizes["FloatPolicy"] = FloatPolicySizes /\ Merges["FloatPolicy"] = FloatPolicyMerges
  BY DEF Types, EntryTypes, Entries, TypeNames, Depth, Members, NewOf, Cleared, Reads, Sizes,
         Merges
<1>2. \A array \in BOOLEAN: WritesOf("FloatPolicy", array) = FloatPolicyWrites
  BY <1>1 DEF WritesOf, Writes
<1>3. MembersFit("FloatPolicy", FloatPolicyMembers)
  BY DEF MembersFit, IsDescription, Shapes, Flat, Types, Members, EntryTypes, Entries,
         Kinds, IntegerKinds, TextKinds, Nested, TypeNames, Depth, Apart,
         FloatPolicyMembers, Repeated, Mapped
<1>4. /\ \A r \in FloatPolicyReads: Member(r[2]) \in FloatPolicyMembers
      /\ \A s \in FloatPolicySizes: s[1] \in {1, 2} /\ Member(s[2]) \in FloatPolicyMembers
  BY MemberOf
     DEF FloatPolicyReads, FloatPolicySizes, FloatPolicyMembers, MemberKind, TextKinds
<1>5. WritesFit(FloatPolicyWrites, FloatPolicySizes)
  BY DEF WritesFit, Sized, FloatPolicySizes, FloatPolicyWrites, Repeated, Mapped
<1>6. /\ FloatPolicyCleared = {e.field: e \in FloatPolicyMembers}
      /\ FloatPolicyMerges = FloatPolicyMembers
  BY DEF FloatPolicyCleared, FloatPolicyMerges, FloatPolicyMembers, Repeated, Mapped
<1>7. /\ new = [f \in FloatPolicyCleared |-> new[f]]
      /\ new["rules"] = <<>> /\ new["key"] = <<>>
  BY ZeroIs DEF FloatPolicyNew, FloatPolicyCleared
<1> HIDE DEF new
<1>8. NewFits(new, FloatPolicyMembers)
  BY <1>6, <1>7 DEF NewFits, FloatPolicyMembers, Repeated, Mapped
<1>9. QED
  BY <1>1, <1>2, <1>3, <1>4, <1>5, <1>6, <1>8 DEF ClassFits

\* The tables of IntegerPolicy agree.
LEMMA IntegerPolicyFits == ClassFits("IntegerPolicy")
<1> DEFINE new == IntegerPolicyNew
<1>1. /\ "IntegerPolicy" \in Types
      /\ "IntegerPolicy" \notin EntryTypes
      /\ "IntegerPolicy" \in TypeNames
      /\ Members["IntegerPolicy"] = IntegerPolicyMembers /\ NewOf["IntegerPolicy"] = new
      /\ Cleared["IntegerPolicy"] = IntegerPolicyCleared
      /\ Reads["IntegerPolicy"] = IntegerPolicyReads
      /\ Sizes["IntegerPolicy"] = IntegerPolicySizes
      /\ Merges["IntegerPolicy"] = IntegerPolicyMerges
  BY DEF Types, EntryTypes, Entries, TypeNames, Depth, Members, NewOf, Cleared, Reads, Sizes,
         Merges
<1>2. \A array \in BOOLEAN: WritesOf("IntegerPolicy", array) = IntegerPolicyWrites
  BY <1>1 DEF WritesOf, Writes
<1>3. MembersFit("IntegerPolicy", IntegerPolicyMembers)
  BY DEF MembersFit, IsDescription, Shapes, Flat, Types, Members, EntryTypes, Entries,
         Kinds, IntegerKinds, TextKinds, Nested, TypeNames, Depth, Apart,
         IntegerPolicyMembers, Repeated, Mapped
<1>4. /\ \A r \in IntegerPolicyReads: Member(r[2]) \in IntegerPolicyMembers
      /\ \A s \in IntegerPolicySizes: s[1] \in {1, 2} /\ Member(s[2]) \in IntegerPolicyMembers
  BY MemberOf
     DEF IntegerPolicyReads, IntegerPolicySizes, IntegerPolicyMembers, MemberKind, TextKinds
<1>5. WritesFit(IntegerPolicyWrites, IntegerPolicySizes)
  BY DEF WritesFit, Sized, IntegerPolicySizes, IntegerPolicyWrites, Repeated, Mapped
<1>6. /\ IntegerPolicyCleared = {e.field: e \in IntegerPolicyMembers}
      /\ IntegerPolicyMerges = IntegerPolicyMembers
  BY DEF IntegerPolicyCleared, IntegerPolicyMerges, IntegerPolicyMembers, Repeated, Mapped
<1>7. /\ new = [f \in IntegerPolicyCleared |-> new[f]]
      /\ new["rules"] = <<>> /\ new["key"] = <<>>
  BY ZeroIs DEF IntegerPolicyNew, IntegerPolicyCleared
<1> HIDE DEF new
<1>8. NewFits(new, IntegerPolicyMembers)
  BY <1>6, <1>7 DEF NewFits, IntegerPolicyMembers, Repeated, Mapped
<1>9. QED
  BY <1>1, <1>2, <1>3, <1>4, <1>5, <1>6, <1>8 DEF ClassFits

\* The tables of StringPolicy agree.
LEMMA StringPolicyFits == ClassFits("StringPolicy")
<1> DEFINE new == StringPolicyNew
<1>1. /\ "StringPolicy" \in Types
      /\ "StringPolicy" \notin EntryTypes
      /\ "StringPolicy" \in TypeNames
      /\ Members["StringPolicy"] = StringPolicyMembers /\ NewOf["StringPolicy"] = new
      /\ Cleared["StringPolicy"] = StringPolicyCleared
      /\ Reads["StringPolicy"] = StringPolicyReads
      /\ Sizes["StringPolicy"] = StringPolicySizes /\ Merges["StringPolicy"] = StringPolicyMerges
  BY DEF Types, EntryTypes, Entries, TypeNames, Depth, Members, NewOf, Cleared, Reads, Sizes,
         Merges
<1>2. \A array \in BOOLEAN: WritesOf("StringPolicy", array) = StringPolicyWrites
  BY <1>1 DEF WritesOf, Writes
<1>3. MembersFit("StringPolicy", StringPolicyMembers)
  BY DEF MembersFit, IsDescription, Shapes, Flat, Types, Members, EntryTypes, Entries,
         Kinds, IntegerKinds, TextKinds, Nested, TypeNames, Depth, Apart,
         StringPolicyMembers, Repeated, Mapped
<1>4. /\ \A r \in StringPolicyReads: Member(r[2]) \in StringPolicyMembers
      /\ \A s \in StringPolicySizes: s[1] \in {1, 2} /\ Member(s[2]) \in StringPolicyMembers
  BY MemberOf
     DEF StringPolicyReads, StringPolicySizes, StringPolicyMembers, MemberKind, TextKinds
<1>5. WritesFit(StringPolicyWrites, StringPolicySizes)
  BY DEF WritesFit, Sized, StringPolicySizes, StringPolicyWrites, Repeated, Mapped
<1>6. /\ StringPolicyCleared = {e.field: e \in StringPolicyMembers}
      /\ StringPolicyMerges = StringPolicyMembers
  BY DEF StringPolicyCleared, StringPolicyMerges, StringPolicyMembers, Repeated, Mapped
<1>7. /\ new = [f \in StringPolicyCleared |-> new[f]]
      /\ new["rules"] = <<>> /\ new["key"] = <<>>
  BY ZeroIs DEF StringPolicyNew, StringPolicyCleared
<1> HIDE DEF new
<1>8. NewFits(new, StringPolicyMembers)
  BY <1>6, <1>7 DEF NewFits, StringPolicyMembers, Repeated, Mapped
<1>9. QED
  BY <1>1, <1>2, <1>3, <1>4, <1>5, <1>6, <1>8 DEF ClassFits

\* The tables of MetricsArg agree.
LEMMA MetricsArgFits == ClassFits("MetricsArg")
<1> DEFINE new == MetricsArgNew
<1>1. /\ "MetricsArg" \in Types /\ "MetricsArg" \notin EntryTypes /\ "MetricsArg" \in TypeNames
      /\ Members["MetricsArg"] = MetricsArgMembers /\ NewOf["MetricsArg"] = new
      /\ Cleared["MetricsArg"] = MetricsArgCleared /\ Reads["MetricsArg"] = MetricsArgReads
      /\ Sizes["MetricsArg"] = MetricsArgSizes /\ Merges["MetricsArg"] = MetricsArgMerges
  BY DEF Types, EntryTypes, Entries, TypeNames, Depth, Members, NewOf, Cleared, Reads, Sizes,
         Merges
<1>2. \A array \in BOOLEAN: WritesOf("MetricsArg", array) = MetricsArgWrites
  BY <1>1 DEF WritesOf, Writes
<1>3. MembersFit("MetricsArg", MetricsArgMembers)
  BY DEF MembersFit, IsDescription, Shapes, Flat, Types, Members, EntryTypes, Entries,
         Kinds, IntegerKinds, TextKinds, Nested, TypeNames, Depth, Apart, MetricsArgMembers,
         Repeated
<1>4. /\ \A r \in MetricsArgReads: Member(r[2]) \in MetricsArgMembers
      /\ \A s \in MetricsArgSizes: s[1] \in {1, 2} /\ Member(s[2]) \in MetricsArgMembers
  BY MemberOf
     DEF MetricsArgReads, MetricsArgSizes, MetricsArgMembers, MemberKind, TextKinds
<1>5. WritesFit(MetricsArgWrites, MetricsArgSizes)
  BY DEF WritesFit, Sized, MetricsArgSizes, MetricsArgWrites, Repeated
<1>6. /\ MetricsArgCleared = {e.field: e \in MetricsArgMembers}
      /\ MetricsArgMerges = MetricsArgMembers
  BY DEF MetricsArgCleared, MetricsArgMerges, MetricsArgMembers, Repeated
<1>7. /\ new = [f \in MetricsArgCleared |-> new[f]]
      /\ new["metrics"] = <<>>
  BY ZeroIs DEF MetricsArgNew, MetricsArgCleared
<1> HIDE DEF new
<1>8. NewFits(new, MetricsArgMembers)
  BY <1>6, <1>7 DEF NewFits, MetricsArgMembers, Repeated
<1>9. QED
  BY <1>1, <1>2, <1>3, <1>4, <1>5, <1>6, <1>8 DEF ClassFits

\* The tables of MetricsReply agree.
LEMMA MetricsReplyFits == ClassFits("MetricsReply")
<1> DEFINE new == MetricsReplyNew
<1>1. /\ "MetricsReply" \in Types
      /\ "MetricsReply" \notin EntryTypes
      /\ "MetricsReply" \in TypeNames
      /\ Members["MetricsReply"] = MetricsReplyMembers /\ NewOf["MetricsReply"] = new
      /\ Cleared["MetricsReply"] = MetricsReplyCleared
      /\ Reads["MetricsReply"] = MetricsReplyReads
      /\ Sizes["MetricsReply"] = MetricsReplySizes /\ Merges["MetricsReply"] = MetricsReplyMerges
  BY DEF Types, EntryTypes, Entries, TypeNames, Depth, Members, NewOf, Cleared, Reads, Sizes,
         Merges
<1>2. \A array \in BOOLEAN: WritesOf("MetricsReply", array) = MetricsReplyWrites
  BY <1>1 DEF WritesOf, Writes
<1>3. MembersFit("MetricsReply", MetricsReplyMembers)
  BY DEF MembersFit, IsDescription, Shapes, Flat, Types, Members, EntryTypes, Entries,
         Kinds, IntegerKinds, TextKinds, Nested, TypeNames, Depth, Apart,
         MetricsReplyMembers, Value, Repeated
<1>4. /\ \A r \in MetricsReplyReads: Member(r[2]) \in MetricsReplyMembers
      /\ \A s \in MetricsReplySizes: s[1] \in {1, 2} /\ Member(s[2]) \in MetricsReplyMembers
  BY MemberOf
     DEF MetricsReplyReads, MetricsReplySizes, MetricsReplyMembers, MemberKind, TextKinds
<1>5. WritesFit(MetricsReplyWrites, MetricsReplySizes)
  BY DEF WritesFit, Sized, MetricsReplySizes, MetricsReplyWrites, Value, Repeated
<1>6. /\ MetricsReplyCleared = {e.field: e \in MetricsReplyMembers}
      /\ MetricsReplyMerges = MetricsReplyMembers
  BY DEF MetricsReplyCleared, MetricsReplyMerges, MetricsReplyMembers, Value, Repeated
<1>7. /\ new = [f \in MetricsReplyCleared |-> new[f]]
      /\ new["metrics"] = <<>> /\ new["error"] = Zero("text")
  BY ZeroIs DEF MetricsReplyNew, MetricsReplyCleared
<1> HIDE DEF new
<1>8. NewFits(new, MetricsReplyMembers)
  BY <1>6, <1>7 DEF NewFits, MetricsReplyMembers, Value, Repeated
<1>9. QED
  BY <1>1, <1>2, <1>3, <1>4, <1>5, <1>6, <1>8 DEF ClassFits

\* The tables of PubProcArg agree.
LEMMA PubProcArgFits == ClassFits("PubProcArg")
<1> DEFINE new == PubProcArgNew
<1>1. /\ "PubProcArg" \in Types /\ "PubProcArg" \notin EntryTypes /\ "PubProcArg" \in TypeNames
      /\ Members["PubProcArg"] = PubProcArgMembers /\ NewOf["PubProcArg"] = new
      /\ Cleared["PubProcArg"] = PubProcArgCleared /\ Reads["PubProcArg"] = PubProcArgReads
      /\ Sizes["PubProcArg"] = PubProcArgSizes /\ Merges["PubProcArg"] = PubProcArgMerges
  BY DEF Types, EntryTypes, Entries, TypeNames, Depth, Members, NewOf, Cleared, Reads, Sizes,
         Merges
<1>2. \A array \in BOOLEAN: WritesOf("PubProcArg", array) = PubProcArgWrites
  BY <1>1 DEF WritesOf, Writes
<1>3. MembersFit("PubProcArg", PubProcArgMembers)
  BY DEF MembersFit, IsDescription, Shapes, Flat, Types, Members, EntryTypes, Entries,
         Kinds, IntegerKinds, TextKinds, Nested, TypeNames, Depth, Apart, PubProcArgMembers,
         Message, Repeated
<1>4. /\ \A r \in PubProcArgReads: Member(r[2]) \in PubProcArgMembers
      /\ \A s \in PubProcArgSizes: s[1] \in {1, 2} /\ Member(s[2]) \in PubProcArgMembers
  BY MemberOf
     DEF PubProcArgReads, PubProcArgSizes, PubProcArgMembers, MemberKind, TextKinds
<1>5. WritesFit(PubProcArgWrites, PubProcArgSizes)
  BY DEF WritesFit, Sized, PubProcArgSizes, PubProcArgWrites, Message, Repeated
<1>6. /\ PubProcArgCleared = {e.field: e \in PubProcArgMembers}
      /\ PubProcArgMerges = PubProcArgMembers
  BY DEF PubProcArgCleared, PubProcArgMerges, PubProcArgMembers, Message, Repeated
<1>7. /\ new = [f \in PubProcArgCleared |-> new[f]]
      /\ new["metrics"] = <<>> /\ new["config"] = <<>>
  BY ZeroIs DEF PubProcArgNew, PubProcArgCleared
<1> HIDE DEF new
<1>8. NewFits(new, PubProcArgMembers)
  BY <1>6, <1>7 DEF NewFits, PubProcArgMembers, Message, Repeated
<1>9. QED
  BY <1>1, <1>2, <1>3, <1>4, <1>5, <1>6, <1>8 DEF ClassFits

\* The tables of CollectArg agree.
LEMMA CollectArgFits == ClassFits("CollectArg")
<1> DEFINE new == CollectArgNew
<1>1. /\ "CollectArg" \in Types /\ "CollectArg" \notin EntryTypes /\ "CollectArg" \in TypeNames
      /\ Members["CollectArg"] = CollectArgMembers /\ NewOf["CollectArg"] = new
      /\ Cleared["CollectArg"] = CollectArgCleared /\ Reads["CollectArg"] = CollectArgReads
      /\ Sizes["CollectArg"] = CollectArgSizes /\ Merges["CollectArg"] = CollectArgMerges
  BY DEF Types, EntryTypes, Entries, TypeNames, Depth, Members, NewOf, Cleared, Reads, Sizes,
         Merges
<1>2. \A array \in BOOLEAN: WritesOf("CollectArg", array) = CollectArgWrites
  BY <1>1 DEF WritesOf, Writes
<1>3. MembersFit("CollectArg", CollectArgMembers)
  BY DEF MembersFit, IsDescription, Shapes, Flat, Types, Members, EntryTypes, Entries,
         Kinds, IntegerKinds, TextKinds, Nested, TypeNames, Depth, Apart, CollectArgMembers,
         Value, Message
<1>4. /\ \A r \in CollectArgReads: Member(r[2]) \in CollectArgMembers
      /\ \A s \in CollectArgSizes: s[1] \in {1, 2} /\ Member(s[2]) \in CollectArgMembers
  BY MemberOf
     DEF CollectArgReads, CollectArgSizes, CollectArgMembers, MemberKind, TextKinds
<1>5. WritesFit(CollectArgWrites, CollectArgSizes)
  BY DEF WritesFit, Sized, CollectArgSizes, CollectArgWrites, Value, Message
<1>6. /\ CollectArgCleared = {e.field: e \in CollectArgMembers}
      /\ CollectArgMerges = CollectArgMembers
  BY DEF CollectArgCleared, CollectArgMerges, CollectArgMembers, Value, Message
<1>7. /\ new = [f \in CollectArgCleared |-> new[f]]
      /\ new["metrics_arg"] = <<>> /\ new["maxcollectduration"] = Zero("int64")
      /\ new["maxmetricsbuffer"] = Zero("int64") /\ new["other"] = Zero("text")
  BY ZeroIs DEF CollectArgNew, CollectArgCleared
<1> HIDE DEF new
<1>8. NewFits(new, CollectArgMembers)
  BY <1>6, <1>7 DEF NewFits, CollectArgMembers, Value, Message
<1>9. QED
  BY <1>1, <1>2, <1>3, <1>4, <1>5, <1>6, <1>8 DEF ClassFits

\* The tables of CollectReply agree.
LEMMA CollectReplyFits == ClassFits("CollectReply")
<1> DEFINE new == CollectReplyNew
<1>1. /\ "CollectReply" \in Types
      /\ "CollectReply" \notin EntryTypes
      /\ "CollectReply" \in TypeNames
      /\ Members["CollectReply"] = CollectReplyMembers /\ NewOf["CollectReply"] = new
      /\ Cleared["CollectReply"] = CollectReplyCleared
      /\ Reads["CollectReply"] = CollectReplyReads
      /\ Sizes["CollectReply"] = CollectReplySizes /\ Merges["CollectReply"] = CollectReplyMerges
  BY DEF Types, EntryTypes, Entries, TypeNames, Depth, Members, NewOf, Cleared, Reads, Sizes,
         Merges
<1>2. \A array \in BOOLEAN: WritesOf("CollectReply", array) = CollectReplyWrites
  BY <1>1 DEF WritesOf, Writes
<1>3. MembersFit("CollectReply", CollectReplyMembers)
  BY DEF MembersFit, IsDescription, Shapes, Flat, Types, Members, EntryTypes, Entries,
         Kinds, IntegerKinds, TextKinds, Nested, TypeNames, Depth, Apart,
         CollectReplyMembers, Message
<1>4. /\ \A r \in CollectReplyReads: Member(r[2]) \in CollectReplyMembers
      /\ \A s \in CollectReplySizes: s[1] \in {1, 2} /\ Member(s[2]) \in CollectReplyMembers
  BY MemberOf
     DEF CollectReplyReads, CollectReplySizes, CollectReplyMembers, MemberKind, TextKinds
<1>5. WritesFit(CollectReplyWrites, CollectReplySizes)
  BY DEF WritesFit, Sized, CollectReplySizes, CollectReplyWrites, Message
<1>6. /\ CollectReplyCleared = {e.field: e \in CollectReplyMembers}
      /\ CollectReplyMerges = CollectReplyMembers
  BY DEF CollectReplyCleared, CollectReplyMerges, CollectReplyMembers, Message
<1>7. /\ new = [f \in CollectReplyCleared |-> new[f]]
      /\ new["metrics_reply"] = <<>> /\ new["error"] = <<>>
  BY ZeroIs DEF CollectReplyNew, CollectReplyCleared
<1> HIDE DEF new
<1>8. NewFits(new, CollectReplyMembers)
  BY <1>6, <1>7 DEF NewFits, CollectReplyMembers, Message
<1>9. QED
  BY <1>1, <1>2, <1>3, <1>4, <1>5, <1>6, <1>8 DEF ClassFits

\* The tables of GetConfigPolicyReply agree.
LEMMA GetConfigPolicyReplyFits == ClassFits("GetConfigPolicyReply")
<1> DEFINE new == GetConfigPolicyReplyNew
<1>1. /\ "GetConfigPolicyReply" \in Types
      /\ "GetConfigPolicyReply" \notin EntryTypes
      /\ "GetConfigPolicyReply" \in TypeNames
      /\ Members["GetConfigPolicyReply"] = GetConfigPolicyReplyMembers
      /\ NewOf["GetConfigPolicyReply"] = new
      /\ Cleared["GetConfigPolicyReply"] = GetConfigPolicyReplyCleared
      /\ Reads["GetConfigPolicyReply"] = GetConfigPolicyReplyReads
      /\ Sizes["GetConfigPolicyReply"] = GetConfigPolicyReplySizes
      /\ Merges["GetConfigPolicyReply"] = GetConfigPolicyReplyMerges
  BY DEF Types, EntryTypes, Entries, TypeNames, Depth, Members, NewOf, Cleared, Reads, Sizes,
         Merges
<1>2. \A array \in BOOLEAN: WritesOf("GetConfigPolicyReply", array) = GetConfigPolicyReplyWrites
  BY <1>1 DEF WritesOf, Writes, GetConfigPolicyReplyWrites, GetConfigPolicyReplyWritesToArray
<1>3. MembersFit("GetConfigPolicyReply", GetConfigPolicyReplyMembers)
  BY DEF MembersFit, IsDescription, Shapes, Flat, Types, Members, EntryTypes, Entries,
         Kinds, IntegerKinds, TextKinds, Nested, TypeNames, Depth, Apart,
         GetConfigPolicyReplyMembers, Value, Mapped
<1>4. /\ \A r \in GetConfigPolicyReplyReads: Member(r[2]) \in GetConfigPolicyReplyMembers
      /\ \A s \in GetConfigPolicyReplySizes: s[1] \in {1, 2} /\
            Member(s[2]) \in GetConfigPolicyReplyMembers
  BY MemberOf
     DEF GetConfigPolicyReplyReads, GetConfigPolicyReplySizes, GetConfigPolicyReplyMembers,
         MemberKind, TextKinds
<1>5. WritesFit(GetConfigPolicyReplyWrites, GetConfigPolicyReplySizes)
  BY DEF WritesFit, Sized, GetConfigPolicyReplySizes, GetConfigPolicyReplyWrites, Value, Mapped
<1>6. /\ GetConfigPolicyReplyCleared = {e.field: e \in GetConfigPolicyReplyMembers}
      /\ GetConfigPolicyReplyMerges = GetConfigPolicyReplyMembers
  BY DEF GetConfigPolicyReplyCleared, GetConfigPolicyReplyMerges,
         GetConfigPolicyReplyMembers, Value, Mapped
<1>7. /\ new = [f \in GetConfigPolicyReplyCleared |-> new[f]]
      /\ new["error"] = Zero("text") /\ new["bool_policy"] = <<>>
      /\ new["float_policy"] = <<>> /\ new["integer_policy"] = <<>>
      /\ new["string_policy"] = <<>>
  BY ZeroIs DEF GetConfigPolicyReplyNew, GetConfigPolicyReplyCleared
<1> HIDE DEF new
<1>8. NewFits(new, GetConfigPolicyReplyMembers)
  BY <1>6, <1>7 DEF NewFits, GetConfigPolicyReplyMembers, Value, Mapped
<1>9. QED
  BY <1>1, <1>2, <1>3, <1>4, <1>5, <1>6, <1>8 DEF ClassFits

-----------------------------------------------------------------------------
(***************************************************************************)
(* The levels.                                                             *)
(***************************************************************************)

\* Two descriptions of the same field: one may say string where the other says bytes.
Alike(e, f) ==
    /\ e.shape = f.shape /\ e.field = f.field
    /\ e.of = f.of \/ (e.of \in TextKinds /\ f.of \in TextKinds)
    /\ e.shape = "choice" => e.choice = f.choice

IsOf(e, type) == \E f \in MembersOf(type): Alike(e, f)

\* What ClassFits gives, of a class and of the class of a map's entries alike.
TypeFits(type) ==
    /\ MembersFit(type, MembersOf(type))
    /\ \A r \in ReadsOf(type): IsOf(r[2], type)
    /\ \A s \in SizesOf(type): s[1] \in {1, 2} /\ IsOf(s[2], type)
    /\ \A array \in BOOLEAN: WritesFit(WritesOf(type, array), SizesOf(type))

\* The names of the classes are those of no kind, and their depths are at most 5.
LEMMA TypesAre ==
    /\ TypeNames = Types \cup EntryTypes /\ Types \cap EntryTypes = {}
    /\ TypeNames \cap Kinds = {} /\ TextKinds \subseteq Kinds
    /\ \A type \in TypeNames: Depth[type] \in 1..5
BY DEF Types, Members, EntryTypes, Entries, TypeNames, Depth, Kinds, IntegerKinds, TextKinds

\* The entries of a map hold scalars, or messages of a lesser depth.
LEMMA EntriesAre ==
    \A type \in EntryTypes: \/ Entries[type] \in Kinds /\ Depth[type] = 1
                            \/ Entries[type] \in Types /\ Depth[Entries[type]] < Depth[type]
BY DEF Types, Members, EntryTypes, Entries, Depth, Kinds, IntegerKinds, TextKinds

\* The tables of every class agree.
LEMMA ClassesFit == \A type \in Types: ClassFits(type)
BY CollectArgFits, CollectReplyFits, EmptyFits, ErrReplyFits, TimeFits, NamespaceElementFits,
   PubProcArgFits, MetricFits, ConfigMapFits, KillArgFits, GetConfigPolicyReplyFits,
   BoolRuleFits, BoolPolicyFits, FloatRuleFits, FloatPolicyFits, IntegerRuleFits,
   IntegerPolicyFits, StringRuleFits, StringPolicyFits, MetricsArgFits, MetricsReplyFits,
   GetMetricTypesArgFits
   DEF Types, Members

\* A description and its member are alike.
LEMMA MembersAlike ==
    ASSUME NEW e, NEW f, Member(e) = f, IsDescription(f)
    PROVE  Alike(e, f)
<1>1. \A x \in DOMAIN f: x \in DOMAIN e /\ (x # "of" => f[x] = e[x])
  BY DEF Member
<1>2. f.of = IF e.of \in TextKinds THEN "text" ELSE e.of
  BY DEF Member, IsDescription
<1>3. QED
  BY <1>1, <1>2 DEF Alike, IsDescription, TextKinds

\* The tables of a class, and then those of the entries of maps, agree.
LEMMA ClassTypeFits ==
    ASSUME NEW type \in Types
    PROVE  TypeFits(type)
<1>1. ClassFits(type)
  BY ClassesFit
<1>2. /\ MembersOf(type) = Members[type] /\ ReadsOf(type) = Reads[type]
      /\ SizesOf(type) = Sizes[type]
  BY <1>1 DEF ClassFits, MembersOf, ReadsOf, SizesOf
<1>3. \A e: Member(e) \in Members[type] => IsOf(e, type)
  BY <1>1, <1>2, MembersAlike DEF ClassFits, MembersFit, IsOf
<1>4. QED
  BY <1>1, <1>2, <1>3 DEF ClassFits, TypeFits

LEMMA EntryTypeFits ==
    ASSUME NEW type \in EntryTypes
    PROVE  TypeFits(type)
<1> DEFINE value == Entries[type]
           key == Held("key", "text")  name == Held("key", "string")  held == Held("value", value)
<1>1. /\ MembersOf(type) = {key, held} /\ SizesOf(type) = {<<1, name>>, <<1, held>>}
      /\ \A r \in ReadsOf(type): r[2] \in {name, held}
      /\ \A array \in BOOLEAN: WritesOf(type, array) = << <<1, name>>, <<2, held>> >>
  <2>1. type \notin {"Metric", "ConfigMap", "GetConfigPolicyReply"}
    BY DEF EntryTypes, Entries
  <2>2. QED
    BY <2>1 DEF MembersOf, SizesOf, ReadsOf, WritesOf, EntryReads
<1>2. MembersFit(type, {key, held})
  <2>1. Nested(key, type) /\ Nested(held, type)
    BY TypesAre, EntriesAre DEF Nested, Held, Kinds, TextKinds
  <2>2. IsDescription(key) /\ IsDescription(held)
    BY DEF IsDescription, Shapes, Held
  <2>3. Apart(key, held) /\ Apart(held, key) /\ Apart(key, key) /\ Apart(held, held)
    BY DEF Apart, Held
  <2> HIDE DEF key, held
  <2>4. QED
    BY <2>1, <2>2, <2>3 DEF MembersFit
<1>3. Alike(name, key) /\ Alike(held, held)
  BY DEF Alike, Held, TextKinds
<1>4. WritesFit(<< <<1, name>>, <<2, held>> >>, {<<1, name>>, <<1, held>>})
  BY DEF WritesFit, Sized, Held
<1> HIDE DEF key, held, name
<1>5. QED
  BY <1>1, <1>2, <1>3, <1>4 DEF TypeFits, IsOf

LEMMA TypesFit == \A type \in TypeNames: TypeFits(type)
BY ClassTypeFits, EntryTypeFits, TypesAre

\* The fields of a class hold scalars or messages of a lesser depth ...
LEMMA MembersNested ==
    \A type \in TypeNames: \A e \in MembersOf(type):
        /\ IsDescription(e)
        /\ e.of \in Kinds \/ (e.of \in TypeNames /\ Depth[e.of] < Depth[type])
BY TypesFit DEF TypeFits, MembersFit, Nested

\* ... and so does whatever the tables call its field.
LEMMA DescriptionsNested ==
    \A type \in TypeNames: \A e: IsOf(e, type) =>
        e.of \in Kinds \/ (e.of \in TypeNames /\ Depth[e.of] < Depth[type])
BY MembersNested, TypesAre DEF IsOf, Alike

\* A level more changes nothing for a class that the levels already reach.
LEMMA Is1Enough ==
    \A type \in TypeNames: \A m: Depth[type] <= 1 => (Is1(type, m) <=> Is2(type, m))
<1> SUFFICES ASSUME NEW type \in TypeNames, NEW m, Depth[type] <= 1,
                    NEW e \in MembersOf(type), NEW v
             PROVE  IsField(LAMBDA of, x: FALSE, MembersOf(type), e, v)
                        <=> IsField(Is1, MembersOf(type), e, v)
  BY DEF Is1, Is2, IsBy
<1>1. e.of \in Kinds /\ e.shape \notin {"message", "mapped"}
  BY MembersNested, TypesAre DEF IsDescription
<1>4. CASE e.shape \in {"value", "held"}
  BY <1>1, <1>4 DEF IsField, IsInner
<1>5. CASE e.shape = "choice"
  BY <1>5 DEF IsField
<1>6. CASE e.shape = "message"
  BY <1>1, <1>6 DEF IsField
<1>7. CASE e.shape = "repeated"
  BY <1>1, <1>7 DEF IsField, IsInner
<1>8. CASE e.shape = "mapped"
  BY <1>1, <1>8 DEF IsField, IsInner
<1>9. QED
  BY <1>4, <1>5, <1>6, <1>7, <1>8, MembersNested DEF IsDescription, Shapes

LEMMA Is2Enough ==
    \A type \in TypeNames: \A m: Depth[type] <= 2 => (Is2(type, m) <=> Is3(type, m))
<1> SUFFICES ASSUME NEW type \in TypeNames, NEW m, Depth[type] <= 2,
                    NEW e \in MembersOf(type), NEW v
             PROVE  IsField(Is1, MembersOf(type), e, v)
                        <=> IsField(Is2, MembersOf(type), e, v)
  BY DEF Is2, Is3, IsBy
<1>1. e.of \in Kinds \/ \A x: Is1(e.of, x) <=> Is2(e.of, x)
  BY MembersNested, TypesAre, Is1Enough
<1>2. e.shape = "message" => \A x: Is1(e.of, x) <=> Is2(e.of, x)
  BY MembersNested, TypesAre, Is1Enough DEF IsDescription
<1>3. e.shape = "mapped" =>
          \/ Entries[e.of] \in Kinds
          \/ \A x: Is1(Entries[e.of], x) <=> Is2(Entries[e.of], x)
  BY MembersNested, TypesAre, EntriesAre, Is1Enough DEF IsDescription
<1>4. CASE e.shape \in {"value", "held"}
  BY <1>1, <1>4 DEF IsField, IsInner
<1>5. CASE e.shape = "choice"
  BY <1>5 DEF IsField
<1>6. CASE e.shape = "message"
  BY <1>2, <1>6 DEF IsField
<1>7. CASE e.shape = "repeated"
  BY <1>1, <1>7 DEF IsField, IsInner
<1>8. CASE e.shape = "mapped"
  BY <1>3, <1>8 DEF IsField, IsInner
<1>9. QED
  BY <1>4, <1>5, <1>6, <1>7, <1>8, MembersNested DEF IsDescription, Shapes

LEMMA Is3Enough ==
    \A type \in TypeNames: \A m: Depth[type] <= 3 => (Is3(type, m) <=> Is4(type, m))
<1> SUFFICES ASSUME NEW type \in TypeNames, NEW m, Depth[type] <= 3,
                    NEW e \in MembersOf(type), NEW v
             PROVE  IsField(Is2, MembersOf(type), e, v)
                        <=> IsField(Is3, MembersOf(type), e, v)
  BY DEF Is3, Is4, IsBy
<1>1. e.of \in Kinds \/ \A x: Is2(e.of, x) <=> Is3(e.of, x)
  BY MembersNested, TypesAre, Is2Enough
<1>2. e.shape = "message" => \A x: Is2(e.of, x) <=> Is3(e.of, x)
  BY MembersNested, TypesAre, Is2Enough DEF IsDescription
<1>3. e.shape = "mapped" =>
          \/ Entries[e.of] \in Kinds
          \/ \A x: Is2(Entries[e.of], x) <=> Is3(Entries[e.of], x)
  BY MembersNested, TypesAre, EntriesAre, Is2Enough DEF IsDescription
<1>4. CASE e.shape \in {"value", "held"}
  BY <1>1, <1>4 DEF IsField, IsInner
<1>5. CASE e.shape = "choice"
  BY <1>5 DEF IsField
<1>6. CASE e.shape = "message"
  BY <1>2, <1>6 DEF IsField
<1>7. CASE e.shape = "repeated"
  BY <1>1, <1>7 DEF IsField, IsInner
<1>8. CASE e.shape = "mapped"
  BY <1>3, <1>8 DEF IsField, IsInner
<1>9. QED
  BY <1>4, <1>5, <1>6, <1>7, <1>8, MembersNested DEF IsDescription, Shapes

LEMMA Is4Enough ==
    \A type \in TypeNames: \A m: Depth[type] <= 4 => (Is4(type, m) <=> IsMessage(type, m))
<1> SUFFICES ASSUME NEW type \in TypeNames, NEW m, Depth[type] <= 4,
                    NEW e \in MembersOf(type), NEW v
             PROVE  IsField(Is3, MembersOf(type), e, v)
                        <=> IsField(Is4, MembersOf(type), e, v)
  BY DEF Is4, IsMessage, IsBy
<1>1. e.of \in Kinds \/ \A x: Is3(e.of, x) <=> Is4(e.of, x)
  BY MembersNested, TypesAre, Is3Enough
<1>2. e.shape = "message" => \A x: Is3(e.of, x) <=> Is4(e.of, x)
  BY MembersNested, TypesAre, Is3Enough DEF IsDescription
<1>3. e.shape = "mapped" =>
          \/ Entries[e.of] \in Kinds
          \/ \A x: Is3(Entries[e.of], x) <=> Is4(Entries[e.of], x)
  BY MembersNested, TypesAre, EntriesAre, Is3Enough DEF IsDescription
<1>4. CASE e.shape \in {"value", "held"}
  BY <1>1, <1>4 DEF IsField, IsInner
<1>5. CASE e.shape = "choice"
  BY <1>5 DEF IsField
<1>6. CASE e.shape = "message"
  BY <1>2, <1>6 DEF IsField
<1>7. CASE e.shape = "repeated"
  BY <1>1, <1>7 DEF IsField, IsInner
<1>8. CASE e.shape = "mapped"
  BY <1>3, <1>8 DEF IsField, IsInner
<1>9. QED
  BY <1>4, <1>5, <1>6, <1>7, <1>8, MembersNested DEF IsDescription, Shapes

\* So IsMessage satisfies the recursive equation that its levels unroll.
LEMMA IsUnfolds ==
    \A type \in TypeNames: \A m: IsMessage(type, m) <=> IsBy(IsMessage, type, m)
<1> SUFFICES ASSUME NEW type \in TypeNames, NEW m, NEW e \in MembersOf(type), NEW v
             PROVE  IsField(Is4, MembersOf(type), e, v)
                        <=> IsField(IsMessage, MembersOf(type), e, v)
  BY DEF IsMessage, IsBy
<1>1. e.of \in Kinds \/ \A x: Is4(e.of, x) <=> IsMessage(e.of, x)
  BY MembersNested, TypesAre, Is4Enough
<1>2. e.shape = "message" => \A x: Is4(e.of, x) <=> IsMessage(e.of, x)
  BY MembersNested, TypesAre, Is4Enough DEF IsDescription
<1>3. e.shape = "mapped" =>
          \/ Entries[e.of] \in Kinds
          \/ \A x: Is4(Entries[e.of], x) <=> IsMessage(Entries[e.of], x)
  BY MembersNested, TypesAre, EntriesAre, Is4Enough DEF IsDescription
<1>4. CASE e.shape \in {"value", "held"}
  BY <1>1, <1>4 DEF IsField, IsInner
<1>5. CASE e.shape = "choice"
  BY <1>5 DEF IsField
<1>6. CASE e.shape = "message"
  BY <1>2, <1>6 DEF IsField
<1>7. CASE e.shape = "repeated"
  BY <1>1, <1>7 DEF IsField, IsInner
<1>8. CASE e.shape = "mapped"
  BY <1>3, <1>8 DEF IsField, IsInner
<1>9. QED
  BY <1>4, <1>5, <1>6, <1>7, <1>8, MembersNested DEF IsDescription, Shapes

\* The fields that are sized, and those that are written, are nested as its members are.
LEMMA SizesNested ==
    \A type \in TypeNames: \A s \in SizesOf(type):
        s[2].of \in Kinds \/ (s[2].of \in TypeNames /\ Depth[s[2].of] < Depth[type])
BY TypesFit, DescriptionsNested DEF TypeFits

LEMMA WritesNested ==
    \A type \in TypeNames, array \in BOOLEAN: \A i \in DOMAIN WritesOf(type, array):
        LET of == WritesOf(type, array)[i][2].of
        IN  of \in Kinds \/ (of \in TypeNames /\ Depth[of] < Depth[type])
<1> SUFFICES ASSUME NEW type \in TypeNames, NEW array \in BOOLEAN,
                    NEW i \in DOMAIN WritesOf(type, array)
             PROVE  LET of == WritesOf(type, array)[i][2].of
                    IN  of \in Kinds \/ (of \in TypeNames /\ Depth[of] < Depth[type])
  OBVIOUS
<1>1. Sized(WritesOf(type, array)[i]) \in SizesOf(type)
  BY TypesFit DEF TypeFits, WritesFit
<1>2. Sized(WritesOf(type, array)[i])[2] = WritesOf(type, array)[i][2]
  BY DEF Sized
<1>3. QED
  BY <1>1, <1>2, SizesNested

\* A level more changes no size of a class that the levels already reach.
LEMMA Size1Enough ==
    \A type \in TypeNames: \A m: Depth[type] <= 1 => Size1(type, m) = Size2(type, m)
<1> SUFFICES ASSUME NEW type \in TypeNames, NEW m, Depth[type] <= 1, NEW s \in SizesOf(type),
                    NEW parts
             PROVE  FieldSize(LAMBDA of, x: 0, s[1], s[2], parts)
                        = FieldSize(Size1, s[1], s[2], parts)
  BY DEF Size1, Size2, SizeBy
<1>1. s[2].of \in Kinds
  BY SizesNested, TypesAre
<1>2. QED
  BY <1>1 DEF FieldSize, InnerSize

LEMMA Size2Enough ==
    \A type \in TypeNames: \A m: Depth[type] <= 2 => Size2(type, m) = Size3(type, m)
<1> SUFFICES ASSUME NEW type \in TypeNames, NEW m, Depth[type] <= 2, NEW s \in SizesOf(type),
                    NEW parts
             PROVE  FieldSize(Size1, s[1], s[2], parts)
                        = FieldSize(Size2, s[1], s[2], parts)
  BY DEF Size2, Size3, SizeBy
<1>1. s[2].of \in Kinds \/ \A x: Size1(s[2].of, x) = Size2(s[2].of, x)
  BY SizesNested, TypesAre, Size1Enough
<1>2. QED
  BY <1>1 DEF FieldSize, InnerSize

LEMMA Size3Enough ==
    \A type \in TypeNames: \A m: Depth[type] <= 3 => Size3(type, m) = Size4(type, m)
<1> SUFFICES ASSUME NEW type \in TypeNames, NEW m, Depth[type] <= 3, NEW s \in SizesOf(type),
                    NEW parts
             PROVE  FieldSize(Size2, s[1], s[2], parts)
                        = FieldSize(Size3, s[1], s[2], parts)
  BY DEF Size3, Size4, SizeBy
<1>1. s[2].of \in Kinds \/ \A x: Size2(s[2].of, x) = Size3(s[2].of, x)
  BY SizesNested, TypesAre, Size2Enough
<1>2. QED
  BY <1>1 DEF FieldSize, InnerSize

LEMMA Size4Enough ==
    \A type \in TypeNames: \A m: Depth[type] <= 4 => Size4(type, m) = ByteSize(type, m)
<1> SUFFICES ASSUME NEW type \in TypeNames, NEW m, Depth[type] <= 4, NEW s \in SizesOf(type),
                    NEW parts
             PROVE  FieldSize(Size3, s[1], s[2], parts)
                        = FieldSize(Size4, s[1], s[2], parts)
  BY DEF Size4, ByteSize, SizeBy
<1>1. s[2].of \in Kinds \/ \A x: Size3(s[2].of, x) = Size4(s[2].of, x)
  BY SizesNested, TypesAre, Size3Enough
<1>2. QED
  BY <1>1 DEF FieldSize, InnerSize

\* So ByteSize satisfies the recursive equation that its levels unroll.
LEMMA SizeUnfolds ==
    \A type \in TypeNames: \A m: ByteSize(type, m) = SizeBy(ByteSize, type, m)
<1> SUFFICES ASSUME NEW type \in TypeNames, NEW m, NEW s \in SizesOf(type), NEW parts
             PROVE  FieldSize(Size4, s[1], s[2], parts)
                        = FieldSize(ByteSize, s[1], s[2], parts)
  BY DEF ByteSize, SizeBy
<1>1. s[2].of \in Kinds \/ \A x: Size4(s[2].of, x) = ByteSize(s[2].of, x)
  BY SizesNested, TypesAre, Size4Enough
<1>2. QED
  BY <1>1 DEF FieldSize, InnerSize

\* A level more changes no token of a class that the levels already reach.
LEMMA Tokens1Enough ==
    \A type \in TypeNames, array \in BOOLEAN: \A m, stray:
        Depth[type] <= 1 => Tokens1(type, m, stray, array) = Tokens2(type, m, stray, array)
<1> SUFFICES ASSUME NEW type \in TypeNames, NEW array \in BOOLEAN, NEW m, NEW stray,
                    Depth[type] <= 1
             PROVE  TokensBy(LAMBDA of, x, t, a: <<>>, type, m, stray, array)
                        = TokensBy(Tokens1, type, m, stray, array)
  BY DEF Tokens1, Tokens2
<1> DEFINE w == WritesOf(type, array)
<1>1. ASSUME NEW i \in DOMAIN w, NEW parts
      PROVE  FieldTokens(LAMBDA of, x, t, a: <<>>, w[i][1], w[i][2], parts, stray, array)
                 = FieldTokens(Tokens1, w[i][1], w[i][2], parts, stray, array)
  <2>1. w[i][2].of \in Kinds
    BY WritesNested, TypesAre
  <2>2. QED
    BY <2>1 DEF FieldTokens, InnerTokens
<1> HIDE DEF w
<1>2. QED
  BY <1>1 DEF TokensBy, w

LEMMA Tokens2Enough ==
    \A type \in TypeNames, array \in BOOLEAN: \A m, stray:
        Depth[type] <= 2 => Tokens2(type, m, stray, array) = Tokens3(type, m, stray, array)
<1> SUFFICES ASSUME NEW type \in TypeNames, NEW array \in BOOLEAN, NEW m, NEW stray,
                    Depth[type] <= 2
             PROVE  TokensBy(Tokens1, type, m, stray, array)
                        = TokensBy(Tokens2, type, m, stray, array)
  BY DEF Tokens2, Tokens3
<1> DEFINE w == WritesOf(type, array)
<1>1. ASSUME NEW i \in DOMAIN w, NEW parts
      PROVE  FieldTokens(Tokens1, w[i][1], w[i][2], parts, stray, array)
                 = FieldTokens(Tokens2, w[i][1], w[i][2], parts, stray, array)
  <2>1. \/ w[i][2].of \in Kinds
        \/ \A x: Tokens1(w[i][2].of, x, stray, array) = Tokens2(w[i][2].of, x, stray, array)
    BY WritesNested, TypesAre, Tokens1Enough
  <2>2. QED
    BY <2>1 DEF FieldTokens, InnerTokens
<1> HIDE DEF w
<1>2. QED
  BY <1>1 DEF TokensBy, w

LEMMA Tokens3Enough ==
    \A type \in TypeNames, array \in BOOLEAN: \A m, stray:
        Depth[type] <= 3 => Tokens3(type, m, stray, array) = Tokens4(type, m, stray, array)
<1> SUFFICES ASSUME NEW type \in TypeNames, NEW array \in BOOLEAN, NEW m, NEW stray,
                    Depth[type] <= 3
             PROVE  TokensBy(Tokens2, type, m, stray, array)
                        = TokensBy(Tokens3, type, m, stray, array)
  BY DEF Tokens3, Tokens4
<1> DEFINE w == WritesOf(type, array)
<1>1. ASSUME NEW i \in DOMAIN w, NEW parts
      PROVE  FieldTokens(Tokens2, w[i][1], w[i][2], parts, stray, array)
                 = FieldTokens(Tokens3, w[i][1], w[i][2], parts, stray, array)
  <2>1. \/ w[i][2].of \in Kinds
        \/ \A x: Tokens2(w[i][2].of, x, stray, array) = Tokens3(w[i][2].of, x, stray, array)
    BY WritesNested, TypesAre, Tokens2Enough
  <2>2. QED
    BY <2>1 DEF FieldTokens, InnerTokens
<1> HIDE DEF w
<1>2. QED
  BY <1>1 DEF TokensBy, w

LEMMA Tokens4Enough ==
    \A type \in TypeNames, array \in BOOLEAN: \A m, stray:
        Depth[type] <= 4 => Tokens4(type, m, stray, array) = Serialize(type, m, stray, array)
<1> SUFFICES ASSUME NEW type \in TypeNames, NEW array \in BOOLEAN, NEW m, NEW stray,
                    Depth[type] <= 4
             PROVE  TokensBy(Tokens3, type, m, stray, array)
                        = TokensBy(Tokens4, type, m, stray, array)
  BY DEF Tokens4, Serialize
<1> DEFINE w == WritesOf(type, array)
<1>1. ASSUME NEW i \in DOMAIN w, NEW parts
      PROVE  FieldTokens(Tokens3, w[i][1], w[i][2], parts, stray, array)
                 = FieldTokens(Tokens4, w[i][1], w[i][2], parts, stray, array)
  <2>1. \/ w[i][2].of \in Kinds
        \/ \A x: Tokens3(w[i][2].of, x, stray, array) = Tokens4(w[i][2].of, x, stray, array)
    BY WritesNested, TypesAre, Tokens3Enough
  <2>2. QED
    BY <2>1 DEF FieldTokens, InnerTokens
<1> HIDE DEF w
<1>2. QED
  BY <1>1 DEF TokensBy, w

\* So Serialize satisfies the recursive equation that its levels unroll.
LEMMA SerializeUnfolds ==
    \A type \in TypeNames, array \in BOOLEAN: \A m, stray:
        Serialize(type, m, stray, array) = TokensBy(Serialize, type, m, stray, array)
<1> SUFFICES ASSUME NEW type \in TypeNames, NEW array \in BOOLEAN, NEW m, NEW stray
             PROVE  TokensBy(Tokens4, type, m, stray, array)
                        = TokensBy(Serialize, type, m, stray, array)
  BY DEF Serialize
<1> DEFINE w == WritesOf(type, array)
<1>1. ASSUME NEW i \in DOMAIN w, NEW parts
      PROVE  FieldTokens(Tokens4, w[i][1], w[i][2], parts, stray, array)
                 = FieldTokens(Serialize, w[i][1], w[i][2], parts, stray, array)
  <2>1. \/ w[i][2].of \in Kinds
        \/ \A x: Tokens4(w[i][2].of, x, stray, array) = Serialize(w[i][2].of, x, stray, array)
    BY WritesNested, TypesAre, Tokens4Enough
  <2>2. QED
    BY <2>1 DEF FieldTokens, InnerTokens
<1> HIDE DEF w
<1>2. QED
  BY <1>1 DEF TokensBy, w

-----------------------------------------------------------------------------
(***************************************************************************)
(* The parts of a field.                                                   *)
(***************************************************************************)

\* A value of a kind or of a class, and a value of a field.
Typed(of, v) == IF of \in Kinds THEN IsScalar(of, v) ELSE IsMessage(of, v)

FieldTyped(type, e, v) == IsField(IsMessage, MembersOf(type), e, v)

\* A message has the fields of its class, each with a value of the field.
LEMMA MessageIs ==
    \A type \in TypeNames: \A m:
        IsMessage(type, m) <=>
            /\ m = [f \in {e.field: e \in MembersOf(type)} |-> m[f]]
            /\ \A e \in MembersOf(type): FieldTyped(type, e, m[e.field])
<1> TAKE type \in TypeNames
<1> TAKE m
<1>1. IsMessage(type, m) <=> IsBy(IsMessage, type, m)
  BY IsUnfolds
<1>2. QED
  BY <1>1 DEF IsBy, FieldTyped

\* A string and bytes have the same values.
LEMMA KindsAlike ==
    \A of, kind, v: of = kind \/ (of \in TextKinds /\ kind \in TextKinds) =>
        (Typed(of, v) <=> Typed(kind, v))
<1>1. \A of, v: of \in TextKinds => (Typed(of, v) <=> v \in DOMAIN TextLength)
  BY DEF Typed, IsScalar, Kinds, TextKinds
<1>2. QED
  BY <1>1

\* An entry of a map has a key and a value.
LEMMA EntryMembers ==
    \A type \in EntryTypes:
        MembersOf(type) = {Held("key", "text"), Held("value", Entries[type])}
BY DEF MembersOf

\* An entry is a key, which is text, and a value of its type.
LEMMA EntryIs ==
    ASSUME NEW type \in EntryTypes, NEW k \in DOMAIN TextLength, NEW v, Typed(Entries[type], v)
    PROVE  IsMessage(type, [key |-> k, value |-> v])
<1> DEFINE m == [key |-> k, value |-> v]
           key == Held("key", "text")  held == Held("value", Entries[type])
<1>1. m = [f \in {"key", "value"} |-> m[f]] /\ m["key"] = k /\ m["value"] = v
  OBVIOUS
<1>2. /\ key.field = "key" /\ key.of = "text" /\ key.shape = "held"
      /\ held.field = "value" /\ held.of = Entries[type] /\ held.shape = "held"
  BY DEF Held
<1>3. MembersOf(type) = {key, held} /\ type \in TypeNames
  BY EntryMembers, TypesAre
<1> HIDE DEF m, key, held
<1>4. FieldTyped(type, key, m["key"])
  BY <1>1, <1>2 DEF FieldTyped, IsField, IsInner, IsScalar, Kinds, TextKinds
<1>5. FieldTyped(type, held, m["value"])
  BY <1>1, <1>2 DEF FieldTyped, IsField, IsInner, Typed
<1>6. {e.field: e \in MembersOf(type)} = {"key", "value"}
  BY <1>2, <1>3
<1>7. m = [f \in {e.field: e \in MembersOf(type)} |-> m[f]]
  BY <1>1, <1>6
<1>8. \A e \in MembersOf(type): FieldTyped(type, e, m[e.field])
  BY <1>2, <1>3, <1>4, <1>5
<1>9. IsMessage(type, m)
  BY <1>3, <1>7, <1>8, MessageIs
<1>10. QED
  BY <1>9 DEF m

\* The keys of a map, in sequence, are its keys.
LEMMA KeysInSequence ==
    ASSUME NEW S, IsFiniteSet(S)
    PROVE  LET keys == SetToSeq(S)
           IN  /\ Len(keys) \in Nat /\ DOMAIN keys = 1..Len(keys)
               /\ \A i \in DOMAIN keys: keys[i] \in S
<1>1. PICK n: n = Cardinality(S) /\ n \in Nat
  BY FS_CardinalityType
<1>2. \E f \in [1..n -> S]: IsInjective(f)
  <2>1. PICK f: f \in Bijection(1..n, S)
    BY <1>1, FS_CardinalityType DEF ExistsBijection
  <2>2. f \in [1..n -> S] /\ IsInjective(f)
    BY <2>1 DEF Bijection, Injection, IsInjective
  <2>3. QED
    BY <2>2
<1>3. SetToSeq(S) \in [1..n -> S]
  BY <1>1, <1>2 DEF SetToSeq
<1>4. QED
  BY <1>1, <1>3

\* Of what type a union's value is: that of the choice.
LEMMA ChoiceIs ==
    ASSUME NEW type \in TypeNames, NEW e \in MembersOf(type), e.shape = "choice",
           NEW v, FieldTyped(type, e, v), e.choice \in DOMAIN v
    PROVE  Typed(e.of, v[e.choice])
<1>1. PICK c \in MembersOf(type):
          /\ c.shape = "choice" /\ c.field = e.field
          /\ DOMAIN v = {c.choice} /\ IsScalar(c.of, v[c.choice])
  <2>1. v # <<>>
    OBVIOUS
  <2>2. QED
    BY <2>1 DEF FieldTyped, IsField
<1>2. c = e
  BY <1>1, TypesFit DEF TypeFits, MembersFit, Apart
<1>3. e.of \in Kinds
  BY MembersNested DEF IsDescription
<1>4. QED
  BY <1>1, <1>2, <1>3 DEF Typed

\* What there is of a member is a sequence of values of its type.
IsPartsOf(of, parts) ==
    /\ Len(parts) \in Nat /\ DOMAIN parts = 1..Len(parts)
    /\ \A i \in DOMAIN parts: Typed(of, parts[i])

\* A value of a kind or class is one part of it, and no value is none.
LEMMA OnePart == \A of, v: Typed(of, v) => IsPartsOf(of, <<v>>)
BY DEF IsPartsOf

LEMMA NoPart == \A of: IsPartsOf(of, <<>>)
BY DEF IsPartsOf

\* The parts of a field's value are values of the field's kind or class.
LEMMA MemberParts ==
    ASSUME NEW type \in TypeNames, NEW e \in MembersOf(type), NEW v, FieldTyped(type, e, v)
    PROVE  IsPartsOf(e.of, Parts(e, v))
<1>1. CASE e.shape = "value"
  <2>1. Typed(e.of, v)
    BY <1>1, MembersNested DEF FieldTyped, IsField, IsInner, Typed
  <2>2. QED
    BY <1>1, <2>1, OnePart, NoPart DEF Parts
<1>2. CASE e.shape = "held"
  <2>1. Typed(e.of, v)
    BY <1>2 DEF FieldTyped, IsField, IsInner, Typed
  <2>2. QED
    BY <1>2, <2>1, OnePart DEF Parts
<1>3. CASE e.shape = "choice"
  BY <1>3, ChoiceIs, OnePart, NoPart DEF Parts
<1>4. CASE e.shape = "message"
  <2>1. v = <<>> \/ (v = <<v[1]>> /\ IsMessage(e.of, v[1]))
    BY <1>4 DEF FieldTyped, IsField
  <2>2. e.of \notin Kinds
    BY <1>4, MembersNested, TypesAre DEF IsDescription
  <2>3. Parts(e, v) = v
    BY <1>4 DEF Parts
  <2>4. QED
    BY <2>1, <2>2, <2>3, OnePart, NoPart DEF Typed
<1>5. CASE e.shape = "repeated"
  <2>1. v \in Seq({v[i]: i \in DOMAIN v}) /\ \A i \in DOMAIN v: Typed(e.of, v[i])
    BY <1>5 DEF FieldTyped, IsField, IsInner, Typed
  <2>2. Parts(e, v) = v
    BY <1>5 DEF Parts
  <2>3. Len(v) \in Nat /\ DOMAIN v = 1..Len(v)
    BY <2>1
  <2>4. QED
    BY <2>1, <2>2, <2>3 DEF IsPartsOf
<1>6. CASE e.shape = "mapped"
  <2>1. /\ IsFiniteSet(DOMAIN v)
        /\ \A k \in DOMAIN v: k \in DOMAIN TextLength /\ Typed(Entries[e.of], v[k])
    BY <1>6 DEF FieldTyped, IsField, IsInner, Typed
  <2>2. PICK keys: keys = SetToSeq(DOMAIN v)
    OBVIOUS
  <2>3. /\ Len(keys) \in Nat /\ DOMAIN keys = 1..Len(keys)
        /\ \A i \in DOMAIN keys: keys[i] \in DOMAIN v
    BY <2>1, <2>2, KeysInSequence
  <2>4. Parts(e, v) = [i \in DOMAIN keys |-> [key |-> keys[i], value |-> v[keys[i]]]]
    BY <1>6, <2>2 DEF Parts
  <2>5. e.of \in EntryTypes /\ e.of \notin Kinds
    BY <1>6, MembersNested, TypesAre DEF IsDescription
  <2>6. \A i \in DOMAIN keys: Typed(e.of, [key |-> keys[i], value |-> v[keys[i]]])
    BY <2>1, <2>3, <2>5, EntryIs DEF Typed
  <2>7. PICK parts: parts = Parts(e, v)
    OBVIOUS
  <2>8. DOMAIN parts = 1..Len(keys) /\ Len(parts) = Len(keys)
    BY <2>3, <2>4, <2>7
  <2>9. \A i \in DOMAIN parts: Typed(e.of, parts[i])
    BY <2>4, <2>6, <2>7
  <2>10. QED
    BY <2>3, <2>7, <2>8, <2>9 DEF IsPartsOf
<1>7. QED
  BY <1>1, <1>2, <1>3, <1>4, <1>5, <1>6, MembersNested DEF IsDescription, Shapes

\* What is measured or written is what a member holds.
LEMMA PartsTyped ==
    ASSUME NEW type \in TypeNames, NEW m, IsMessage(type, m), NEW e, IsOf(e, type)
    PROVE  IsPartsOf(e.of, Parts(e, m[e.field]))
<1>1. PICK f \in MembersOf(type): Alike(e, f)
  BY DEF IsOf
<1>2. FieldTyped(type, f, m[f.field])
  BY MessageIs
<1>3. IsPartsOf(f.of, Parts(f, m[f.field]))
  BY <1>2, MemberParts
<1>4. \A v: Parts(e, v) = Parts(f, v)
  <2>1. Zero(e.of) = Zero(f.of)
    <3>1. \A kind \in TextKinds: Zero(kind) = ""
      BY DEF Zero, TextKinds
    <3>2. QED
      BY <1>1, <3>1 DEF Alike
  <2>2. QED
    BY <1>1, <2>1, MembersNested DEF Alike, Parts, IsDescription, Shapes
<1>5. QED
  BY <1>1, <1>3, <1>4, KindsAlike DEF Alike, IsPartsOf

-----------------------------------------------------------------------------
(***************************************************************************)
(* Sizes and what is written.                                              *)
(***************************************************************************)

\* How many bytes a tag takes, and how many a value and the tokens of it take after the tag.
TagWidth(number) == IF number <= 15 THEN 1 ELSE 2

InSize(of, v) ==
    IF of \in Kinds \ TextKinds THEN ScalarWidth(of, v)
    ELSE WithLength(IF of \in Kinds THEN TextLength[v] ELSE ByteSize(of, v))

InTokens(number, of, v, stray, array) ==
    IF of \in Kinds THEN ScalarTokens(number, of, v)
    ELSE << TagToken(number, of),
            LengthToken(IF stray = <<>> THEN ByteSize(of, v)
                        ELSE Width(Serialize(of, v, stray, array))) >>
             \o Serialize(of, v, stray, array)

\* What a field takes: each of its parts with a tag before it.
PartSize(tag, e, parts) == SumFunction([i \in DOMAIN parts |-> tag + InSize(e.of, parts[i])])

PartTokens(number, e, parts, stray, array) ==
    FlattenSeq([i \in DOMAIN parts |-> InTokens(number, e.of, parts[i], stray, array)])

\* ByteSize of a message adds up the fields that the tables size.
LEMMA ByteSizeIs ==
    \A type \in TypeNames: \A m:
        ByteSize(type, m) =
            SumFunction([s \in SizesOf(type) |->
                            PartSize(s[1], s[2], Parts(s[2], m[s[2].field]))])
<1> TAKE type \in TypeNames
<1> TAKE m
<1>1. ByteSize(type, m) = SizeBy(ByteSize, type, m)
  BY SizeUnfolds
<1>2. QED
  BY <1>1 DEF SizeBy, FieldSize, InnerSize, PartSize, InSize

\* What a message is written as: the fields that the tables write, then the bytes left over.
MessageTokens(w, m, stray, array) ==
    FlattenSeq([i \in DOMAIN w |->
                   PartTokens(w[i][1], w[i][2], Parts(w[i][2], m[w[i][2].field]),
                              stray, array)]) \o stray

\* SerializeWithCachedSizes of a message writes the fields in the order of the tables.
LEMMA SerializeIs ==
    \A type \in TypeNames, array \in BOOLEAN: \A m, stray:
        Serialize(type, m, stray, array) = MessageTokens(WritesOf(type, array), m, stray, array)
<1> TAKE type \in TypeNames, array \in BOOLEAN
<1> TAKE m, stray
<1>1. Serialize(type, m, stray, array) = TokensBy(Serialize, type, m, stray, array)
  BY SerializeUnfolds
<1>2. QED
  BY <1>1 DEF TokensBy, FieldTokens, InnerTokens, MessageTokens, PartTokens, InTokens

\* A varint has a width, and so has every text.
LEMMA VarintWidthType == \A n \in Int: VarintWidth(n) \in Nat
<1> TAKE n \in Int
<1>1. PICK reached: reached = {limit \in VarintLimits: limit <= n}
  OBVIOUS
<1>2. IsFiniteSet(VarintLimits)
  <2>1. \A limit \in VarintLimits: limit \in Nat /\ limit <= 268435456
    BY DEF VarintLimits
  <2>2. PICK m \in Nat: \A limit \in VarintLimits: limit \in Nat /\ limit <= m
    BY <2>1
  <2>3. VarintLimits \in SUBSET Nat
    BY <2>2
  <2>4. QED
    BY <2>2, <2>3, FS_BoundedSetOfNaturals
<1>3. Cardinality(reached) \in Nat
  BY <1>1, <1>2, FS_Subset, FS_CardinalityType
<1>4. QED
  BY <1>1, <1>3 DEF VarintWidth

LEMMA TextLengthType ==
    "" \in DOMAIN TextLength /\ \A v \in DOMAIN TextLength: TextLength[v] \in Nat
BY TextAssumption

\* Tokens are tokens, with the width they are given.
LEMMA TokenType ==
    ASSUME NEW is \in {"tag", "number", "length", "text"}, NEW value \in Int,
           NEW text \in DOMAIN TextLength, NEW width \in Nat,
           is \in {"tag", "length"} => value \in Nat
    PROVE  Token(is, value, text, width) \in Tokens /\ Token(is, value, text, width).width = width
BY DEF Token, Tokens

LEMMA TagTokenType ==
    \A number \in Nat: \A of: /\ TagToken(number, of) \in Tokens
                              /\ TagToken(number, of).width = TagWidth(number)
                              /\ TagWidth(number) \in Nat
<1> SUFFICES ASSUME NEW number \in Nat, NEW of
             PROVE  /\ TagToken(number, of) \in Tokens
                    /\ TagToken(number, of).width = TagWidth(number)
                    /\ TagWidth(number) \in Nat
  OBVIOUS
<1>1. TagOf(number, of) \in Nat
  <2>1. WireType(of) \in Nat
    BY DEF WireType, IntegerKinds
  <2>2. QED
    BY <2>1 DEF TagOf
<1>2. TagWidth(number) \in Nat
  BY DEF TagWidth
<1>3. TagToken(number, of) = Token("tag", TagOf(number, of), "", TagWidth(number))
  BY DEF TagToken, TagWidth
<1>4. PICK value, width: value = TagOf(number, of) /\ width = TagWidth(number)
  OBVIOUS
<1>5. value \in Nat /\ value \in Int /\ width \in Nat
  BY <1>1, <1>2, <1>4
<1>6. Token("tag", value, "", width) \in Tokens /\ Token("tag", value, "", width).width = width
  BY <1>5, TextLengthType, TokenType
<1>7. QED
  BY <1>2, <1>3, <1>4, <1>6

LEMMA LengthTokenType ==
    \A n \in Nat: LengthToken(n) \in Tokens /\ LengthToken(n).width = VarintWidth(n)
<1> TAKE n \in Nat
<1>1. VarintWidth(n) \in Nat /\ n \in Int
  BY VarintWidthType
<1>2. QED
  BY <1>1, TextLengthType, TokenType DEF LengthToken

\* The width of two tokens.
LEMMA WidthOfTwo ==
    ASSUME NEW a \in Tokens, NEW b \in Tokens
    PROVE  <<a, b>> \in Seq(Tokens) /\ Width(<<a, b>>) = a.width + b.width
<1>1. PICK s: s = <<a, b>>
  OBVIOUS
<1>2. s \in Seq(Tokens) /\ Len(s) = 2 /\ s[1] = a /\ s[2] = b
  BY <1>1
<1>3. PICK f: f = Widths(s)
  OBVIOUS
<1>4. f[1] = a.width /\ f[2] = b.width /\ f[1] \in Nat /\ f[2] \in Nat
  <2>1. 1 \in 1..Len(s) /\ 2 \in 1..Len(s)
    BY <1>2
  <2>2. QED
    BY <1>2, <1>3, <2>1, WidthsTyped
<1>5. SumFunctionOnSet(f, 1..2) = SumFunctionOnSet(f, 1..1) + SumFunctionOnSet(f, 1 + 1..2)
  <2>1. \A x \in 1..2: f[x] \in Nat
    BY <1>4
  <2>2. PICK k \in Nat, n \in Nat: k = 1 /\ n = 2 /\ k <= n
    OBVIOUS
  <2>3. \A x \in 1..n: f[x] \in Nat
    BY <2>1, <2>2
  <2>4. SumFunctionOnSet(f, 1..n) = SumFunctionOnSet(f, 1..k) + SumFunctionOnSet(f, k + 1..n)
    <3>1. k <= n
      BY <2>2
    <3>2. QED
      BY <2>3, <3>1, SumParts
  <2>5. QED
    BY <2>2, <2>4
<1>6. 1..1 = {1} /\ 1 + 1..2 = {2}
  OBVIOUS
<1>7. SumFunctionOnSet(f, {1}) = f[1] /\ SumFunctionOnSet(f, {2}) = f[2]
  BY <1>4, SumOfOne
<1>8. Width(s) = SumFunctionOnSet(f, 1..2)
  BY <1>2, <1>3, WidthIs
<1>9. QED
  BY <1>1, <1>2, <1>4, <1>5, <1>6, <1>7, <1>8

\* A scalar is written in as many bytes as it is sized.
LEMMA ScalarsHonest ==
    ASSUME NEW number \in Nat, NEW kind \in Kinds, NEW v, Typed(kind, v)
    PROVE  /\ InSize(kind, v) \in Nat
           /\ ScalarTokens(number, kind, v) \in Seq(Tokens)
           /\ Width(ScalarTokens(number, kind, v)) = TagWidth(number) + InSize(kind, v)
<1> DEFINE tag == TagToken(number, kind)
<1>1. tag \in Tokens /\ tag.width = TagWidth(number) /\ TagWidth(number) \in Nat
  BY TagTokenType
<1>2. <<tag>> \in Seq(Tokens) /\ Width(<<tag>>) = TagWidth(number)
  BY <1>1, WidthOfOne
<1>3. CASE kind \in TextKinds
  <2>1. v \in DOMAIN TextLength /\ TextLength[v] \in Nat
    BY <1>3, TextLengthType DEF Typed, IsScalar, TextKinds
  <2> DEFINE rest == <<LengthToken(TextLength[v]), Token("text", 0, v, TextLength[v])>>
  <2>2. rest \in Seq(Tokens) /\ Width(rest) = VarintWidth(TextLength[v]) + TextLength[v]
    BY <2>1, WidthOfTwo, LengthTokenType, TokenType
  <2>3. ScalarTokens(number, kind, v) = <<tag>> \o rest
    BY <1>3 DEF ScalarTokens, TextKinds
  <2>4. InSize(kind, v) = VarintWidth(TextLength[v]) + TextLength[v]
    BY <1>3 DEF InSize, WithLength
  <2>5. VarintWidth(TextLength[v]) \in Nat
    BY <2>1, VarintWidthType
  <2> HIDE DEF tag, rest
  <2>6. <<tag>> \o rest \in Seq(Tokens) /\ Width(<<tag>> \o rest) = Width(<<tag>>) + Width(rest)
    BY <1>2, <2>2, WidthConcat
  <2>7. QED
    BY <1>1, <1>2, <2>1, <2>2, <2>3, <2>4, <2>5, <2>6
<1>4. CASE kind \notin TextKinds
  <2> DEFINE n == IF kind = "bool" THEN (IF v THEN 1 ELSE 0) ELSE v
             w == ScalarWidth(kind, v)
  <2>1. n \in Int /\ w \in Nat
    <3>1. CASE kind = "bool"
      BY <3>1 DEF ScalarWidth, IntegerKinds
    <3>2. CASE kind # "bool"
      <4>1. v \in Int
        BY <1>4, <3>2 DEF Typed, IsScalar
      <4>2. QED
        BY <1>4, <3>2, <4>1, VarintWidthType
           DEF ScalarWidth, Kinds, IntegerKinds
    <3>3. QED
      BY <3>1, <3>2
  <2>2. ScalarTokens(number, kind, v) = <<tag>> \o <<Token("number", n, "", w)>>
    BY <1>4 DEF ScalarTokens, ScalarWidth, IntegerKinds
  <2>3. InSize(kind, v) = w
    BY <1>4 DEF InSize
  <2> HIDE DEF n, w, tag
  <2> DEFINE rest == <<Token("number", n, "", w)>>
  <2>4. rest \in Seq(Tokens) /\ Width(rest) = w
    <3>1. PICK t: t = Token("number", n, "", w)
      OBVIOUS
    <3>2. "number" \in {"tag", "number", "length", "text"} \ {"tag", "length"}
          /\ "" \in DOMAIN TextLength
      BY TextLengthType
    <3>3. t \in Tokens /\ t.width = w
      BY <2>1, <3>1, <3>2, TokenType
    <3>4. QED
      BY <3>1, <3>3, WidthOfOne
  <2> HIDE DEF rest
  <2>5. QED
    BY <1>2, <2>1, <2>2, <2>3, <2>4, WidthConcat DEF rest
<1>5. QED
  BY <1>3, <1>4

(***************************************************************************)
(* ByteSize is the number of bytes that either serializer writes.          *)
(***************************************************************************)
Honest(type, m) ==
    /\ ByteSize(type, m) \in Nat
    /\ \A array \in BOOLEAN, stray \in Seq(Tokens):
          /\ Serialize(type, m, stray, array) \in Seq(Tokens)
          /\ stray = <<>> => Width(Serialize(type, m, stray, array)) = ByteSize(type, m)

\* One value in a field, with its tag.
LEMMA InnerHonest ==
    ASSUME NEW number \in Nat, NEW of, NEW v, Typed(of, v), of \in Kinds \/ Honest(of, v),
           NEW array \in BOOLEAN, NEW stray \in Seq(Tokens)
    PROVE  /\ InSize(of, v) \in Nat
           /\ InTokens(number, of, v, stray, array) \in Seq(Tokens)
           /\ stray = <<>> => Width(InTokens(number, of, v, stray, array))
                                  = TagWidth(number) + InSize(of, v)
<1>1. CASE of \in Kinds
  BY <1>1, ScalarsHonest DEF InTokens
<1>2. CASE of \notin Kinds
  <2>1. PICK inner: inner = Serialize(of, v, stray, array)
    OBVIOUS
  <2>2. PICK n: n = IF stray = <<>> THEN ByteSize(of, v) ELSE Width(inner)
    OBVIOUS
  <2>3. /\ inner \in Seq(Tokens) /\ n \in Nat /\ ByteSize(of, v) \in Nat
        /\ stray = <<>> => n = ByteSize(of, v) /\ Width(inner) = n
    BY <1>2, <2>1, <2>2, WidthType DEF Honest
  <2>4. VarintWidth(n) \in Nat /\ VarintWidth(ByteSize(of, v)) \in Nat
    <3>1. n \in Int /\ ByteSize(of, v) \in Int
      BY <2>3
    <3>2. QED
      BY <3>1, VarintWidthType
  <2>5. PICK head: head = <<TagToken(number, of), LengthToken(n)>>
    OBVIOUS
  <2>6. head \in Seq(Tokens) /\ Width(head) = TagWidth(number) + VarintWidth(n)
    BY <2>3, <2>5, TagTokenType, LengthTokenType, WidthOfTwo
  <2>7. InTokens(number, of, v, stray, array) = head \o inner
    BY <1>2, <2>1, <2>2, <2>5 DEF InTokens
  <2>8. head \o inner \in Seq(Tokens) /\ Width(head \o inner) = Width(head) + Width(inner)
    BY <2>3, <2>6, WidthConcat
  <2>9. InSize(of, v) = VarintWidth(ByteSize(of, v)) + ByteSize(of, v)
    BY <1>2, TypesAre DEF InSize, WithLength
  <2>10. TagWidth(number) \in Nat
    BY DEF TagWidth
  <2>11. QED
    BY <2>3, <2>4, <2>6, <2>7, <2>8, <2>9, <2>10
<1>3. QED
  BY <1>1, <1>2

\* A field, with all its values.
LEMMA FieldHonest ==
    ASSUME NEW number \in Nat, NEW e, NEW parts, IsPartsOf(e.of, parts),
           e.of \in Kinds \/ \A i \in DOMAIN parts: Honest(e.of, parts[i]),
           NEW array \in BOOLEAN, NEW stray \in Seq(Tokens)
    PROVE  /\ PartSize(TagWidth(number), e, parts) \in Nat
           /\ PartTokens(number, e, parts, stray, array) \in Seq(Tokens)
           /\ stray = <<>> => Width(PartTokens(number, e, parts, stray, array))
                                  = PartSize(TagWidth(number), e, parts)
<1>1. PICK sizes: sizes = [i \in DOMAIN parts |-> TagWidth(number) + InSize(e.of, parts[i])]
  OBVIOUS
<1>2. PICK seqs: seqs = [i \in DOMAIN parts |-> InTokens(number, e.of, parts[i], stray, array)]
  OBVIOUS
<1>3. PICK f: f = [i \in DOMAIN parts |-> Width(seqs[i])]
  OBVIOUS
<1>4. Len(parts) \in Nat /\ DOMAIN parts = 1..Len(parts)
  BY DEF IsPartsOf
<1>5. ASSUME NEW i \in DOMAIN parts
      PROVE  /\ sizes[i] \in Nat /\ seqs[i] \in Seq(Tokens)
             /\ stray = <<>> => Width(seqs[i]) = sizes[i]
  <2>1. Typed(e.of, parts[i]) /\ (e.of \in Kinds \/ Honest(e.of, parts[i]))
    BY DEF IsPartsOf
  <2>2. /\ InSize(e.of, parts[i]) \in Nat
        /\ InTokens(number, e.of, parts[i], stray, array) \in Seq(Tokens)
        /\ stray = <<>> => Width(InTokens(number, e.of, parts[i], stray, array))
                               = TagWidth(number) + InSize(e.of, parts[i])
    BY <2>1, InnerHonest
  <2>3. TagWidth(number) \in Nat
    BY DEF TagWidth
  <2>4. QED
    BY <1>1, <1>2, <2>2, <2>3
<1>6. DOMAIN seqs = 1..Len(parts) /\ Len(seqs) = Len(parts)
  BY <1>2, <1>4
<1>7. IsTokenized(seqs)
  BY <1>4, <1>5, <1>6 DEF IsTokenized
<1>8. \A i \in DOMAIN seqs: f[i] = Width(seqs[i])
  BY <1>3, <1>4, <1>6
<1>9. /\ FlattenSeq(seqs) \in Seq(Tokens)
      /\ Width(FlattenSeq(seqs)) = SumFunctionOnSet(f, DOMAIN seqs)
  BY <1>7, <1>8, FlattenWidth
<1>10. IsFiniteSet(DOMAIN parts)
  BY <1>4, FS_Interval
<1>11. PartSize(TagWidth(number), e, parts) = SumFunctionOnSet(sizes, DOMAIN parts)
  <2>1. DOMAIN sizes = DOMAIN parts
    BY <1>1
  <2>2. PartSize(TagWidth(number), e, parts) = SumFunction(sizes)
    BY <1>1 DEF PartSize
  <2>3. QED
    BY <2>1, <2>2 DEF SumFunction
<1>12. SumFunctionOnSet(sizes, DOMAIN parts) \in Nat
  BY <1>5, <1>10, SumType
<1>13. ASSUME stray = <<>>
       PROVE  SumFunctionOnSet(sizes, DOMAIN parts) = SumFunctionOnSet(f, DOMAIN parts)
  <2>1. \A i \in DOMAIN parts: sizes[i] \in Nat /\ f[i] = sizes[i]
    BY <1>3, <1>5, <1>13
  <2>2. QED
    BY <1>10, <2>1, SumSame
<1>14. PartTokens(number, e, parts, stray, array) = FlattenSeq(seqs)
  BY <1>2 DEF PartTokens
<1>15. QED
  BY <1>4, <1>6, <1>9, <1>11, <1>12, <1>13, <1>14

\* A message, whose messages are.
LEMMA MessageHonest ==
    ASSUME NEW type \in TypeNames, NEW m, IsMessage(type, m),
           \A inner \in TypeNames: Depth[inner] < Depth[type] =>
               \A v: IsMessage(inner, v) => Honest(inner, v)
    PROVE  Honest(type, m)
<1> DEFINE PartsOf(e) == Parts(e, m[e.field])
           SizeOf(s) == PartSize(s[1], s[2], PartsOf(s[2]))
<1>1. ASSUME NEW e, IsOf(e, type)
      PROVE  /\ IsPartsOf(e.of, PartsOf(e))
             /\ e.of \in Kinds \/ \A i \in DOMAIN PartsOf(e): Honest(e.of, PartsOf(e)[i])
  <2>1. IsPartsOf(e.of, PartsOf(e))
    BY <1>1, PartsTyped
  <2>2. e.of \in Kinds \/ (e.of \in TypeNames /\ Depth[e.of] < Depth[type])
    BY <1>1, DescriptionsNested
  <2> HIDE DEF PartsOf
  <2>3. e.of \notin Kinds => \A i \in DOMAIN PartsOf(e): IsMessage(e.of, PartsOf(e)[i])
    BY <2>1 DEF IsPartsOf, Typed
  <2>4. QED
    BY <2>1, <2>2, <2>3
<1> HIDE DEF PartsOf
<1>2. PICK g: g = [s \in SizesOf(type) |-> SizeOf(s)]
  OBVIOUS
<1>3. ByteSize(type, m) = SumFunctionOnSet(g, SizesOf(type))
  <2>1. ByteSize(type, m) = SumFunction(g)
    BY <1>2, ByteSizeIs DEF PartsOf
  <2>2. DOMAIN g = SizesOf(type)
    BY <1>2
  <2>3. QED
    BY <2>1, <2>2 DEF SumFunction
<1>4. ASSUME NEW array \in BOOLEAN, NEW stray \in Seq(Tokens)
      PROVE  /\ ByteSize(type, m) \in Nat
             /\ Serialize(type, m, stray, array) \in Seq(Tokens)
             /\ stray = <<>> => Width(Serialize(type, m, stray, array)) = ByteSize(type, m)
  <2>1. PICK w: w = WritesOf(type, array)
    OBVIOUS
  <2>2. /\ WritesFit(w, SizesOf(type))
        /\ \A s \in SizesOf(type): IsOf(s[2], type)
    BY <2>1, TypesFit DEF TypeFits
  <2>3. PICK n \in Nat: n = Len(w) /\ DOMAIN w = 1..n
    BY <2>2 DEF WritesFit
  <2>4. PICK seqs: seqs = [i \in DOMAIN w |->
                              PartTokens(w[i][1], w[i][2], PartsOf(w[i][2]), stray, array)]
    OBVIOUS
  <2>5. PICK f: f = [i \in DOMAIN w |-> SizeOf(Sized(w[i]))]
    OBVIOUS
  <2>6. ASSUME NEW i \in DOMAIN w
        PROVE  /\ f[i] \in Nat /\ seqs[i] \in Seq(Tokens)
               /\ stray = <<>> => Width(seqs[i]) = f[i]
    <3>1. PICK number, e: number = w[i][1] /\ e = w[i][2]
      OBVIOUS
    <3>2. number \in Nat /\ IsOf(e, type)
      <4>1. w[i][1] \in Nat /\ Sized(w[i]) \in SizesOf(type) /\ Sized(w[i])[2] = w[i][2]
        BY <2>2 DEF WritesFit, Sized
      <4>2. QED
        BY <2>2, <3>1, <4>1
    <3>3. /\ PartSize(TagWidth(number), e, PartsOf(e)) \in Nat
          /\ PartTokens(number, e, PartsOf(e), stray, array) \in Seq(Tokens)
          /\ stray = <<>> => Width(PartTokens(number, e, PartsOf(e), stray, array))
                                 = PartSize(TagWidth(number), e, PartsOf(e))
      BY <1>1, <3>2, FieldHonest
    <3>4. f[i] = PartSize(TagWidth(number), e, PartsOf(e))
      BY <2>5, <3>1 DEF Sized, TagWidth
    <3>5. seqs[i] = PartTokens(number, e, PartsOf(e), stray, array)
      BY <2>4, <3>1
    <3>6. QED
      BY <3>3, <3>4, <3>5
  <2>7. DOMAIN seqs = 1..n /\ Len(seqs) = n
    BY <2>3, <2>4
  <2>8. PICK h: h = [i \in DOMAIN w |-> Width(seqs[i])]
    OBVIOUS
  <2>9. /\ FlattenSeq(seqs) \in Seq(Tokens)
        /\ Width(FlattenSeq(seqs)) = SumFunctionOnSet(h, DOMAIN w)
    <3>1. IsTokenized(seqs)
      BY <2>3, <2>6, <2>7 DEF IsTokenized
    <3>2. \A i \in DOMAIN seqs: h[i] = Width(seqs[i])
      BY <2>3, <2>7, <2>8
    <3>3. QED
      BY <2>3, <2>7, <3>1, <3>2, FlattenWidth
  <2>10. IsFiniteSet(DOMAIN w)
    BY <2>3, FS_Interval
  <2>11. SumFunctionOnSet(f, DOMAIN w) = ByteSize(type, m)
    <3>1. PICK S, k: S = DOMAIN w /\ k = [i \in DOMAIN w |-> Sized(w[i])]
      OBVIOUS
    <3>2. {k[i]: i \in S} = SizesOf(type)
      BY <2>2, <3>1 DEF WritesFit
    <3>3. \A i \in S: f[i] \in Nat /\ g[k[i]] = f[i]
      BY <1>2, <2>2, <2>5, <2>6, <3>1 DEF WritesFit
    <3>4. \A i, j \in S: k[i] = k[j] => i = j
      <4>1. \A i \in S: k[i][2] = w[i][2]
        BY <3>1 DEF Sized
      <4>2. QED
        BY <2>2, <3>1, <4>1 DEF WritesFit
    <3>5. IsFiniteSet(S)
      BY <2>10, <3>1
    <3>6. SumFunctionOnSet(f, S) = SumFunctionOnSet(g, {k[i]: i \in S})
      BY <3>3, <3>4, <3>5, SumMapped
    <3>7. QED
      BY <1>3, <3>1, <3>2, <3>6
  <2>12. SumFunctionOnSet(f, DOMAIN w) \in Nat
    BY <2>6, <2>10, SumType
  <2>13. ASSUME stray = <<>>
         PROVE  SumFunctionOnSet(f, DOMAIN w) = SumFunctionOnSet(h, DOMAIN w)
    <3>1. \A i \in DOMAIN w: f[i] \in Nat /\ h[i] = f[i]
      BY <2>6, <2>8, <2>13
    <3>2. QED
      BY <2>10, <3>1, SumSame
  <2>14. Serialize(type, m, stray, array) = FlattenSeq(seqs) \o stray
    <3>1. Serialize(type, m, stray, array) = MessageTokens(w, m, stray, array)
      BY <2>1, SerializeIs
    <3>2. QED
      BY <2>4, <3>1 DEF MessageTokens, PartsOf
  <2>15. /\ FlattenSeq(seqs) \o stray \in Seq(Tokens)
         /\ stray = <<>> => FlattenSeq(seqs) \o stray = FlattenSeq(seqs)
    BY <2>9
  <2>16. QED
    BY <2>9, <2>11, <2>12, <2>13, <2>14, <2>15
<1>5. <<>> \in Seq(Tokens) /\ TRUE \in BOOLEAN
  OBVIOUS
<1>6. QED
  BY <1>4, <1>5 DEF Honest

\* An object of any class is.
THEOREM AllHonest ==
    \A type \in TypeNames: \A m: IsMessage(type, m) => Honest(type, m)
<1> DEFINE N == {n \in Nat: \A type \in TypeNames: Depth[type] <= n =>
                     \A m: IsMessage(type, m) => Honest(type, m)}
<1>1. 0 \in N
  BY TypesAre
<1>2. ASSUME NEW n \in Nat, n \in N
      PROVE  n + 1 \in N
  <2>1. ASSUME NEW type \in TypeNames, Depth[type] <= n + 1, NEW m, IsMessage(type, m)
        PROVE  Honest(type, m)
    <3>1. \A inner \in TypeNames: Depth[inner] < Depth[type] => Depth[inner] <= n
      BY <2>1, TypesAre
    <3>2. \A inner \in TypeNames: Depth[inner] < Depth[type] =>
              \A v: IsMessage(inner, v) => Honest(inner, v)
      BY <1>2, <3>1
    <3>3. QED
      BY <2>1, <3>2, MessageHonest
  <2>2. QED
    BY <2>1
<1> HIDE DEF N
<1>3. Nat \subseteq N
  BY <1>1, <1>2, Induct
<1>4. 5 \in N
  BY <1>3
<1>5. QED
  BY <1>4, TypesAre DEF N

-----------------------------------------------------------------------------
(***************************************************************************)
(* Copies.                                                                 *)
(***************************************************************************)

\* The classes that are held as a message by another hold no message so themselves.
LEMMA FlatAre ==
    \A type \in Flat: type \in Types /\ \A e \in MembersOf(type): e.shape # "message"
<1>1. \A type \in Flat: type \in Types /\ MembersOf(type) = Members[type]
  BY DEF Flat, Types, Members, MembersOf, EntryTypes, Entries
<1>2. \A type \in Flat: \A e \in Members[type]: e.shape # "message"
  BY DEF Flat, Members, TimeMembers, ConfigMapMembers, MetricsArgMembers, MetricsReplyMembers,
         ErrReplyMembers, Value, Repeated, Mapped
<1>3. QED
  BY <1>1, <1>2

\* The default of a kind is of the kind, and a new message is of its class.
LEMMA ZeroIsScalar == \A kind \in Kinds: IsScalar(kind, Zero(kind))
<1>1. \A kind \in TextKinds: Zero(kind) = "" /\ IsScalar(kind, "")
  <2>1. Zero("string") = "" /\ Zero("bytes") = "" /\ Zero("text") = ""
    BY DEF Zero, TextKinds
  <2>2. \A v \in DOMAIN TextLength:
            IsScalar("string", v) /\ IsScalar("bytes", v) /\ IsScalar("text", v)
    BY DEF IsScalar, TextKinds
  <2>3. QED
    BY <2>1, <2>2, TextAssumption DEF TextKinds
<1>2. IsScalar("bool", Zero("bool"))
  BY ZeroIs DEF IsScalar, TextKinds
<1>3. \A v \in Nat: IsScalar("uint32", v) /\ IsScalar("uint64", v)
  BY DEF IsScalar, TextKinds
<1>4. \A v \in Int: \A kind \in {"int32", "int64", "float", "double"}: IsScalar(kind, v)
  BY DEF IsScalar, TextKinds
<1>5. 0 \in Nat /\ 0 \in Int
  OBVIOUS
<1>6. Kinds = TextKinds \cup {"bool", "uint32", "uint64", "int32", "int64", "float", "double"}
  BY DEF Kinds, IntegerKinds
<1>7. QED
  BY <1>1, <1>2, <1>3, <1>4, <1>5, <1>6, ZeroIs, TextAssumption

\* A new object is one of its class.
LEMMA NewClassIs ==
    ASSUME NEW type \in Types
    PROVE  IsMessage(type, NewOf[type])
<1>1. /\ NewFits(NewOf[type], MembersOf(type)) /\ type \in TypeNames
      /\ MembersFit(type, MembersOf(type))
  BY ClassesFit DEF ClassFits, MembersOf
<1>2. ASSUME NEW e \in MembersOf(type)
      PROVE  FieldTyped(type, e, NewOf[type][e.field])
  <2>1. CASE e.shape = "value"
    <3>1. e.of \in Kinds /\ NewOf[type][e.field] = Zero(e.of)
      BY <1>1, <2>1 DEF MembersFit, IsDescription, NewFits
    <3>2. QED
      BY <2>1, <3>1, ZeroIsScalar DEF FieldTyped, IsField, IsInner
  <2>2. CASE e.shape # "value"
    <3>1. NewOf[type][e.field] = <<>> /\ e.shape # "held" /\ e.shape \in Shapes
      BY <1>1, <2>2 DEF MembersFit, IsDescription, NewFits
    <3>2. \A S: <<>> \in Seq(S)
      OBVIOUS
    <3>3. <<>> = [k \in DOMAIN <<>> |-> <<>>[k]] /\ DOMAIN <<>> = {} /\ IsFiniteSet({})
      BY FS_EmptySet
    <3>4. QED
      BY <2>2, <3>1, <3>2, <3>3 DEF FieldTyped, IsField, Shapes
  <2>3. QED
    BY <2>1, <2>2
<1>3. QED
  BY <1>1, <1>2, MessageIs DEF NewFits

\* A new message is of its class, the entry of a map included.
LEMMA NewIs == \A type \in TypeNames: IsMessage(type, New(type))
<1> TAKE type \in TypeNames
<1>1. CASE type \in EntryTypes
  <2>1. PICK v: v = IF Entries[type] \in Kinds THEN Zero(Entries[type]) ELSE NewOf[Entries[type]]
    OBVIOUS
  <2>3. Typed(Entries[type], v)
    BY <1>1, <2>1, ZeroIsScalar, EntriesAre, NewClassIs, TypesAre DEF Typed
  <2>4. New(type) = [key |-> "", value |-> v]
    BY <1>1, <2>1 DEF New
  <2>5. QED
    BY <1>1, <2>3, <2>4, EntryIs, TextAssumption
<1>2. CASE type \notin EntryTypes
  BY <1>2, NewClassIs, TypesAre DEF New
<1>3. QED
  BY <1>1, <1>2

\* The members that MergeFrom merges into a field.
MergesOf(type, f) == {e \in Merges[type]: e.field = f}

\* A field merged into a new message is the field that was merged.
LEMMA FieldCopied ==
    ASSUME NEW type \in Types, NEW e \in MembersOf(type), e.shape # "message",
           NEW from, FieldTyped(type, e, from)
    PROVE  LET mine == NewOf[type][e.field]
           IN  /\ MergedField(LAMBDA of, m, n: m, MergesOf(type, e.field), mine, from) = from
               /\ MergedField(Merge1, MergesOf(type, e.field), mine, from) = from
<1>1. /\ NewFits(NewOf[type], MembersOf(type)) /\ type \in TypeNames
      /\ MembersFit(type, MembersOf(type)) /\ Merges[type] = MembersOf(type)
  BY ClassesFit DEF ClassFits, MembersOf
<1>2. PICK mine: mine = NewOf[type][e.field]
  OBVIOUS
<1>3. PICK merges: merges = MergesOf(type, e.field)
  OBVIOUS
<1> SUFFICES /\ MergedField(LAMBDA of, m, n: m, merges, mine, from) = from
             /\ MergedField(Merge1, merges, mine, from) = from
  BY <1>2, <1>3
<1>4. PICK c: c = CHOOSE x \in merges: TRUE
  OBVIOUS
<1>5. e \in merges /\ \A x \in merges: x \in MembersOf(type) /\ x.field = e.field
  BY <1>1, <1>3 DEF MergesOf
<1>6. c \in merges
  BY <1>4, <1>5
<1>7. c = e \/ (c.shape = "choice" /\ e.shape = "choice")
  BY <1>1, <1>5, <1>6 DEF MembersFit, Apart
<1>8. mine = (IF e.shape = "value" THEN Zero(e.of) ELSE <<>>) /\ e.shape # "held"
      /\ e.shape \in Shapes
  BY <1>1, <1>2 DEF NewFits, MembersFit, IsDescription
<1>9. CASE e.shape = "value"
  <2>1. c.shape = "value" /\ from = IF from = Zero(c.of) THEN mine ELSE from
    BY <1>7, <1>8, <1>9
  <2>2. QED
    BY <1>4, <2>1 DEF MergedField
<1>10. CASE e.shape = "repeated"
  <2>1. from \in Seq({from[i]: i \in DOMAIN from}) /\ mine = <<>>
    BY <1>8, <1>10 DEF FieldTyped, IsField
  <2>2. mine \o from = from
    BY <2>1
  <2>3. c.shape = "repeated"
    BY <1>7, <1>10
  <2>4. QED
    BY <1>4, <2>2, <2>3 DEF MergedField
<1>11. CASE e.shape = "mapped"
  <2>1. from = [k \in DOMAIN from |-> from[k]] /\ mine = <<>> /\ DOMAIN mine = {}
    BY <1>8, <1>11 DEF FieldTyped, IsField
  <2>2. Inserted(from, mine) = from
    BY <2>1 DEF Inserted
  <2>3. c.shape = "mapped"
    BY <1>7, <1>11
  <2>4. QED
    BY <1>4, <2>2, <2>3 DEF MergedField
<1>12. CASE e.shape = "choice"
  <2>1. c.shape = "choice" /\ mine = <<>>
    BY <1>7, <1>8, <1>12
  <2>2. from = <<>> \/ \E x \in merges: x.choice \in DOMAIN from
    BY <1>1, <1>3, <1>12 DEF FieldTyped, IsField, MergesOf
  <2>3. QED
    BY <1>4, <2>1, <2>2 DEF MergedField
<1>13. QED
  BY <1>8, <1>9, <1>10, <1>11, <1>12 DEF Shapes

\* Merging a message without messages in it into a new one.
LEMMA FlatCopied ==
    ASSUME NEW type \in Flat, NEW n, IsMessage(type, n)
    PROVE  Merge1(type, NewOf[type], n) = n
<1>1. /\ type \in Types /\ type \in TypeNames
      /\ NewFits(NewOf[type], MembersOf(type)) /\ Merges[type] = MembersOf(type)
      /\ \A e \in MembersOf(type): e.shape # "message"
  BY FlatAre, ClassesFit DEF ClassFits, MembersOf
<1>2. PICK fields: fields = {e.field: e \in MembersOf(type)}
  OBVIOUS
<1>3. DOMAIN NewOf[type] = fields
  BY <1>1, <1>2 DEF NewFits
<1>4. n = [f \in fields |-> n[f]] /\ \A e \in MembersOf(type): FieldTyped(type, e, n[e.field])
  BY <1>1, <1>2, MessageIs
<1>5. ASSUME NEW f \in fields
      PROVE  /\ MergesOf(type, f) # {}
             /\ MergedField(LAMBDA of, x, y: x, MergesOf(type, f), NewOf[type][f], n[f]) = n[f]
  <2>1. PICK e \in MembersOf(type): e.field = f
    BY <1>2
  <2>2. e \in MergesOf(type, f)
    BY <1>1, <2>1 DEF MergesOf
  <2>3. PICK from: from = n[e.field]
    OBVIOUS
  <2>4. MergedField(LAMBDA of, x, y: x, MergesOf(type, e.field), NewOf[type][e.field], from) = from
    BY <1>1, <1>4, <2>3, FieldCopied
  <2>5. QED
    BY <2>1, <2>2, <2>3, <2>4
<1>6. Merge1(type, NewOf[type], n) = [f \in fields |-> n[f]]
  BY <1>3, <1>5 DEF Merge1, MergeBy, MergesOf
<1>7. QED
  BY <1>4, <1>6

\* What is copied to a message is what it then is, whatever it was.
THEOREM CopyIs ==
    ASSUME NEW type \in Types, NEW m, IsMessage(type, m), NEW n, IsMessage(type, n)
    PROVE  CopyFrom(type, m, n) = n
<1>1. /\ type \in TypeNames /\ MembersFit(type, MembersOf(type))
      /\ NewFits(NewOf[type], MembersOf(type)) /\ Merges[type] = MembersOf(type)
      /\ Cleared[type] = {e.field: e \in MembersOf(type)}
  BY ClassesFit DEF ClassFits, MembersOf
<1>2. PICK fields: fields = {e.field: e \in MembersOf(type)}
  OBVIOUS
<1>3. DOMAIN NewOf[type] = fields /\ NewOf[type] = [f \in fields |-> NewOf[type][f]]
      /\ Cleared[type] = fields
  BY <1>1, <1>2 DEF NewFits
<1>4. n = [f \in fields |-> n[f]] /\ \A e \in MembersOf(type): FieldTyped(type, e, n[e.field])
  BY <1>1, <1>2, MessageIs
<1>5. m = [f \in fields |-> m[f]]
  BY <1>1, <1>2, MessageIs
<1>6. Clear(type, m) = NewOf[type]
  <2>1. DOMAIN m = fields
    BY <1>5
  <2>2. QED
    BY <1>3, <2>1 DEF Clear
<1>7. ASSUME NEW f \in fields
      PROVE  /\ MergesOf(type, f) # {}
             /\ MergedField(Merge1, MergesOf(type, f), NewOf[type][f], n[f]) = n[f]
  <2>1. PICK e \in MembersOf(type): e.field = f
    BY <1>2
  <2>2. e \in MergesOf(type, f)
    BY <1>1, <2>1 DEF MergesOf
  <2>3. PICK from: from = n[e.field]
    OBVIOUS
  <2>4. FieldTyped(type, e, from)
    BY <1>4, <2>3
  <2>5. CASE e.shape # "message"
    BY <2>1, <2>2, <2>3, <2>4, <2>5, FieldCopied
  <2>6. CASE e.shape = "message"
    <3>1. \A x \in MergesOf(type, f): x = e
      BY <1>1, <2>1, <2>6 DEF MergesOf, MembersFit, Apart
    <3>2. (CHOOSE x \in MergesOf(type, f): TRUE) = e
      BY <2>2, <3>1
    <3>3. e.of \in Flat /\ NewOf[type][f] = <<>>
      BY <1>1, <2>1, <2>6 DEF MembersFit, IsDescription, NewFits
    <3>4. from = <<>> \/ (from = <<from[1]>> /\ IsMessage(e.of, from[1]))
      BY <2>4, <2>6 DEF FieldTyped, IsField
    <3>5. CASE from = <<>>
      BY <2>1, <2>2, <2>3, <2>6, <3>2, <3>3, <3>5 DEF MergedField
    <3>6. CASE from # <<>>
      <4>1. PICK inner: inner = from[1]
        OBVIOUS
      <4>2. from = <<inner>> /\ IsMessage(e.of, inner)
        BY <3>4, <3>6, <4>1
      <4>3. Merge1(e.of, NewOf[e.of], inner) = inner
        BY <3>3, <4>2, FlatCopied
      <4>4. MergedField(Merge1, MergesOf(type, f), <<>>, from) = <<inner>>
        BY <2>6, <3>2, <3>6, <4>1, <4>3 DEF MergedField
      <4>5. QED
        BY <2>1, <2>2, <2>3, <3>3, <4>2, <4>4
    <3>7. QED
      BY <3>5, <3>6
  <2>7. QED
    BY <2>5, <2>6
<1>8. MergeFrom(type, NewOf[type], n) = [f \in fields |-> n[f]]
  BY <1>3, <1>7 DEF MergeFrom, MergeBy, MergesOf
<1>9. QED
  BY <1>4, <1>6, <1>8 DEF CopyFrom

-----------------------------------------------------------------------------
(***************************************************************************)
(* What the parser stores.                                                 *)
(***************************************************************************)

\* The elements of a sequence: a sequence is one over its own elements.
Elements(s) == {s[i]: i \in DOMAIN s}

\* A sequence over anything is one over its own elements.
LEMMA OverElements ==
    ASSUME NEW S, NEW s \in Seq(S)
    PROVE  s \in Seq(Elements(s))
<1>1. \A i \in 1..Len(s): s[i] \in Elements(s)
  BY DEF Elements
<1>2. s \in [1..Len(s) -> Elements(s)]
  BY <1>1
<1>3. QED
  BY <1>2

\* A sequence with an element more.
LEMMA AppendKeepsSequence ==
    ASSUME NEW s, s \in Seq(Elements(s)), NEW x
    PROVE  /\ Append(s, x) \in Seq(Elements(Append(s, x))) /\ Len(s) \in Nat
           /\ Len(Append(s, x)) = Len(s) + 1 /\ Append(s, x)[Len(s) + 1] = x
           /\ \A i \in 1..Len(s): Append(s, x)[i] = s[i]
<1> DEFINE S == Elements(s) \cup {x}
<1>1. s \in Seq(S) /\ x \in S
  OBVIOUS
<1> HIDE DEF S
<1>2. /\ Append(s, x) \in Seq(S) /\ Len(s) \in Nat
      /\ Len(Append(s, x)) = Len(s) + 1 /\ Append(s, x)[Len(s) + 1] = x
      /\ \A i \in 1..Len(s): Append(s, x)[i] = s[i]
  BY <1>1
<1>3. QED
  BY <1>2, OverElements

\* What an entry is made of.
LEMMA EntryHas ==
    ASSUME NEW type \in EntryTypes, NEW v, IsMessage(type, v)
    PROVE  v.key \in DOMAIN TextLength /\ Typed(Entries[type], v.value)
<1> DEFINE key == Held("key", "text")  held == Held("value", Entries[type])
<1>1. /\ key.field = "key" /\ key.of = "text" /\ key.shape = "held"
      /\ held.field = "value" /\ held.of = Entries[type] /\ held.shape = "held"
  BY DEF Held
<1>2. MembersOf(type) = {key, held} /\ type \in TypeNames
  BY EntryMembers, TypesAre
<1> HIDE DEF key, held
<1>3. FieldTyped(type, key, v.key) /\ FieldTyped(type, held, v.value)
  BY <1>1, <1>2, MessageIs
<1>4. Typed("text", v.key) /\ Typed(Entries[type], v.value)
  BY <1>1, <1>3 DEF FieldTyped, IsField, IsInner, Typed
<1>5. QED
  BY <1>4 DEF Typed, IsScalar, Kinds, TextKinds

\* What a map is after one more entry has been put into it.
LEMMA InsertedIs ==
    ASSUME NEW map, IsFiniteSet(DOMAIN map), NEW k, NEW x
    PROVE  LET new == Inserted(Only(k, x), map)
           IN  /\ new = [j \in DOMAIN new |-> new[j]] /\ IsFiniteSet(DOMAIN new)
               /\ \A j \in DOMAIN new: \/ j = k /\ new[j] = x
                                       \/ j \in DOMAIN map /\ new[j] = map[j]
<1>1. DOMAIN Only(k, x) = {k} /\ Only(k, x)[k] = x
  BY DEF Only
<1>2. IsFiniteSet({k} \cup DOMAIN map)
  BY FS_Singleton, FS_Union
<1>3. QED
  BY <1>1, <1>2 DEF Inserted

\* What a field is after a value of its type has been stored in it.
Stored(e, old, v) ==
    CASE e.shape \in {"value", "held"} -> v
      [] e.shape = "choice"   -> Only(e.choice, v)
      [] e.shape = "message"  -> <<v>>
      [] e.shape = "repeated" -> Append(old, v)
      [] e.shape = "mapped"   -> Inserted(Only(v.key, v.value), old)

\* A field that a value is stored in still has a value of the field.
LEMMA StoredTyped ==
    ASSUME NEW type \in TypeNames, NEW f \in MembersOf(type), NEW old, FieldTyped(type, f, old),
           NEW v, Typed(f.of, v)
    PROVE  FieldTyped(type, f, Stored(f, old, v))
<1>1. IsDescription(f)
  BY MembersNested
<1>2. CASE f.shape \in {"value", "held"}
  BY <1>2 DEF FieldTyped, IsField, IsInner, Typed, Stored
<1>3. CASE f.shape = "choice"
  <2>1. PICK new: new = Only(f.choice, v)
    OBVIOUS
  <2>2. DOMAIN new = {f.choice} /\ new[f.choice] = v /\ IsScalar(f.of, v)
    BY <1>1, <1>3, <2>1 DEF Only, Typed, IsDescription
  <2>3. FieldTyped(type, f, new)
    BY <1>3, <2>1, <2>2 DEF FieldTyped, IsField
  <2>4. QED
    BY <1>3, <2>1, <2>3 DEF Stored
<1>4. CASE f.shape = "message"
  <2>1. IsMessage(f.of, v)
    BY <1>1, <1>4, TypesAre DEF IsDescription, Typed
  <2>2. FieldTyped(type, f, <<v>>)
    BY <1>4, <2>1 DEF FieldTyped, IsField
  <2>3. QED
    BY <1>4, <2>2 DEF Stored
<1>5. CASE f.shape = "repeated"
  <2>1. old \in Seq(Elements(old)) /\ \A i \in DOMAIN old: Typed(f.of, old[i])
    BY <1>5 DEF FieldTyped, IsField, IsInner, Typed, Elements
  <2>2. PICK new: new = Append(old, v)
    OBVIOUS
  <2>3. /\ new \in Seq(Elements(new)) /\ Len(old) \in Nat /\ Len(new) = Len(old) + 1
        /\ new[Len(old) + 1] = v /\ \A i \in 1..Len(old): new[i] = old[i]
    BY <2>1, <2>2, AppendKeepsSequence
  <2>4. \A i \in DOMAIN new: Typed(f.of, new[i])
    <3>1. DOMAIN new = 1..Len(old) + 1 /\ DOMAIN old = 1..Len(old)
      BY <2>1, <2>3
    <3>2. QED
      BY <2>1, <2>3, <3>1
  <2>5. FieldTyped(type, f, new)
    BY <1>5, <2>3, <2>4 DEF FieldTyped, IsField, IsInner, Typed, Elements
  <2>6. QED
    BY <1>5, <2>2, <2>5 DEF Stored
<1>6. CASE f.shape = "mapped"
  <2>1. /\ IsFiniteSet(DOMAIN old)
        /\ \A k \in DOMAIN old: k \in DOMAIN TextLength /\ Typed(Entries[f.of], old[k])
    BY <1>6 DEF FieldTyped, IsField, IsInner, Typed
  <2>2. v.key \in DOMAIN TextLength /\ Typed(Entries[f.of], v.value)
    BY <1>1, <1>6, TypesAre, EntryHas DEF IsDescription, Typed
  <2>3. PICK new: new = Inserted(Only(v.key, v.value), old)
    OBVIOUS
  <2>4. PICK key, value: key = v.key /\ value = v.value
    OBVIOUS
  <2>5. /\ new = [j \in DOMAIN new |-> new[j]] /\ IsFiniteSet(DOMAIN new)
        /\ \A j \in DOMAIN new:
              (j = key /\ new[j] = value) \/ (j \in DOMAIN old /\ new[j] = old[j])
    BY <2>1, <2>3, <2>4, InsertedIs
  <2>6. \A j \in DOMAIN new: j \in DOMAIN TextLength /\ Typed(Entries[f.of], new[j])
    BY <2>1, <2>2, <2>4, <2>5
  <2>7. FieldTyped(type, f, new)
    BY <1>6, <2>5, <2>6 DEF FieldTyped, IsField, IsInner, Typed
  <2>8. QED
    BY <1>6, <2>3, <2>7 DEF Stored
<1>7. QED
  BY <1>1, <1>2, <1>3, <1>4, <1>5, <1>6 DEF IsDescription, Shapes

\* A message stays one of its class when a field is read into it.
LEMMA StoreKeepsMessage ==
    ASSUME NEW type \in TypeNames, NEW m, IsMessage(type, m), NEW e, IsOf(e, type),
           NEW v, Typed(e.of, v)
    PROVE  IsMessage(type, Store(m, e, v))
<1>1. PICK f \in MembersOf(type): Alike(e, f)
  BY DEF IsOf
<1>2. PICK old: old = m[f.field]
  OBVIOUS
<1>3. /\ m = [g \in {x.field: x \in MembersOf(type)} |-> m[g]]
      /\ \A x \in MembersOf(type): FieldTyped(type, x, m[x.field])
  BY MessageIs
<1>4. Typed(f.of, v)
  BY <1>1, KindsAlike DEF Alike
<1>5. PICK new: new = Stored(f, old, v)
  OBVIOUS
<1>6. FieldTyped(type, f, new)
  BY <1>2, <1>3, <1>4, <1>5, StoredTyped
<1>7. Store(m, e, v) = [m EXCEPT ![f.field] = new]
  <2>1. Stored(e, old, v) = Stored(f, old, v)
    BY <1>1, MembersNested DEF Alike, Stored, IsDescription, Shapes
  <2>2. e.field = f.field
    BY <1>1 DEF Alike
  <2>3. Store(m, e, v) = [m EXCEPT ![e.field] = Stored(e, m[e.field], v)]
    BY DEF Store, Stored
  <2>4. QED
    BY <1>2, <1>5, <2>1, <2>2, <2>3
<1>8. PICK n: n = Store(m, e, v)
  OBVIOUS
<1>9. /\ n = [g \in {x.field: x \in MembersOf(type)} |-> n[g]] /\ n[f.field] = new
      /\ \A x \in MembersOf(type): x.field # f.field => n[x.field] = m[x.field]
  BY <1>3, <1>7, <1>8
<1>10. ASSUME NEW x \in MembersOf(type)
       PROVE  FieldTyped(type, x, n[x.field])
  <2>1. CASE x.field # f.field
    BY <1>3, <1>9, <2>1
  <2>2. CASE x = f
    BY <1>6, <1>9, <2>2
  <2>3. CASE x.field = f.field /\ x # f
    <3>1. x.shape = "choice" /\ f.shape = "choice"
      BY <2>3, TypesFit DEF TypeFits, MembersFit, Apart
    <3>2. FieldTyped(type, x, new)
      BY <1>6, <2>3, <3>1 DEF FieldTyped, IsField
    <3>3. QED
      BY <1>9, <2>3, <3>2
  <2>4. QED
    BY <2>1, <2>2, <2>3
<1>11. QED
  BY <1>8, <1>9, <1>10, MessageIs

\* The message that a field is parsed into is one of its class.
LEMMA OpenedIs ==
    ASSUME NEW type \in TypeNames, NEW m, IsMessage(type, m), NEW e, IsOf(e, type),
           e.of \notin Kinds
    PROVE  e.of \in TypeNames /\ IsMessage(e.of, Opened(m, e))
<1>1. PICK f \in MembersOf(type): Alike(e, f)
  BY DEF IsOf
<1>2. e.of = f.of /\ e.shape = f.shape /\ e.field = f.field /\ e.of \in TypeNames
  BY <1>1, DescriptionsNested, TypesAre DEF Alike
<1>3. FieldTyped(type, f, m[f.field])
  BY MessageIs
<1>4. CASE e.shape = "message" /\ m[e.field] # <<>>
  <2>1. IsMessage(f.of, m[f.field][1])
    BY <1>2, <1>3, <1>4 DEF FieldTyped, IsField
  <2>2. QED
    BY <1>2, <1>4, <2>1 DEF Opened
<1>5. CASE ~(e.shape = "message" /\ m[e.field] # <<>>)
  BY <1>2, <1>5, NewIs DEF Opened
<1>6. QED
  BY <1>4, <1>5

\* What a number is read as is of its kind.
LEMMA DecodeIs ==
    ASSUME NEW kind \in Kinds \ TextKinds, NEW n \in Int
    PROVE  Typed(kind, Decode(kind, n))
<1>1. kind \in {"bool", "uint32", "uint64", "int32", "int64", "float", "double"}
  BY DEF Kinds, IntegerKinds
<1>2. CASE kind = "bool"
  <2>1. Decode("bool", n) \in BOOLEAN
    BY DEF Decode
  <2>2. QED
    BY <1>2, <2>1 DEF Typed, IsScalar, TextKinds
<1>3. ASSUME NEW v \in Nat
      PROVE  IsScalar("uint32", v) /\ IsScalar("uint64", v)
  BY DEF IsScalar, TextKinds
<1>4. CASE kind = "uint32"
  <2>1. Decode("uint32", n) = IF n < 0 THEN n % Word ELSE n
    BY DEF Decode
  <2>2. (IF n < 0 THEN n % Word ELSE n) \in Nat
    BY DEF Word
  <2>3. QED
    BY <1>3, <1>4, <2>1, <2>2 DEF Typed
<1>5. CASE kind = "uint64"
  <2>1. Decode("uint64", n) = IF n < 0 THEN n % (Word * Word) ELSE n
    BY DEF Decode
  <2>2. (IF n < 0 THEN n % (Word * Word) ELSE n) \in Nat
    <3>1. Word \in Nat /\ Word > 0
      BY DEF Word
    <3>2. Word * Word \in Nat /\ Word * Word > 0
      BY <3>1
    <3>3. QED
      BY <3>2
  <2>3. QED
    BY <1>3, <1>5, <2>1, <2>2 DEF Typed
<1>6. CASE kind \in {"int32", "int64", "float", "double"}
  <2>1. Decode(kind, n) = n
    BY <1>6 DEF Decode
  <2>2. \A v \in Int: /\ IsScalar("int32", v) /\ IsScalar("int64", v)
                      /\ IsScalar("float", v) /\ IsScalar("double", v)
    BY DEF IsScalar, TextKinds
  <2>3. QED
    BY <1>6, <2>1, <2>2 DEF Typed
<1>7. QED
  BY <1>1, <1>2, <1>4, <1>5, <1>6

=============================================================================
