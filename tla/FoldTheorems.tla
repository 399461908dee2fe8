----------------------------- MODULE FoldTheorems -----------------------------
(***************************************************************************)
(* What the proofs need to know of the operators that fold a set or a      *)
(* sequence.  Each is a function defined by recursion, of which first its  *)
(* existence has to be shown; all proofs go by a least counterexample.     *)
(***************************************************************************)
EXTENDS Integers, Sequences, FiniteSets, SequencesExt, FiniteSetTheorems,
        WellFoundedInduction, TLAPS

\* A set of numbers that is not empty has a least one.
LEMMA LeastNumber ==
    ASSUME NEW T, T \subseteq Nat, T # {}
    PROVE  \E n \in T : \A m \in T : n <= m
  <1>1. PICK n \in T : \A m \in T : ~(<<m, n>> \in OpToRel(<, Nat))
    BY NatLessThanWellFounded, WFMin
  <1>2. n \in Nat /\ \A m \in T : ~(m < n)
    BY <1>1 DEF OpToRel
  <1>3. \A m \in T : n <= m
    BY <1>2
  <1>4. QED
    BY <1>3

\* Of subsets of a finite set, one contains no other.
LEMMA LeastSubset ==
    ASSUME NEW S, IsFiniteSet(S), NEW T, T \subseteq SUBSET S, T # {}
    PROVE  \E s \in T : \A t \in T : t \subseteq s => t = s
  <1>1. FiniteSubsetsOf(S) = SUBSET S
    BY FS_FiniteSubsetsOfFinite
  <1>2. IsWellFoundedOn(StrictSubsetOrdering(S), SUBSET S)
    BY <1>1, FS_StrictSubsetOrderingWellFounded
  <1>3. PICK s \in T : \A t \in T : ~(<<t, s>> \in StrictSubsetOrdering(S))
    BY <1>2, WFMin
  <1>4. \A t \in T : t \subseteq s => t = s
    BY <1>3 DEF StrictSubsetOrdering
  <1>5. QED
    BY <1>4

-----------------------------------------------------------------------------
(* Sums.                                                                   *)

\* The recursion of SumFunctionOnSet.
Some(s) == CHOOSE x \in s : TRUE
IsSum(h, f, S) ==
    h = [s \in SUBSET S |-> IF s = {} THEN 0 ELSE f[Some(s)] + h[s \ {Some(s)}]]

LEMMA SumAt ==
    ASSUME NEW h, NEW f, NEW S, IsSum(h, f, S)
    PROVE  /\ h[{}] = 0
           /\ \A s \in SUBSET S : s # {} => h[s] = f[Some(s)] + h[s \ {Some(s)}]
  <1> DEFINE step(s) == IF s = {} THEN 0 ELSE f[Some(s)] + h[s \ {Some(s)}]
  <1>1. h = [s \in SUBSET S |-> step(s)]
    BY DEF IsSum
  <1> HIDE DEF step
  <1>2. \A s \in SUBSET S : h[s] = step(s)
    BY <1>1
  <1>3. QED
    BY <1>2 DEF step

LEMMA SumExists ==
    ASSUME NEW f, NEW S, IsFiniteSet(S) PROVE \E h : IsSum(h, f, S)
  <1> DEFINE SumsTo(h, n) ==
        \A s \in SUBSET S : Cardinality(s) <= n =>
            h[s] = IF s = {} THEN 0 ELSE f[Some(s)] + h[s \ {Some(s)}]
      Bad == {n \in Nat : ~\E h : SumsTo(h, n)}
  <1>1. \A s \in SUBSET S : /\ IsFiniteSet(s) /\ Cardinality(s) \in Nat
                            /\ Cardinality(s) <= Cardinality(S)
                            /\ Cardinality(s) = 0 <=> s = {}
    BY FS_Subset, FS_CardinalityType, FS_EmptySet
  <1>2. \A s \in SUBSET S : s # {} =>
            /\ Some(s) \in s /\ s \ {Some(s)} \in SUBSET S
            /\ Cardinality(s \ {Some(s)}) = Cardinality(s) - 1
    <2>1. ASSUME NEW s \in SUBSET S, s # {}
          PROVE  Some(s) \in s /\ Cardinality(s \ {Some(s)}) = Cardinality(s) - 1
      <3>1. Some(s) \in s
        BY <2>1 DEF Some
      <3>2. QED
        BY <1>1, <3>1, FS_RemoveElement
    <2>2. QED
      BY <2>1
  <1>3. Bad = {}
    <2>1. SUFFICES ASSUME Bad # {} PROVE FALSE
      OBVIOUS
    <2>2. PICK n \in Bad : \A m \in Bad : n <= m
      <3> HIDE DEF Bad
      <3> QED
        BY <2>1, LeastNumber DEF Bad
    <2>3. n \in Nat /\ ~\E h : SumsTo(h, n)
      BY <2>2
    <2>4. CASE n = 0
      <3>1. SumsTo([s \in SUBSET S |-> 0], 0)
        BY <1>1
      <3>2. QED
        BY <2>3, <2>4, <3>1
    <2>5. CASE n # 0
      <3>1. n - 1 \in Nat
        BY <2>3, <2>5
      <3>2. n - 1 \notin Bad
        <4> HIDE DEF Bad
        <4> QED
          BY <2>2, <2>3, <3>1
      <3>3. PICK h : SumsTo(h, n - 1)
        BY <3>1, <3>2
      <3> DEFINE g == [s \in SUBSET S |-> IF Cardinality(s) <= n - 1 THEN h[s]
                                          ELSE f[Some(s)] + h[s \ {Some(s)}]]
      <3>4. ASSUME NEW s \in SUBSET S, Cardinality(s) <= n
            PROVE  g[s] = IF s = {} THEN 0 ELSE f[Some(s)] + g[s \ {Some(s)}]
        <4>1. CASE s = {}
          <5>1. Cardinality(s) <= n - 1
            BY <1>1, <3>1, <4>1
          <5>2. g[s] = h[s] /\ h[s] = 0
            BY <3>3, <4>1, <5>1
          <5>3. QED
            BY <4>1, <5>2
        <4>2. CASE s # {}
          <5>1. PICK t \in SUBSET S : t = s \ {Some(s)}
            BY <1>2, <4>2
          <5>2. Cardinality(t) <= n - 1
            BY <1>1, <1>2, <2>3, <3>4, <4>2, <5>1
          <5>3. g[t] = h[t]
            BY <5>2
          <5>4. g[s] = f[Some(s)] + h[t]
            BY <3>3, <4>2, <5>1
          <5>5. QED
            BY <4>2, <5>1, <5>3, <5>4
        <4>3. QED
          BY <4>1, <4>2
      <3>5. SumsTo(g, n)
        BY <3>4
      <3>6. QED
        BY <2>3, <3>5
    <2>6. QED
      BY <2>4, <2>5
  <1>4. PICK h : SumsTo(h, Cardinality(S))
    BY <1>1, <1>3, FS_CardinalityType
  <1> DEFINE g == [s \in SUBSET S |-> h[s]]
  <1>5. \A s \in SUBSET S : g[s] = IF s = {} THEN 0 ELSE f[Some(s)] + g[s \ {Some(s)}]
    BY <1>1, <1>2, <1>4
  <1>6. IsSum(g, f, S)
    BY <1>5 DEF IsSum
  <1>7. QED
    BY <1>6

LEMMA SumRec ==
    ASSUME NEW f, NEW S, IsFiniteSet(S)
    PROVE  \E h : IsSum(h, f, S) /\ SumFunctionOnSet(f, S) = h[S]
  <1> DEFINE g == CHOOSE h : IsSum(h, f, S)
  <1>1. IsSum(g, f, S)
    BY SumExists
  <1>2. SumFunctionOnSet(f, S) = g[S]
    BY DEF SumFunctionOnSet, FoldFunctionOnSet, MapThenFoldSet, IsSum, Some
  <1>3. QED
    BY <1>1, <1>2

\* Two such functions agree where both are defined.
LEMMA SumAgrees ==
    ASSUME NEW g, NEW h, NEW e, NEW f, NEW S, NEW T, IsFiniteSet(T), T \subseteq S,
           IsSum(h, f, S), IsSum(g, e, T), \A x \in T : e[x] = f[x]
    PROVE  g[T] = h[T]
  <1> DEFINE Bad == {s \in SUBSET T : g[s] # h[s]}
  <1>1. Bad = {}
    <2>1. SUFFICES ASSUME Bad # {} PROVE FALSE
      OBVIOUS
    <2>2. PICK s \in Bad : \A t \in Bad : t \subseteq s => t = s
      <3>1. Bad \subseteq SUBSET T
        OBVIOUS
      <3> HIDE DEF Bad
      <3> QED
        BY <2>1, <3>1, LeastSubset
    <2>3. s \in SUBSET T /\ s \in SUBSET S /\ g[s] # h[s]
      BY <2>2
    <2>4. s # {}
      BY <2>3, SumAt
    <2>5. /\ g[s] = e[Some(s)] + g[s \ {Some(s)}]
          /\ h[s] = f[Some(s)] + h[s \ {Some(s)}]
      BY <2>3, <2>4, SumAt
    <2>6. Some(s) \in s /\ e[Some(s)] = f[Some(s)]
      BY <2>3, <2>4 DEF Some
    <2>7. s \ {Some(s)} \notin Bad
      <3> HIDE DEF Bad
      <3> QED
        BY <2>2, <2>6
    <2>8. g[s \ {Some(s)}] = h[s \ {Some(s)}]
      BY <2>3, <2>7
    <2>9. QED
      BY <2>3, <2>5, <2>6, <2>8
  <1>2. QED
    BY <1>1

LEMMA SumEmpty == ASSUME NEW f PROVE SumFunctionOnSet(f, {}) = 0
  BY SumRec, SumAt, FS_EmptySet

\* Equal values, equal sums.
LEMMA SumSame ==
    ASSUME NEW e, NEW f, NEW S, IsFiniteSet(S), \A x \in S : e[x] = f[x]
    PROVE  SumFunctionOnSet(e, S) = SumFunctionOnSet(f, S)
  <1>1. PICK g : IsSum(g, e, S) /\ SumFunctionOnSet(e, S) = g[S]
    BY SumRec
  <1>2. PICK h : IsSum(h, f, S) /\ SumFunctionOnSet(f, S) = h[S]
    BY SumRec
  <1>3. QED
    BY <1>1, <1>2, SumAgrees

LEMMA SumChosen ==
    ASSUME NEW f, NEW S, IsFiniteSet(S), S # {}
    PROVE  SumFunctionOnSet(f, S) = f[Some(S)] + SumFunctionOnSet(f, S \ {Some(S)})
  <1>1. PICK T \in SUBSET S : T = S \ {Some(S)}
    OBVIOUS
  <1>2. IsFiniteSet(T)
    BY FS_Subset
  <1>3. PICK h : IsSum(h, f, S) /\ SumFunctionOnSet(f, S) = h[S]
    BY SumRec
  <1>4. PICK g : IsSum(g, f, T) /\ SumFunctionOnSet(f, T) = g[T]
    BY <1>2, SumRec
  <1>5. g[T] = h[T]
    BY <1>2, <1>3, <1>4, SumAgrees
  <1>6. h[S] = f[Some(S)] + h[S \ {Some(S)}]
    BY <1>3, SumAt
  <1>7. QED
    BY <1>1, <1>3, <1>4, <1>5, <1>6

\* A sum of natural numbers is one, and each of its terms can be taken out.
LEMMA SumRemove ==
    ASSUME NEW f, NEW S, IsFiniteSet(S), \A x \in S : f[x] \in Nat
    PROVE  /\ SumFunctionOnSet(f, S) \in Nat
           /\ \A y \in S : SumFunctionOnSet(f, S) = f[y] + SumFunctionOnSet(f, S \ {y})
  <1> DEFINE Good(s) ==
        /\ SumFunctionOnSet(f, s) \in Nat
        /\ \A y \in s : SumFunctionOnSet(f, s) = f[y] + SumFunctionOnSet(f, s \ {y})
      Bad == {s \in SUBSET S : ~Good(s)}
  <1>1. SUFFICES ASSUME Bad # {} PROVE FALSE
    OBVIOUS
  <1>2. PICK s \in Bad : \A t \in Bad : t \subseteq s => t = s
    <2>1. Bad \subseteq SUBSET S
      OBVIOUS
    <2> HIDE DEF Bad
    <2> QED
      BY <1>1, <2>1, LeastSubset
  <1>3. s \in SUBSET S /\ ~Good(s)
    BY <1>2
  <1>4. IsFiniteSet(s)
    BY <1>3, FS_Subset
  <1>5. CASE s = {}
    BY <1>3, <1>5, SumEmpty
  <1>6. CASE s # {}
    <2>1. ASSUME NEW t \in SUBSET s, t # s PROVE Good(t)
      <3>1. t \notin Bad
        <4> HIDE DEF Bad
        <4> QED
          BY <1>2, <2>1
      <3>2. QED
        BY <1>3, <3>1
    <2>2. PICK x \in s : x = Some(s)
      BY <1>6 DEF Some
    <2>3. SumFunctionOnSet(f, s) = f[x] + SumFunctionOnSet(f, s \ {x})
      BY <1>4, <1>6, <2>2, SumChosen
    <2>4. f[x] \in Nat /\ SumFunctionOnSet(f, s \ {x}) \in Nat
      <3>1. Good(s \ {x})
        BY <2>1
      <3>2. QED
        BY <1>3, <3>1
    <2>5. ASSUME NEW y \in s, y # x
          PROVE  SumFunctionOnSet(f, s) = f[y] + SumFunctionOnSet(f, s \ {y})
      <3>1. PICK rest \in SUBSET s : rest = s \ {x, y}
        OBVIOUS
      <3>2. /\ y \in s \ {x} /\ (s \ {x}) \ {y} = rest /\ s \ {x} # s
            /\ x \in s \ {y} /\ (s \ {y}) \ {x} = rest /\ s \ {y} # s
            /\ rest # s
        BY <2>5, <3>1
      <3>3. Good(s \ {x}) /\ Good(s \ {y}) /\ Good(rest)
        BY <2>1, <3>2
      <3>4. /\ SumFunctionOnSet(f, s \ {x}) = f[y] + SumFunctionOnSet(f, rest)
            /\ SumFunctionOnSet(f, s \ {y}) = f[x] + SumFunctionOnSet(f, rest)
            /\ SumFunctionOnSet(f, rest) \in Nat
        BY <3>2, <3>3
      <3>5. f[x] \in Nat /\ f[y] \in Nat
        BY <1>3
      <3>6. QED
        BY <2>3, <3>4, <3>5
    <2>6. SumFunctionOnSet(f, s) \in Nat
      BY <2>3, <2>4
    <2>7. Good(s)
      BY <2>3, <2>5, <2>6
    <2>8. QED
      BY <1>3, <2>7
  <1>7. QED
    BY <1>5, <1>6

\* A sum over two parts of a set.
LEMMA SumSplit ==
    ASSUME NEW f, NEW S, IsFiniteSet(S), \A x \in S : f[x] \in Nat, NEW T \in SUBSET S
    PROVE  SumFunctionOnSet(f, S) = SumFunctionOnSet(f, T) + SumFunctionOnSet(f, S \ T)
  <1> DEFINE Good(t) ==
        SumFunctionOnSet(f, S) = SumFunctionOnSet(f, t) + SumFunctionOnSet(f, S \ t)
      Bad == {t \in SUBSET S : ~Good(t)}
  <1>1. SUFFICES ASSUME Bad # {} PROVE FALSE
    OBVIOUS
  <1>2. PICK s \in Bad : \A t \in Bad : t \subseteq s => t = s
    <2>1. Bad \subseteq SUBSET S
      OBVIOUS
    <2> HIDE DEF Bad
    <2> QED
      BY <1>1, <2>1, LeastSubset
  <1>3. s \in SUBSET S /\ ~Good(s)
    BY <1>2
  <1>4. IsFiniteSet(s) /\ IsFiniteSet(S \ s)
    BY <1>3, FS_Subset
  <1>5. \A x \in s : f[x] \in Nat
    BY <1>3
  <1>6. CASE s = {}
    <2>1. S \ {} = S /\ SumFunctionOnSet(f, S) \in Nat
      BY SumRemove
    <2>2. QED
      BY <1>3, <1>6, <2>1, SumEmpty
  <1>7. CASE s # {}
    <2>1. PICK y \in s : TRUE
      BY <1>7
    <2>2. PICK t \in SUBSET S : t = s \ {y}
      BY <1>3
    <2>3. Good(t)
      <3>1. t \notin Bad
        <4> HIDE DEF Bad
        <4> QED
          BY <1>2, <2>1, <2>2
      <3>2. QED
        BY <3>1
    <2>4. SumFunctionOnSet(f, s) = f[y] + SumFunctionOnSet(f, t)
      BY <1>4, <1>5, <2>1, <2>2, SumRemove
    <2>5. PICK rest \in SUBSET S : rest = S \ t
      OBVIOUS
    <2>6. /\ IsFiniteSet(rest) /\ \A x \in rest : f[x] \in Nat
          /\ y \in rest /\ rest \ {y} = S \ s
      BY <1>3, <2>1, <2>2, <2>5, FS_Subset
    <2>7. SumFunctionOnSet(f, rest) = f[y] + SumFunctionOnSet(f, S \ s)
      BY <2>6, SumRemove
    <2>8. /\ SumFunctionOnSet(f, t) \in Nat /\ SumFunctionOnSet(f, S \ s) \in Nat
          /\ f[y] \in Nat
      <3>1. IsFiniteSet(t) /\ \A x \in t : f[x] \in Nat
        BY <2>2, FS_Subset
      <3>2. \A x \in S \ s : f[x] \in Nat
        OBVIOUS
      <3>3. QED
        BY <1>4, <1>5, <2>1, <3>1, <3>2, SumRemove
    <2>9. Good(s)
      BY <2>3, <2>4, <2>5, <2>7, <2>8
    <2>10. QED
      BY <1>3, <2>9
  <1>8. QED
    BY <1>6, <1>7

\* A part of a sum is not more than all of it.
LEMMA SumPart ==
    ASSUME NEW f, NEW S, IsFiniteSet(S), \A x \in S : f[x] \in Nat, NEW T \in SUBSET S
    PROVE  SumFunctionOnSet(f, T) <= SumFunctionOnSet(f, S)
  <1>1. IsFiniteSet(T) /\ IsFiniteSet(S \ T)
    BY FS_Subset
  <1>2. SumFunctionOnSet(f, T) \in Nat /\ SumFunctionOnSet(f, S \ T) \in Nat
    BY <1>1, SumRemove
  <1>3. QED
    BY <1>2, SumSplit

\* Two functions that differ at one place only.
LEMMA SumChange ==
    ASSUME NEW e, NEW f, NEW S, IsFiniteSet(S), NEW y \in S,
           \A x \in S : e[x] \in Nat /\ f[x] \in Nat,
           \A x \in S \ {y} : e[x] = f[x]
    PROVE  SumFunctionOnSet(e, S) - e[y] = SumFunctionOnSet(f, S) - f[y]
  <1>1. IsFiniteSet(S \ {y})
    BY FS_Subset
  <1>2. SumFunctionOnSet(e, S \ {y}) = SumFunctionOnSet(f, S \ {y})
    BY <1>1, SumSame
  <1>3. SumFunctionOnSet(e, S \ {y}) \in Nat
    BY <1>1, SumRemove
  <1>4. /\ SumFunctionOnSet(e, S) = e[y] + SumFunctionOnSet(e, S \ {y})
        /\ SumFunctionOnSet(f, S) = f[y] + SumFunctionOnSet(f, S \ {y})
    BY SumRemove
  <1>5. QED
    BY <1>2, <1>3, <1>4

\* A bound on each term bounds the sum.
LEMMA SumBound ==
    ASSUME NEW f, NEW S, IsFiniteSet(S), NEW k \in Nat, \A x \in S : f[x] \in 0 .. k
    PROVE  SumFunctionOnSet(f, S) <= k * Cardinality(S)
  <1> DEFINE Good(s) == SumFunctionOnSet(f, s) <= k * Cardinality(s)
             Bad == {s \in SUBSET S : ~Good(s)}
  <1>1. SUFFICES ASSUME Bad # {} PROVE FALSE
    OBVIOUS
  <1>2. PICK s \in Bad : \A t \in Bad : t \subseteq s => t = s
    <2>1. Bad \subseteq SUBSET S
      OBVIOUS
    <2> HIDE DEF Bad
    <2> QED
      BY <1>1, <2>1, LeastSubset
  <1>3. s \in SUBSET S /\ ~Good(s) /\ IsFiniteSet(s)
    BY <1>2, FS_Subset
  <1>4. CASE s = {}
    BY <1>3, <1>4, SumEmpty, FS_EmptySet
  <1>5. CASE s # {}
    <2>1. PICK y \in s : TRUE
      BY <1>5
    <2>2. PICK t \in SUBSET S : t = s \ {y}
      BY <1>3
    <2>3. Good(t)
      <3>1. t \notin Bad
        <4> HIDE DEF Bad
        <4> QED
          BY <1>2, <2>1, <2>2
      <3>2. QED
        BY <3>1
    <2>4. \A x \in s : f[x] \in Nat
      BY <1>3
    <2>5. /\ SumFunctionOnSet(f, s) = f[y] + SumFunctionOnSet(f, t)
          /\ SumFunctionOnSet(f, t) \in Nat
      <3>1. IsFiniteSet(t) /\ \A x \in t : f[x] \in Nat
        BY <2>2, FS_Subset
      <3>2. QED
        BY <1>3, <2>1, <2>2, <2>4, <3>1, SumRemove
    <2>6. /\ Cardinality(s) \in Nat /\ Cardinality(t) = Cardinality(s) - 1
      BY <1>3, <2>1, <2>2, FS_CardinalityType, FS_RemoveElement
    <2>7. PICK n \in Nat : n = Cardinality(t) /\ Cardinality(s) = n + 1
      <3>1. Cardinality(t) \in Nat
        BY <2>2, FS_Subset, FS_CardinalityType
      <3>2. QED
        BY <2>6, <3>1
    <2>8. k * (n + 1) = k * n + k /\ k * n \in Nat
      OBVIOUS
    <2>9. f[y] \in 0 .. k
      BY <1>3, <2>1
    <2>10. Good(s)
      BY <2>3, <2>5, <2>7, <2>8, <2>9
    <2>11. QED
      BY <1>3, <2>10
  <1>6. QED
    BY <1>4, <1>5

-------------------------------------------------------------------------------
\* The recursion of FlattenSeq.
IsFlatten(f, seqs, n) ==
    f = [i \in 1 .. n |-> IF i = 1 THEN seqs[i] ELSE f[i - 1] \o seqs[i]]

LEMMA FlattenAt ==
    ASSUME NEW f, NEW seqs, NEW n \in Nat, IsFlatten(f, seqs, n)
    PROVE  \A i \in 1 .. n : f[i] = IF i = 1 THEN seqs[i] ELSE f[i - 1] \o seqs[i]
  <1> DEFINE step(i) == IF i = 1 THEN seqs[i] ELSE f[i - 1] \o seqs[i]
  <1>1. f = [i \in 1 .. n |-> step(i)]
    BY DEF IsFlatten
  <1> HIDE DEF step
  <1>2. \A i \in 1 .. n : f[i] = step(i)
    BY <1>1
  <1>3. QED
    BY <1>2 DEF step

LEMMA FlattenExists ==
    ASSUME NEW seqs, NEW n \in Nat PROVE \E f : IsFlatten(f, seqs, n)
  <1> DEFINE Bad == {k \in Nat : ~\E f : IsFlatten(f, seqs, k)}
  <1>1. SUFFICES ASSUME Bad # {} PROVE FALSE
    OBVIOUS
  <1>2. PICK k \in Bad : \A m \in Bad : k <= m
    <2> HIDE DEF Bad
    <2> QED
      BY <1>1, LeastNumber DEF Bad
  <1>3. CASE k = 0
    <2>1. IsFlatten([i \in 1 .. 0 |-> 0], seqs, 0)
      BY DEF IsFlatten
    <2>2. QED
      BY <1>2, <1>3, <2>1
  <1>4. CASE k # 0
    <2>1. k \in Nat /\ k - 1 \in Nat /\ k - 1 \notin Bad
      BY <1>2, <1>4
    <2>2. PICK f : IsFlatten(f, seqs, k - 1)
      BY <2>1
    <2> DEFINE g == [i \in 1 .. k |-> IF i < k THEN f[i] ELSE IF k = 1 THEN seqs[k] ELSE f[k - 1] \o seqs[k]]
    <2>3. \A i \in 1 .. k - 1 : f[i] = IF i = 1 THEN seqs[i] ELSE f[i - 1] \o seqs[i]
      BY <2>2, FlattenAt
    <2>4. ASSUME NEW i \in 1 .. k
          PROVE  g[i] = IF i = 1 THEN seqs[i] ELSE g[i - 1] \o seqs[i]
      <3>1. CASE i = k
        BY <1>4, <2>1, <3>1
      <3>2. CASE i # k
        <4>1. i \in 1 .. k - 1 /\ (i # 1 => i - 1 \in 1 .. k /\ i - 1 < k) /\ i < k
          BY <2>1, <3>2
        <4>2. QED
          BY <2>3, <4>1
      <3>3. QED
        BY <3>1, <3>2
    <2>5. IsFlatten(g, seqs, k)
      BY <2>4 DEF IsFlatten
    <2>6. QED
      BY <1>2, <2>5
  <1>5. QED
    BY <1>3, <1>4

LEMMA FlattenRec ==
    ASSUME NEW seqs, Len(seqs) \in Nat, Len(seqs) # 0
    PROVE  \E f : IsFlatten(f, seqs, Len(seqs)) /\ FlattenSeq(seqs) = f[Len(seqs)]
  <1>1. PICK f0 : IsFlatten(f0, seqs, Len(seqs))
    BY FlattenExists
  <1> DEFINE g == CHOOSE f : IsFlatten(f, seqs, Len(seqs))
  <1>2. IsFlatten(g, seqs, Len(seqs))
    BY <1>1
  <1>3. FlattenSeq(seqs) = g[Len(seqs)]
    BY DEF FlattenSeq, IsFlatten
  <1>4. QED
    BY <1>2, <1>3

\* Two such functions agree as far as their sequences do.
LEMMA FlattenAgrees ==
    ASSUME NEW f, NEW g, NEW s, NEW t, NEW n \in Nat, NEW m \in Nat, m <= n,
           IsFlatten(f, s, n), IsFlatten(g, t, m), \A i \in 1 .. m : s[i] = t[i]
    PROVE  \A i \in 1 .. m : f[i] = g[i]
  <1> DEFINE Bad == {i \in 1 .. m : f[i] # g[i]}
  <1>1. SUFFICES ASSUME Bad # {} PROVE FALSE
    OBVIOUS
  <1>2. Bad \subseteq Nat
    OBVIOUS
  <1>3. PICK i \in Bad : \A j \in Bad : i <= j
    <2> HIDE DEF Bad
    <2> QED
      BY <1>1, <1>2, LeastNumber
  <1>4. i \in 1 .. m /\ i \in 1 .. n /\ f[i] # g[i]
    BY <1>3
  <1>5. i # 1 => i - 1 \in 1 .. m /\ i - 1 \notin Bad
    BY <1>3, <1>4
  <1>6. i # 1 => f[i - 1] = g[i - 1]
    BY <1>5
  <1>7. /\ f[i] = IF i = 1 THEN s[i] ELSE f[i - 1] \o s[i]
        /\ g[i] = IF i = 1 THEN t[i] ELSE g[i - 1] \o t[i]
    BY <1>4, FlattenAt
  <1>8. QED
    BY <1>4, <1>6, <1>7

\* The flattening of a sequence, from that of all but its last element.
LEMMA FlattenStep ==
    ASSUME NEW S, NEW s \in Seq(S), NEW n \in Nat \ {0}, n = Len(s),
           NEW front \in Seq(S), Len(front) = n - 1, \A i \in 1 .. n - 1 : front[i] = s[i]
    PROVE  FlattenSeq(s) = IF n = 1 THEN s[1] ELSE FlattenSeq(front) \o s[n]
  <1>1. PICK f : IsFlatten(f, s, n) /\ FlattenSeq(s) = f[n]
    BY FlattenRec
  <1>2. f[n] = IF n = 1 THEN s[n] ELSE f[n - 1] \o s[n]
    BY <1>1, FlattenAt
  <1>3. CASE n # 1
    <2>1. PICK m \in Nat \ {0} : m = n - 1
      BY <1>3
    <2>2. PICK g : IsFlatten(g, front, m) /\ FlattenSeq(front) = g[m]
      BY <2>1, FlattenRec
    <2>3. m <= n /\ m \in 1 .. m /\ \A i \in 1 .. m : s[i] = front[i]
      BY <2>1
    <2>4. \A i \in 1 .. m : f[i] = g[i]
      BY <1>1, <2>2, <2>3, FlattenAgrees
    <2>5. f[n] = f[m] \o s[n] /\ f[m] = g[m]
      BY <1>2, <1>3, <2>1, <2>3, <2>4
    <2>6. QED
      BY <1>1, <1>3, <2>2, <2>5
  <1>4. QED
    BY <1>1, <1>2, <1>3

\* Lists that are flattened hold what they held.
LEMMA FlattenType ==
    ASSUME NEW V, NEW s \in Seq(Seq(V))
    PROVE  FlattenSeq(s) \in Seq(V)
  <1>1. PICK n \in Nat : n = Len(s) /\ DOMAIN s = 1 .. n /\ \A i \in 1 .. n : s[i] \in Seq(V)
    OBVIOUS
  <1>2. CASE n = 0
    <2>1. s = <<>>
      BY <1>1, <1>2
    <2> QED
      BY <2>1 DEF FlattenSeq
  <1>3. CASE n # 0
    <2>1. PICK f : IsFlatten(f, s, n) /\ FlattenSeq(s) = f[n]
      BY <1>1, <1>3, FlattenRec
    <2>2. \A i \in 1 .. n : f[i] = IF i = 1 THEN s[i] ELSE f[i - 1] \o s[i]
      BY <2>1, FlattenAt
    <2> DEFINE Bad == {i \in 1 .. n : f[i] \notin Seq(V)}
    <2>3. ASSUME NEW i \in Bad, \A k \in Bad : i <= k PROVE FALSE
      <3>1. CASE i = 1
        BY <1>1, <2>2, <3>1
      <3>2. CASE i # 1
        <4>1. PICK j \in 1 .. n : j = i - 1
          BY <3>2
        <4>2. f[j] \in Seq(V)
          BY <2>3, <4>1
        <4>3. f[i] = f[j] \o s[i]
          BY <2>2, <3>2, <4>1
        <4>4. f[i] \in Seq(V)
          BY <1>1, <4>2, <4>3
        <4> QED
          BY <4>4
      <3> QED
        BY <3>1, <3>2
    <2>4. Bad = {}
      <3>1. Bad \subseteq Nat
        OBVIOUS
      <3> HIDE DEF Bad
      <3> QED
        BY <2>3, <3>1, LeastNumber
    <2>5. n \in 1 .. n
      BY <1>3
    <2> QED
      BY <2>1, <2>4, <2>5
  <1> QED
    BY <1>2, <1>3

\* What a fold over a list takes in one by one.
LEMMA AppendFacts ==
    ASSUME NEW V, NEW list \in Seq(V), NEW v \in V
    PROVE  /\ Append(list, v) \in Seq(V) /\ Append(list, v) # list
           /\ Len(Append(list, v)) = Len(list) + 1 /\ Len(list) \in Nat
           /\ ToSet(Append(list, v)) = ToSet(list) \cup {v}
           /\ \A i \in 1 .. Len(list) : Append(list, v)[i] = list[i]
           /\ Append(list, v)[Len(list) + 1] = v
  <1>1. /\ Append(list, v) \in Seq(V) /\ Len(list) \in Nat
        /\ Len(Append(list, v)) = Len(list) + 1
        /\ \A i \in 1 .. Len(list) : Append(list, v)[i] = list[i]
        /\ Append(list, v)[Len(list) + 1] = v
    OBVIOUS
  <1>2. Append(list, v) # list
    BY <1>1
  <1>3. PICK n \in Nat : n = Len(list) /\ DOMAIN list = 1 .. n
    OBVIOUS
  <1>4. PICK longer : longer = Append(list, v)
    OBVIOUS
  <1>5. /\ DOMAIN longer = 1 .. (n + 1) /\ longer[n + 1] = v
        /\ \A i \in 1 .. n : longer[i] = list[i]
    BY <1>1, <1>3, <1>4
  <1>6. ToSet(longer) = ToSet(list) \cup {v}
    <2>1. ToSet(longer) = {longer[i] : i \in 1 .. (n + 1)} /\ ToSet(list) = {list[i] : i \in 1 .. n}
      BY <1>3, <1>5 DEF ToSet
    <2>2. 1 .. (n + 1) = (1 .. n) \cup {n + 1}
      OBVIOUS
    <2>3. \A x : x \in ToSet(longer) <=> x \in ToSet(list) \cup {v}
      BY <1>5, <2>1, <2>2
    <2> QED
      BY <2>3
  <1> QED
    BY <1>1, <1>2, <1>4, <1>6
===============================================================================
