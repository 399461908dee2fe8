------------------------------- MODULE LeftFolds -------------------------------
(***************************************************************************)
(* What FoldLeft computes, for any operator: instantiated once for each    *)
(* operator the models fold over a sequence.                               *)
(***************************************************************************)
EXTENDS Integers, Sequences, WellFoundedInduction

CONSTANT Op(_, _)

\* The fold, written out as Folds, FiniteSetsExt and SequencesExt define it: an instance
\* then brings no other operator of those modules into the one that makes it.
Max(S) == CHOOSE x \in S : \A y \in S : x >= y

MapThenFoldSet(op(_, _), base, f(_), choose(_), S) ==
    LET iter[s \in SUBSET S] == IF s = {} THEN base
                                ELSE LET x == choose(s) IN op(f(x), iter[s \ {x}])
    IN  iter[S]

FoldLeft(op(_, _), base, seq) ==
    MapThenFoldSet(LAMBDA x, y : op(y, x), base, LAMBDA i : seq[i], LAMBDA S : Max(S), DOMAIN seq)

LEMMA LeastNumber ==
    ASSUME NEW T, T \subseteq Nat, T # {}
    PROVE  \E n \in T : \A m \in T : n <= m
  <1>1. PICK n \in T : \A m \in T : ~(<<m, n>> \in OpToRel(<, Nat))
    BY NatLessThanWellFounded, WFMin
  <1>2. n \in Nat /\ \A m \in T : ~(m < n)
    BY <1>1 DEF OpToRel
  <1> QED
    BY <1>2

\* The recursion of FoldLeft, which takes the last elements off first.
Largest(s) == CHOOSE x \in s : \A y \in s : x >= y
IsIter(h, base, seq, S) ==
    h = [s \in SUBSET S |-> IF s = {} THEN base
                            ELSE Op(h[s \ {Largest(s)}], seq[Largest(s)])]

LEMMA LargestOf ==
    ASSUME NEW n \in Nat, NEW s \in SUBSET (1 .. n), s # {}
    PROVE  Largest(s) \in s /\ \A y \in s : Largest(s) >= y
  <1> DEFINE Above == {m \in Nat : \A y \in s : m >= y}
  <1>1. n \in Above
    OBVIOUS
  <1>2. PICK m \in Above : \A k \in Above : m <= k
    <2> HIDE DEF Above
    <2>1. Above \subseteq Nat
      BY DEF Above
    <2> QED
      BY <1>1, <2>1, LeastNumber
  <1>3. m \in s
    <2>1. SUFFICES ASSUME m \notin s PROVE FALSE
      OBVIOUS
    <2>2. PICK y \in s : TRUE
      OBVIOUS
    <2>3. m \in Nat /\ m >= y /\ y >= 1 /\ y \in Nat
      BY <1>2, <2>2
    <2>4. \A z \in s : m - 1 >= z
      BY <1>2, <2>1
    <2>5. m - 1 \in Above
      BY <2>3, <2>4
    <2> QED
      BY <1>2, <2>3, <2>5
  <1>4. \E x \in s : \A y \in s : x >= y
    BY <1>2, <1>3
  <1> QED
    BY <1>4 DEF Largest

LEMMA IterExists ==
    ASSUME NEW base, NEW seq, NEW n \in Nat PROVE \E h : IsIter(h, base, seq, 1 .. n)
  <1> DEFINE S == 1 .. n
             Iter(h, m) ==
               \A s \in SUBSET S : s \subseteq 1 .. m =>
                  h[s] = IF s = {} THEN base ELSE Op(h[s \ {Largest(s)}], seq[Largest(s)])
             Bad == {m \in Nat : ~\E h : Iter(h, m)}
  <1>1. \A s \in SUBSET S : s # {} =>
            Largest(s) \in s /\ \A y \in s : Largest(s) >= y
    BY LargestOf
  <1>2. Bad = {}
    <2>1. SUFFICES ASSUME Bad # {} PROVE FALSE
      OBVIOUS
    <2>2. PICK m \in Bad : \A k \in Bad : m <= k
      <3> HIDE DEF Bad
      <3>1. Bad \subseteq Nat
        BY DEF Bad
      <3> QED
        BY <2>1, <3>1, LeastNumber
    <2>3. m \in Nat /\ ~\E h : Iter(h, m)
      BY <2>2
    <2>4. CASE m = 0
      <3>1. 1 .. m = {}
        BY <2>4
      <3>2. Iter([s \in SUBSET S |-> base], m)
        <4>1. ASSUME NEW s \in SUBSET S, s \subseteq 1 .. m PROVE s = {}
          BY <3>1, <4>1
        <4> QED
          BY <4>1
      <3>3. QED
        BY <2>3, <3>2
    <2>5. CASE m # 0
      <3>1. PICK k \in Nat : k = m - 1
        BY <2>3, <2>5
      <3>2. k \notin Bad
        <4> HIDE DEF Bad
        <4> QED
          BY <2>2, <2>3, <3>1
      <3>3. PICK h : Iter(h, k)
        BY <3>2
      <3> DEFINE g == [s \in SUBSET S |-> IF s \subseteq 1 .. k THEN h[s]
                                          ELSE Op(h[s \ {Largest(s)}], seq[Largest(s)])]
      <3>4. ASSUME NEW s \in SUBSET S, s \subseteq 1 .. m
            PROVE  g[s] = IF s = {} THEN base ELSE Op(g[s \ {Largest(s)}], seq[Largest(s)])
        <4>1. CASE s = {}
          <5>1. s \subseteq 1 .. k
            BY <4>1
          <5>2. g[s] = h[s] /\ h[s] = base
            BY <3>3, <4>1, <5>1
          <5>3. QED
            BY <4>1, <5>2
        <4>2. CASE s # {}
          <5>1. PICK x : x = Largest(s) /\ x \in s /\ \A y \in s : x >= y
            BY <1>1, <4>2
          <5>2. PICK t \in SUBSET S : t = s \ {x}
            OBVIOUS
          <5>3. t \subseteq 1 .. k
            <6>1. ASSUME NEW y \in s, y # x PROVE y \in 1 .. k
              <7>1. y \in 1 .. m /\ x \in 1 .. m /\ x >= y
                BY <3>4, <5>1
              <7> QED
                BY <2>3, <3>1, <6>1, <7>1
            <6> QED
              BY <5>2, <6>1
          <5>4. g[t] = h[t]
            BY <5>3
          <5>5. g[s] = Op(h[t], seq[x])
            BY <3>3, <4>2, <5>1, <5>2
          <5>6. QED
            BY <4>2, <5>1, <5>2, <5>4, <5>5
        <4>3. QED
          BY <4>1, <4>2
      <3>5. Iter(g, m)
        BY <3>4
      <3>6. QED
        BY <2>3, <3>5
    <2>6. QED
      BY <2>4, <2>5
  <1>3. PICK h : Iter(h, n)
    BY <1>2
  <1> DEFINE g == [s \in SUBSET S |-> h[s]]
  <1>4. ASSUME NEW s \in SUBSET S
        PROVE  g[s] = IF s = {} THEN base ELSE Op(g[s \ {Largest(s)}], seq[Largest(s)])
    <2>1. s \ {Largest(s)} \in SUBSET S
      OBVIOUS
    <2> QED
      BY <1>3, <2>1
  <1>5. IsIter(g, base, seq, S)
    BY <1>4 DEF IsIter
  <1>6. QED
    BY <1>5 DEF S

\* The values an accumulator takes.
IsTrace(f, base, seq, n) == f[0] = base /\ \A i \in 1 .. n : f[i] = Op(f[i - 1], seq[i])

LEMMA TraceExists ==
    ASSUME NEW base, NEW n \in Nat, NEW seq, DOMAIN seq = 1 .. n
    PROVE  \E f : IsTrace(f, base, seq, n) /\ FoldLeft(Op, base, seq) = f[n]
  <1> DEFINE h == CHOOSE g : IsIter(g, base, seq, 1 .. n)
             step(s) == IF s = {} THEN base ELSE Op(h[s \ {Largest(s)}], seq[Largest(s)])
             f == [i \in 0 .. n |-> h[1 .. i]]
  <1>1. IsIter(h, base, seq, 1 .. n)
    BY IterExists
  <1>2. FoldLeft(Op, base, seq) = h[1 .. n]
    BY DEF FoldLeft, MapThenFoldSet, IsIter, Largest, Max
  <1> HIDE DEF h
  <1>3. h = [s \in SUBSET (1 .. n) |-> step(s)]
    BY <1>1 DEF IsIter
  <1> HIDE DEF step
  <1>4. \A s \in SUBSET (1 .. n) : h[s] = step(s)
    BY <1>3
  <1>5. f[0] = base
    <2>1. 1 .. 0 = {} /\ {} \in SUBSET (1 .. n) /\ f[0] = h[1 .. 0]
      OBVIOUS
    <2> QED
      BY <1>4, <2>1 DEF step
  <1>6. ASSUME NEW i \in 1 .. n PROVE f[i] = Op(f[i - 1], seq[i])
    <2>1. (1 .. i) \in SUBSET (1 .. n) /\ (1 .. i) # {}
      OBVIOUS
    <2>2. Largest(1 .. i) = i
      <3>1. Largest(1 .. i) \in 1 .. i /\ \A y \in 1 .. i : Largest(1 .. i) >= y
        BY <2>1, LargestOf
      <3>2. PICK x : x = Largest(1 .. i)
        OBVIOUS
      <3> QED
        BY <3>1, <3>2
    <2>3. (1 .. i) \ {i} = 1 .. (i - 1)
      OBVIOUS
    <2>4. h[1 .. i] = Op(h[1 .. (i - 1)], seq[i])
      BY <1>4, <2>1, <2>2, <2>3 DEF step
    <2> QED
      BY <2>4
  <1>7. f[n] = h[1 .. n]
    OBVIOUS
  <1> HIDE DEF f
  <1> QED
    BY <1>2, <1>5, <1>6, <1>7 DEF IsTrace

LEMMA TracesAgree ==
    ASSUME NEW base, NEW n \in Nat, NEW m \in Nat, m <= n, NEW seq, NEW list, NEW f, NEW g,
           IsTrace(f, base, seq, n), IsTrace(g, base, list, m),
           \A i \in 1 .. m : list[i] = seq[i]
    PROVE  g[m] = f[m]
  <1> DEFINE Bad == {i \in Nat : i <= m /\ g[i] # f[i]}
  <1>1. Bad = {}
    <2>1. SUFFICES ASSUME Bad # {} PROVE FALSE
      OBVIOUS
    <2>2. PICK i \in Bad : \A k \in Bad : i <= k
      <3> HIDE DEF Bad
      <3>1. Bad \subseteq Nat
        BY DEF Bad
      <3> QED
        BY <2>1, <3>1, LeastNumber
    <2>3. i \in Nat /\ i <= m /\ g[i] # f[i]
      BY <2>2
    <2>4. i # 0
      BY <2>3 DEF IsTrace
    <2>5. i - 1 \in Nat /\ i - 1 <= m /\ i \in 1 .. m /\ i \in 1 .. n
      BY <2>3, <2>4
    <2>6. g[i - 1] = f[i - 1]
      BY <2>2, <2>3, <2>5
    <2> QED
      BY <2>3, <2>5, <2>6 DEF IsTrace
  <1> QED
    BY <1>1

\* Step by step.
LEMMA FoldEmpty == ASSUME NEW base PROVE FoldLeft(Op, base, <<>>) = base
  <1>1. DOMAIN <<>> = 1 .. 0
    OBVIOUS
  <1> QED
    BY <1>1, TraceExists DEF IsTrace

LEMMA FoldSame ==
    ASSUME NEW base, NEW n \in Nat, NEW seq, NEW list, DOMAIN seq = 1 .. n, DOMAIN list = 1 .. n,
           \A i \in 1 .. n : list[i] = seq[i]
    PROVE  FoldLeft(Op, base, list) = FoldLeft(Op, base, seq)
  <1>1. PICK f : IsTrace(f, base, seq, n) /\ FoldLeft(Op, base, seq) = f[n]
    BY TraceExists
  <1>2. PICK g : IsTrace(g, base, list, n) /\ FoldLeft(Op, base, list) = g[n]
    BY TraceExists
  <1> QED
    BY <1>1, <1>2, TracesAgree

LEMMA FoldOfTrace ==
    ASSUME NEW base, NEW n \in Nat, NEW seq, DOMAIN seq = 1 .. n, NEW f,
           IsTrace(f, base, seq, n)
    PROVE  FoldLeft(Op, base, seq) = f[n]
  <1>1. PICK g : IsTrace(g, base, seq, n) /\ FoldLeft(Op, base, seq) = g[n]
    BY TraceExists
  <1> QED
    BY <1>1, TracesAgree

LEMMA FoldLast ==
    ASSUME NEW base, NEW n \in Nat, NEW s, NEW longer, DOMAIN s = 1 .. n, DOMAIN longer = 1 .. (n + 1),
           \A i \in 1 .. n : longer[i] = s[i]
    PROVE  FoldLeft(Op, base, longer) = Op(FoldLeft(Op, base, s), longer[n + 1])
  <1>1. PICK m \in Nat : m = n + 1 /\ m \in 1 .. m /\ m - 1 = n
    OBVIOUS
  <1>2. DOMAIN longer = 1 .. m
    BY <1>1
  <1>3. PICK f : IsTrace(f, base, longer, m) /\ FoldLeft(Op, base, longer) = f[m]
    BY <1>2, TraceExists
  <1>4. IsTrace(f, base, s, n)
    <2>1. \A i \in 1 .. n : i \in 1 .. m
      BY <1>1
    <2> QED
      BY <1>3, <2>1 DEF IsTrace
  <1>5. FoldLeft(Op, base, s) = f[n]
    BY <1>4, FoldOfTrace
  <1>6. f[m] = Op(f[n], longer[m])
    BY <1>1, <1>3 DEF IsTrace
  <1> QED
    BY <1>1, <1>3, <1>5, <1>6

LEMMA FoldConcat ==
    ASSUME NEW V, NEW base, NEW s \in Seq(V), NEW t \in Seq(V)
    PROVE  FoldLeft(Op, base, s \o t) = FoldLeft(Op, FoldLeft(Op, base, s), t)
  <1>1. PICK n \in Nat : n = Len(s) /\ DOMAIN s = 1 .. n
    OBVIOUS
  <1>2. PICK m \in Nat : m = Len(t) /\ DOMAIN t = 1 .. m
    OBVIOUS
  <1>3. /\ DOMAIN (s \o t) = 1 .. (n + m)
        /\ \A i \in 1 .. n : (s \o t)[i] = s[i]
        /\ \A i \in 1 .. m : (s \o t)[n + i] = t[i]
    BY <1>1, <1>2
  <1>4. PICK both : both = s \o t
    OBVIOUS
  <1>5. PICK f : IsTrace(f, base, both, n + m) /\ FoldLeft(Op, base, both) = f[n + m]
    <2>1. PICK k \in Nat : k = n + m
      OBVIOUS
    <2>2. DOMAIN both = 1 .. k
      BY <1>3, <1>4, <2>1
    <2>3. \E f : IsTrace(f, base, both, k) /\ FoldLeft(Op, base, both) = f[k]
      BY <2>2, TraceExists
    <2> QED
      BY <2>1, <2>3
  <1>6. IsTrace(f, base, s, n)
    <2>1. f[0] = base
      BY <1>5 DEF IsTrace
    <2>2. ASSUME NEW i \in 1 .. n PROVE f[i] = Op(f[i - 1], s[i])
      <3>1. i \in 1 .. (n + m)
        OBVIOUS
      <3>2. both[i] = s[i]
        BY <1>3, <1>4
      <3> QED
        BY <1>5, <3>1, <3>2 DEF IsTrace
    <2> QED
      BY <2>1, <2>2 DEF IsTrace
  <1>7. FoldLeft(Op, base, s) = f[n]
    BY <1>1, <1>6, FoldOfTrace
  <1> DEFINE g == [i \in 0 .. m |-> f[n + i]]
  <1>8. g[0] = f[n] /\ g[m] = f[n + m]
    OBVIOUS
  <1>9. ASSUME NEW i \in 1 .. m PROVE g[i] = Op(g[i - 1], t[i])
    <2>1. n + i \in 1 .. (n + m) /\ (n + i) - 1 = n + (i - 1)
      OBVIOUS
    <2>2. f[n + i] = Op(f[n + (i - 1)], t[i])
      BY <1>3, <1>4, <1>5, <2>1 DEF IsTrace
    <2> QED
      BY <2>2
  <1> HIDE DEF g
  <1>10. IsTrace(g, f[n], t, m)
    BY <1>8, <1>9 DEF IsTrace
  <1>11. FoldLeft(Op, f[n], t) = g[m]
    BY <1>2, <1>10, FoldOfTrace
  <1> QED
    BY <1>4, <1>5, <1>7, <1>8, <1>11

\* What every step keeps, a fold keeps.
Keeps(A, seq, n) == \A a \in A : \A i \in 1 .. n : Op(a, seq[i]) \in A

LEMMA TraceWithin ==
    ASSUME NEW A, NEW base \in A, NEW n \in Nat, NEW seq, NEW f, IsTrace(f, base, seq, n),
           Keeps(A, seq, n)
    PROVE  \A i \in 0 .. n : f[i] \in A
  <1> DEFINE Bad == {i \in Nat : i <= n /\ f[i] \notin A}
  <1>2. Bad = {}
    <2>1. SUFFICES ASSUME Bad # {} PROVE FALSE
      OBVIOUS
    <2>2. PICK i \in Bad : \A k \in Bad : i <= k
      <3> HIDE DEF Bad
      <3>1. Bad \subseteq Nat
        BY DEF Bad
      <3> QED
        BY <2>1, <3>1, LeastNumber
    <2>3. i \in Nat /\ i <= n /\ f[i] \notin A
      BY <2>2
    <2>4. i # 0
      BY <2>3 DEF IsTrace
    <2>5. i - 1 \in Nat /\ i - 1 <= n /\ i \in 1 .. n
      BY <2>3, <2>4
    <2>6. f[i - 1] \in A
      BY <2>2, <2>3, <2>5
    <2>7. f[i] = Op(f[i - 1], seq[i])
      BY <2>5 DEF IsTrace
    <2> QED
      BY <2>3, <2>5, <2>6, <2>7 DEF Keeps
  <1> QED
    BY <1>2

LEMMA FoldWithin ==
    ASSUME NEW A, NEW base \in A, NEW n \in Nat, NEW seq, DOMAIN seq = 1 .. n,
           Keeps(A, seq, n)
    PROVE  FoldLeft(Op, base, seq) \in A
  <1>1. PICK f : IsTrace(f, base, seq, n) /\ FoldLeft(Op, base, seq) = f[n]
    BY TraceExists
  <1>2. n \in 0 .. n
    OBVIOUS
  <1> QED
    BY <1>1, <1>2, TraceWithin

\* What one step brings about and the later ones keep, a fold brings about.
Reaches(A, B, seq, i, n) ==
    /\ \A a \in A : Op(a, seq[i]) \in B
    /\ \A a \in A \cap B : \A k \in 1 .. n : Op(a, seq[k]) \in B

LEMMA FoldReaches ==
    ASSUME NEW A, NEW B, NEW base \in A, NEW n \in Nat, NEW seq, DOMAIN seq = 1 .. n,
           Keeps(A, seq, n), NEW i \in 1 .. n, Reaches(A, B, seq, i, n)
    PROVE  FoldLeft(Op, base, seq) \in B
  <1>1. PICK f : IsTrace(f, base, seq, n) /\ FoldLeft(Op, base, seq) = f[n]
    BY TraceExists
  <1>2. \A k \in 0 .. n : f[k] \in A
    BY <1>1, TraceWithin
  <1> DEFINE Bad == {k \in Nat : i <= k /\ k <= n /\ f[k] \notin B}
  <1>3. Bad = {}
    <2>1. SUFFICES ASSUME Bad # {} PROVE FALSE
      OBVIOUS
    <2>2. PICK k \in Bad : \A m \in Bad : k <= m
      <3> HIDE DEF Bad
      <3>1. Bad \subseteq Nat
        BY DEF Bad
      <3> QED
        BY <2>1, <3>1, LeastNumber
    <2>3. k \in Nat /\ i <= k /\ k <= n /\ f[k] \notin B
      BY <2>2
    <2>4. k - 1 \in 0 .. n /\ k - 1 \in Nat /\ k \in 1 .. n
      BY <2>3
    <2>5. f[k] = Op(f[k - 1], seq[k]) /\ f[k - 1] \in A
      BY <1>1, <1>2, <2>4 DEF IsTrace
    <2>6. CASE k = i
      BY <2>3, <2>5, <2>6 DEF Reaches
    <2>7. CASE k # i
      <3>1. f[k - 1] \in B
        BY <2>2, <2>3, <2>4, <2>7
      <3> QED
        BY <2>3, <2>4, <2>5, <3>1 DEF Reaches
    <2> QED
      BY <2>6, <2>7
  <1> QED
    BY <1>1, <1>3

\* Where every step takes the accumulator one phase on, a fold takes it through all.
Advances(A, seq, n) == \A i \in 1 .. n : \A a \in A[i - 1] : Op(a, seq[i]) \in A[i]

LEMMA FoldAdvances ==
    ASSUME NEW A, NEW n \in Nat, NEW seq, DOMAIN seq = 1 .. n, NEW base \in A[0],
           Advances(A, seq, n)
    PROVE  FoldLeft(Op, base, seq) \in A[n]
  <1>1. PICK f : IsTrace(f, base, seq, n) /\ FoldLeft(Op, base, seq) = f[n]
    BY TraceExists
  <1> DEFINE Bad == {i \in Nat : i <= n /\ f[i] \notin A[i]}
  <1>2. Bad = {}
    <2>1. SUFFICES ASSUME Bad # {} PROVE FALSE
      OBVIOUS
    <2>2. PICK i \in Bad : \A k \in Bad : i <= k
      <3> HIDE DEF Bad
      <3>1. Bad \subseteq Nat
        BY DEF Bad
      <3> QED
        BY <2>1, <3>1, LeastNumber
    <2>3. i \in Nat /\ i <= n /\ f[i] \notin A[i]
      BY <2>2
    <2>4. i # 0
      BY <1>1, <2>3 DEF IsTrace
    <2>5. i - 1 \in Nat /\ i - 1 <= n /\ i \in 1 .. n
      BY <2>3, <2>4
    <2>6. f[i - 1] \in A[i - 1]
      BY <2>2, <2>3, <2>5
    <2>7. f[i] = Op(f[i - 1], seq[i])
      BY <1>1, <2>5 DEF IsTrace
    <2> QED
      BY <2>3, <2>5, <2>6, <2>7 DEF Advances
  <1> QED
    BY <1>1, <1>2

\* Where no step changes anything, neither does the fold.
LEMMA FoldOfNothingNew ==
    ASSUME NEW base, NEW n \in Nat, NEW seq, DOMAIN seq = 1 .. n,
           \A i \in 1 .. n : Op(base, seq[i]) = base
    PROVE  FoldLeft(Op, base, seq) = base
  <1>1. base \in {base} /\ Keeps({base}, seq, n)
    BY DEF Keeps
  <1>2. FoldLeft(Op, base, seq) \in {base}
    BY <1>1, FoldWithin
  <1> QED
    BY <1>2

\* If what an accumulator has absorbed stays absorbed, a fold absorbs all it takes
\* in, and folding the same again changes nothing.
Absorbing(A, seq, n) ==
    /\ \A a \in A : \A i \in 1 .. n : Op(a, seq[i]) \in A
    /\ \A a \in A : \A i \in 1 .. n : Op(Op(a, seq[i]), seq[i]) = Op(a, seq[i])
    /\ \A a \in A : \A i, j \in 1 .. n :
          Op(a, seq[i]) = a => Op(Op(a, seq[j]), seq[i]) = Op(a, seq[j])

Fixed(a, seq, n) == \A i \in 1 .. n : Op(a, seq[i]) = a

LEMMA FoldAbsorbs ==
    ASSUME NEW A, NEW base \in A, NEW n \in Nat, NEW seq, DOMAIN seq = 1 .. n,
           Absorbing(A, seq, n)
    PROVE  FoldLeft(Op, base, seq) \in A /\ Fixed(FoldLeft(Op, base, seq), seq, n)
  <1>1. PICK f : IsTrace(f, base, seq, n) /\ FoldLeft(Op, base, seq) = f[n]
    BY TraceExists
  <1> USE DEF Absorbing
  <1> DEFINE Done(k) == f[k] \in A /\ \A i \in 1 .. k : Op(f[k], seq[i]) = f[k]
             Bad == {k \in Nat : k <= n /\ ~Done(k)}
  <1>2. Bad = {}
    <2>1. SUFFICES ASSUME Bad # {} PROVE FALSE
      OBVIOUS
    <2>2. PICK k \in Bad : \A m \in Bad : k <= m
      <3> HIDE DEF Bad
      <3>1. Bad \subseteq Nat
        BY DEF Bad
      <3> QED
        BY <2>1, <3>1, LeastNumber
    <2>3. k \in Nat /\ k <= n /\ ~Done(k)
      BY <2>2
    <2>4. k # 0
      BY <1>1, <2>3 DEF IsTrace
    <2>5. k - 1 \in Nat /\ k - 1 <= n /\ k \in 1 .. n
      BY <2>3, <2>4
    <2>6. Done(k - 1)
      <3> HIDE DEF Done
      <3> QED
        BY <2>2, <2>3, <2>5
    <2>7. f[k] = Op(f[k - 1], seq[k])
      BY <1>1, <2>5 DEF IsTrace
    <2>8. f[k - 1] \in A /\ f[k] \in A
      BY <2>5, <2>6, <2>7
    <2>9. ASSUME NEW i \in 1 .. k PROVE Op(f[k], seq[i]) = f[k]
      <3>1. i \in 1 .. n
        BY <2>3
      <3>2. CASE i = k
        BY <2>5, <2>7, <2>8, <3>2
      <3>3. CASE i # k
        <4>1. i \in 1 .. (k - 1)
          BY <2>3, <3>3
        <4>2. Op(f[k - 1], seq[i]) = f[k - 1]
          BY <2>6, <4>1
        <4> QED
          BY <2>5, <2>7, <2>8, <3>1, <4>2
      <3> QED
        BY <3>2, <3>3
    <2> QED
      BY <2>3, <2>8, <2>9
  <1>3. Done(n)
    <2> HIDE DEF Done
    <2> QED
      BY <1>2
  <1>4. f[n] \in A /\ Fixed(f[n], seq, n)
    BY <1>3 DEF Fixed
  <1> HIDE DEF Done, Bad
  <1> QED
    BY <1>1, <1>4

LEMMA FoldAgain ==
    ASSUME NEW A, NEW base \in A, NEW n \in Nat, NEW seq, DOMAIN seq = 1 .. n,
           Absorbing(A, seq, n)
    PROVE  FoldLeft(Op, FoldLeft(Op, base, seq), seq) = FoldLeft(Op, base, seq)
  <1>0. Fixed(FoldLeft(Op, base, seq), seq, n)
    BY FoldAbsorbs
  <1>1. PICK last : last = FoldLeft(Op, base, seq) /\ Fixed(last, seq, n)
    BY <1>0
  <1>2. FoldLeft(Op, last, seq) = last
    BY <1>1, FoldOfNothingNew DEF Fixed
  <1> QED
    BY <1>1, <1>2
=============================================================================
