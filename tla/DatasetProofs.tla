---------------------------- MODULE DatasetProofs -----------------------------
(***************************************************************************)
(* The relation delta, for every value of the constants.                   *)
(*                                                                         *)
(*   1. A delta that does not fit writes nothing.                          *)
(*   2. An application repeats without harm, row by row, because merging   *)
(*      a row of the delta again changes nothing.                          *)
(*   3. A published delta is the merge of every record of the dump it      *)
(*      names.                                                             *)
(***************************************************************************)
EXTENDS RelationDelta, FoldTheorems, SequenceTheorems, TLAPS

-------------------------------------------------------------------------------
(***************************************************************************)
(* A delta that does not fit a shard changes nothing there, whatever the   *)
(* senses of the entries, the dump, the ranges and the size of a batch,    *)
(* and among all deaths and repetitions.                                   *)
(*                                                                         *)
(* What the preflight has found to fit is still to fit when its batch      *)
(* comes: the file of the delta is never replaced, and a batch touches     *)
(* only rows that later batches do not.                                    *)
(***************************************************************************)

Shapes ==
    /\ DOMAIN applier = {"pc", "range", "todo", "before", "runs"}
    /\ DOMAIN build = {"pc", "line", "key", "patches", "staged", "range", "identity"}

IsDelta == delta \notin {Unpublished, Foreign}

\* All files have a row, or none, for each entry of the canonical dataset.
SameEntries ==
    /\ DOMAIN target = DOMAIN canonical
    /\ build.pc = "scan" => DOMAIN build.staged = DOMAIN canonical
    /\ IsDelta => DOMAIN delta.rows = DOMAIN canonical

AppliesDelta ==
    applier.pc \in {"check", "write"} =>
        IsDelta /\ applier.todo \subseteq DOMAIN canonical

\* Nothing is written before the preflight has found that all rows fit.
CheckWritesNothing == applier.pc \in {"check", "failed"} => target = applier.before
StillFits == applier.pc = "write" => Misfits(applier.todo) = {}

DInv == Shapes /\ SameEntries /\ AppliesDelta /\ CheckWritesNothing /\ StillFits

-----------------------------------------------------------------------------
LEMMA InitInv == DeltaInit => DInv
  <1> SUFFICES ASSUME DeltaInit PROVE DInv
    OBVIOUS
  <1>1. Shapes /\ build.pc = "idle" /\ applier.pc = "idle" /\ delta = Unpublished
    BY DEF DeltaInit, Shapes, NoBuild, NoApplier
  <1>2. DOMAIN target = DOMAIN canonical
    BY DeltaTypes DEF DeltaInit
  <1>3. QED
    BY <1>1, <1>2 DEF DInv, SameEntries, IsDelta, AppliesDelta, CheckWritesNothing, StillFits

\* Whether rows fit depends on the shard and on the delta alone.
LEMMA FitsUnchanged ==
    ASSUME UNCHANGED <<target, delta>>
    PROVE  \A rows : Misfits(rows)' = Misfits(rows)
  BY DEF Misfits, Refused, Drifted

LEMMA BuilderInv ==
    ASSUME DInv,
           \/ \E range \in Ranges : StartBuild(range)
           \/ ReadRecord \/ Publish \/ BuilderDies \/ OutputTaken
           \/ \E r \in Records : DumpReplaced(r)
    PROVE  DInv'
  <1>1. UNCHANGED <<canonical, target, applier>>
    BY DEF StartBuild, ReadRecord, Publish, BuilderDies, OutputTaken, DumpReplaced
  <1>2. \A b : DOMAIN b = DOMAIN build =>
           /\ DOMAIN Flushed(b) = DOMAIN build
           /\ DOMAIN Flushed(b).staged = DOMAIN b.staged
    BY DEF Flushed, DInv, Shapes
  <1>3. /\ DOMAIN build' = DOMAIN build
        /\ build'.pc = "scan" => DOMAIN build'.staged = DOMAIN canonical
    <2>1. CASE \E range \in Ranges : StartBuild(range)
      <3>1. PICK range \in Ranges :
               build' = [NoBuild EXCEPT !.pc = "scan", !.range = range,
                            !.identity = Len(dumps),
                            !.staged = [e \in DOMAIN canonical |-> NoRow]]
        BY <2>1 DEF StartBuild
      <3>2. DOMAIN NoBuild = DOMAIN build
        BY DEF NoBuild, DInv, Shapes
      <3>3. DOMAIN build' = DOMAIN NoBuild
        BY <3>1
      <3>4. build'.staged = [e \in DOMAIN canonical |-> NoRow]
        BY <3>1, <3>2 DEF DInv, Shapes
      <3>5. QED
        BY <3>2, <3>3, <3>4
    <2>2. CASE ReadRecord
      BY <1>2, <2>2 DEF ReadRecord, DInv, Shapes, SameEntries
    <2>3. CASE Publish \/ BuilderDies
      BY <2>3 DEF Publish, BuilderDies, NoBuild, DInv, Shapes
    <2>4. CASE OutputTaken \/ \E r \in Records : DumpReplaced(r)
      BY <2>4 DEF OutputTaken, DumpReplaced, DInv, SameEntries
    <2>5. QED
      BY <2>1, <2>2, <2>3, <2>4
  <1>4. /\ IsDelta => delta' = delta
        /\ IsDelta' => DOMAIN delta'.rows = DOMAIN canonical
    <2>1. CASE Publish /\ delta' # delta
      <3>1. delta = Unpublished /\ delta'.rows = Flushed(build).staged /\ build.pc = "scan"
        BY <2>1 DEF Publish
      <3>2. QED
        BY <1>2, <3>1 DEF IsDelta, DInv, SameEntries
    <2>2. CASE OutputTaken
      BY <2>2 DEF OutputTaken, IsDelta
    <2>3. CASE delta' = delta
      BY <2>3 DEF IsDelta, DInv, SameEntries
    <2>4. QED
      BY <2>1, <2>2, <2>3 DEF StartBuild, ReadRecord, BuilderDies, DumpReplaced
  <1>5. Shapes' /\ SameEntries'
    BY <1>1, <1>3, <1>4 DEF DInv, Shapes, SameEntries
  <1>6. AppliesDelta' /\ CheckWritesNothing'
    BY <1>1, <1>4 DEF DInv, AppliesDelta, CheckWritesNothing, IsDelta
  <1>7. StillFits'
    <2>1. CASE applier.pc = "write"
      BY <1>1, <1>4, <2>1, FitsUnchanged DEF DInv, AppliesDelta, StillFits
    <2>2. CASE applier.pc # "write"
      BY <1>1, <2>2 DEF StillFits
    <2>3. QED
      BY <2>1, <2>2
  <1>8. QED
    BY <1>5, <1>6, <1>7 DEF DInv

\* The steps of the applier that write nothing.
LEMMA ReadingInv ==
    ASSUME DInv,
           \/ \E range \in Ranges : StartApply(range)
           \/ Preflight \/ FinishApply \/ ApplierDies
    PROVE  DInv'
  <1>1. UNCHANGED <<canonical, target, build, delta>>
    BY DEF StartApply, Preflight, FinishApply, ApplierDies
  <1>2. SameEntries'
    BY <1>1 DEF DInv, SameEntries, IsDelta
  <1>3. CASE \E range \in Ranges : StartApply(range)
    <2>1. PICK range \in Ranges :
             /\ IsDelta
             /\ applier' = [pc |-> "check", range |-> range, todo |-> RowsIn(range),
                            before |-> target, runs |-> applier.runs + 1]
      BY <1>3 DEF StartApply, IsDelta
    <2>2. RowsIn(range) \subseteq DOMAIN canonical
      BY <2>1 DEF RowsIn, DInv, SameEntries
    <2>3. QED
      BY <1>1, <1>2, <2>1, <2>2
         DEF DInv, Shapes, AppliesDelta, CheckWritesNothing, StillFits, IsDelta
  <1>4. CASE Preflight
    <2>1. /\ applier.pc = "check" /\ DOMAIN applier' = DOMAIN applier
          /\ applier'.todo = applier.todo /\ applier'.before = applier.before
          /\ applier'.pc \in {"write", "failed"}
          /\ applier'.pc = "write" => Misfits(applier.todo) = {}
      BY <1>4 DEF Preflight, DInv, Shapes
    <2>2. StillFits'
      BY <1>1, <2>1, FitsUnchanged DEF StillFits
    <2>3. QED
      BY <1>1, <1>2, <2>1, <2>2 DEF DInv, Shapes, AppliesDelta, CheckWritesNothing, IsDelta
  <1>5. CASE FinishApply \/ ApplierDies
    <2>1. DOMAIN applier' = DOMAIN applier /\ applier'.pc \in {"done", "idle"}
      BY <1>5 DEF FinishApply, ApplierDies, DInv, Shapes
    <2>2. QED
      BY <1>1, <1>2, <2>1 DEF DInv, Shapes, AppliesDelta, CheckWritesNothing, StillFits
  <1>6. QED
    BY <1>3, <1>4, <1>5

\* A batch of rows that fit is written, and leaves the others as they are.
LEMMA BatchInv ==
    ASSUME DInv, ApplyBatch
    PROVE  DInv'
  <1>1. PICK batch \in Batches(applier.todo) :
           IF Misfits(batch) # {}
           THEN applier' = [applier EXCEPT !.pc = "failed"] /\ UNCHANGED target
           ELSE /\ target' = [e \in DOMAIN target |->
                     IF e \in batch THEN MergePatch(target[e], delta.rows[e], delta.digest)
                     ELSE target[e]]
                /\ applier' = [applier EXCEPT !.todo = @ \ batch]
    BY DEF ApplyBatch
  <1>2. applier.pc = "write" /\ UNCHANGED <<canonical, build, delta>>
    BY DEF ApplyBatch
  <1>3. batch \subseteq applier.todo
    BY DEF Batches
  <1>4. Misfits(applier.todo) = {} /\ applier.todo \subseteq DOMAIN target
    BY <1>2 DEF DInv, StillFits, AppliesDelta, SameEntries
  <1>5. Misfits(batch) = {}
    BY <1>3, <1>4 DEF Misfits
  <1>6. /\ DOMAIN target' = DOMAIN target
        /\ \A e \in applier.todo \ batch : target'[e] = target[e]
        /\ DOMAIN applier' = DOMAIN applier
        /\ applier'.pc = "write" /\ applier'.todo = applier.todo \ batch
    BY <1>1, <1>2, <1>4, <1>5 DEF DInv, Shapes
  <1>7. Misfits(applier.todo)' = {}
    <2>1. ASSUME NEW e \in applier'.todo
          PROVE  ~Refused(target'[e], delta'.rows[e])
      <3>1. e \in applier.todo /\ target'[e] = target[e] /\ delta' = delta
        BY <1>2, <1>6, <2>1
      <3>2. ~Refused(target[e], delta.rows[e])
        BY <1>4, <3>1 DEF Misfits
      <3>3. QED
        BY <3>1, <3>2 DEF Refused, Drifted
    <2>2. QED
      BY <2>1 DEF Misfits
  <1>8. QED
    BY <1>2, <1>6, <1>7
       DEF DInv, Shapes, SameEntries, AppliesDelta, CheckWritesNothing, StillFits, IsDelta

-----------------------------------------------------------------------------
(* Theorems.                                                               *)

\* What the preflight found to fit fits until it is written, whatever is built,
\* replaced, cut and repeated meanwhile (apply_delta).
THEOREM DeltaInvariant == DeltaSpec => []DInv
  <1>1. DeltaInit => DInv
    BY InitInv
  <1>2. DInv /\ [DeltaNext]_deltaVars => DInv'
    <2>1. ASSUME DInv, UNCHANGED deltaVars PROVE DInv'
      BY <2>1, FitsUnchanged
         DEF deltaVars, DInv, Shapes, SameEntries, AppliesDelta, CheckWritesNothing, StillFits,
             IsDelta
    <2>2. QED
      BY <2>1, BuilderInv, ReadingInv, BatchInv DEF DeltaNext
  <1>3. QED
    BY <1>1, <1>2, PTL DEF DeltaSpec

\* A refused application has changed no row of the shard: "instead of partially
\* applying it" (the comment of the preflight in apply_delta).
THEOREM RefusalWritesNothing == DeltaSpec => []RefusedWritesNothing
  <1>1. DInv => RefusedWritesNothing
    BY DEF DInv, CheckWritesNothing, RefusedWritesNothing
  <1>2. QED
    BY <1>1, DeltaInvariant, PTL

-------------------------------------------------------------------------------
(***************************************************************************)
(* What a second application of a delta changes: nothing.  A sense, a list *)
(* of values and a column with its companion absorb what they are given.   *)
(***************************************************************************)
Adds == INSTANCE LeftFolds WITH Op <- AddUnique
Pairs == INSTANCE LeftFolds WITH Op <- TakePair
Joins == INSTANCE LeftFolds WITH Op <- MergeSense
Changes == INSTANCE LeftFolds WITH Op <- AddChange
Compacts == INSTANCE LeftFolds WITH Op <- MergeCompact
Additions == INSTANCE LeftFolds WITH Op <- TakeAddition
Defs == INSTANCE LeftFolds WITH Op <- AddDefined
Phrases == INSTANCE LeftFolds WITH Op <- AddPhrase

LEMMA AddsSame ==
    \A base, seq : Adds!FoldLeft(AddUnique, base, seq) = FoldLeft(AddUnique, base, seq)
  BY DEF FoldLeft, Adds!FoldLeft, MapThenFoldSet, Adds!MapThenFoldSet, Max, Adds!Max
LEMMA PairsSame ==
    \A base, seq : Pairs!FoldLeft(TakePair, base, seq) = FoldLeft(TakePair, base, seq)
  BY DEF FoldLeft, Pairs!FoldLeft, MapThenFoldSet, Pairs!MapThenFoldSet, Max, Pairs!Max
LEMMA JoinsSame ==
    \A base, seq : Joins!FoldLeft(MergeSense, base, seq) = FoldLeft(MergeSense, base, seq)
  BY DEF FoldLeft, Joins!FoldLeft, MapThenFoldSet, Joins!MapThenFoldSet, Max, Joins!Max
LEMMA ChangesSame ==
    \A base, seq : Changes!FoldLeft(AddChange, base, seq) = FoldLeft(AddChange, base, seq)
  BY DEF FoldLeft, Changes!FoldLeft, MapThenFoldSet, Changes!MapThenFoldSet, Max, Changes!Max
LEMMA CompactsSame ==
    \A base, seq : Compacts!FoldLeft(MergeCompact, base, seq) = FoldLeft(MergeCompact, base, seq)
  BY DEF FoldLeft, Compacts!FoldLeft, MapThenFoldSet, Compacts!MapThenFoldSet, Max, Compacts!Max
LEMMA AdditionsSame ==
    \A base, seq : Additions!FoldLeft(TakeAddition, base, seq) = FoldLeft(TakeAddition, base, seq)
  BY DEF FoldLeft, Additions!FoldLeft, MapThenFoldSet, Additions!MapThenFoldSet, Max, Additions!Max
LEMMA DefsSame ==
    \A base, seq : Defs!FoldLeft(AddDefined, base, seq) = FoldLeft(AddDefined, base, seq)
  BY DEF FoldLeft, Defs!FoldLeft, MapThenFoldSet, Defs!MapThenFoldSet, Max, Defs!Max
LEMMA PhrasesSame ==
    \A base, seq : Phrases!FoldLeft(AddPhrase, base, seq) = FoldLeft(AddPhrase, base, seq)
  BY DEF FoldLeft, Phrases!FoldLeft, MapThenFoldSet, Phrases!MapThenFoldSet, Max, Phrases!Max

\* A list takes what it does not hold while there is room.
Absorbs(list, v) == v \in ToSet(list) \/ Len(list) >= Capacity

LEMMA AddUniqueFacts ==
    ASSUME NEW list \in Seq(Lexeme), NEW v \in Lexeme
    PROVE  /\ AddUnique(list, v) \in Seq(Lexeme)
           /\ AddUnique(list, v) = list <=> Absorbs(list, v)
           /\ Absorbs(AddUnique(list, v), v)
           /\ \A u : Absorbs(list, u) => Absorbs(AddUnique(list, v), u)
  <1>1. CASE Absorbs(list, v)
    <2>1. AddUnique(list, v) = list
      BY <1>1 DEF AddUnique, Absorbs
    <2> QED
      BY <1>1, <2>1
  <1>2. CASE ~Absorbs(list, v)
    <2>1. AddUnique(list, v) = Append(list, v)
      BY <1>2 DEF AddUnique, Absorbs
    <2>2. PICK longer, n : longer = Append(list, v) /\ n = Len(list)
      OBVIOUS
    <2>3. /\ longer \in Seq(Lexeme) /\ longer # list /\ Len(longer) = n + 1 /\ n \in Nat
          /\ ToSet(longer) = ToSet(list) \cup {v}
      BY <2>2, AppendFacts
    <2>4. Absorbs(longer, v) /\ \A u : Absorbs(list, u) => Absorbs(longer, u)
      BY <2>2, <2>3, DeltaConstants DEF Absorbs
    <2> QED
      BY <1>2, <2>1, <2>2, <2>3, <2>4
  <1> QED
    BY <1>1, <1>2

LEMMA UniqueFacts ==
    ASSUME NEW list \in Seq(Lexeme), NEW more \in Seq(Lexeme)
    PROVE  /\ AppendUnique(list, more) \in Seq(Lexeme)
           /\ \A i \in DOMAIN more : Absorbs(AppendUnique(list, more), more[i])
           /\ \A u : Absorbs(list, u) => Absorbs(AppendUnique(list, more), u)
  <1>1. PICK n \in Nat : DOMAIN more = 1 .. n /\ \A i \in 1 .. n : more[i] \in Lexeme
    BY ElementOfSeq, LenProperties
  <1> DEFINE A == {a \in Seq(Lexeme) : \A u : Absorbs(list, u) => Absorbs(a, u)}
  <1>2. Adds!Absorbing(A, more, n)
    <2>1. \A a \in A : \A i \in 1 .. n :
             /\ AddUnique(a, more[i]) \in A
             /\ AddUnique(AddUnique(a, more[i]), more[i]) = AddUnique(a, more[i])
      BY <1>1, AddUniqueFacts
    <2>2. \A a \in A : \A i, j \in 1 .. n :
             AddUnique(a, more[i]) = a
                => AddUnique(AddUnique(a, more[j]), more[i]) = AddUnique(a, more[j])
      BY <1>1, AddUniqueFacts
    <2> HIDE DEF A
    <2> QED
      BY <2>1, <2>2 DEF Adds!Absorbing
  <1>3. list \in A
    OBVIOUS
  <1>4. /\ FoldLeft(AddUnique, list, more) \in A
        /\ Adds!Fixed(FoldLeft(AddUnique, list, more), more, n)
    <2> HIDE DEF A
    <2> QED
      BY <1>1, <1>2, <1>3, Adds!FoldAbsorbs, AddsSame
  <1>5. PICK last \in A : /\ last = AppendUnique(list, more)
                          /\ \A i \in 1 .. n : AddUnique(last, more[i]) = last
    BY <1>4 DEF Adds!Fixed, AppendUnique
  <1> QED
    BY <1>1, <1>5, AddUniqueFacts

\* What a list has absorbed, it does not take again.
AbsorbsAll(list, more) == \A i \in DOMAIN more : Absorbs(list, more[i])

LEMMA AppendNothing ==
    ASSUME NEW list \in Seq(Lexeme), NEW more \in Seq(Lexeme)
    PROVE  AppendUnique(list, more) = list <=> AbsorbsAll(list, more)
  <1>1. PICK n \in Nat : DOMAIN more = 1 .. n /\ \A i \in 1 .. n : more[i] \in Lexeme
    BY ElementOfSeq, LenProperties
  <1>2. ASSUME AbsorbsAll(list, more) PROVE AppendUnique(list, more) = list
    <2>1. \A i \in 1 .. n : AddUnique(list, more[i]) = list
      BY <1>1, <1>2, AddUniqueFacts DEF AbsorbsAll
    <2> QED
      BY <1>1, <2>1, Adds!FoldOfNothingNew, AddsSame DEF AppendUnique
  <1> QED
    BY <1>2, UniqueFacts DEF AbsorbsAll

LEMMA AppendAgain ==
    ASSUME NEW list \in Seq(Lexeme), NEW more \in Seq(Lexeme), NEW other \in Seq(Lexeme)
    PROVE  /\ AppendUnique(AppendUnique(list, more), more) = AppendUnique(list, more)
           /\ AppendUnique(list, more) = list =>
                 AppendUnique(AppendUnique(list, other), more) = AppendUnique(list, other)
  <1>1. AppendUnique(list, more) \in Seq(Lexeme) /\ AppendUnique(list, other) \in Seq(Lexeme)
    BY UniqueFacts
  <1>2. AbsorbsAll(AppendUnique(list, more), more)
    BY UniqueFacts DEF AbsorbsAll
  <1>3. AbsorbsAll(list, more) => AbsorbsAll(AppendUnique(list, other), more)
    BY UniqueFacts DEF AbsorbsAll
  <1> QED
    BY <1>1, <1>2, <1>3, AppendNothing

-----------------------------------------------------------------------------
\* The sense a patch goes to.
IsPatch(p) == p.gloss \in Gloss /\ p.id \in SenseId /\ p.relations \in Relation

LEMMA MatchFacts ==
    ASSUME NEW senses, NEW n \in Nat, DOMAIN senses = 1 .. n, NEW p
    PROVE  \/ /\ MatchOf(senses, p) \in 1 .. n /\ Matches(senses[MatchOf(senses, p)], p)
              /\ \A j \in 1 .. n : Matches(senses[j], p) => MatchOf(senses, p) <= j
           \/ MatchOf(senses, p) = 0 /\ \A j \in 1 .. n : ~Matches(senses[j], p)
  <1> DEFINE Hits == {i \in DOMAIN senses : Matches(senses[i], p)}
  <1>1. MatchOf(senses, p) = IF Hits = {} THEN 0
                             ELSE CHOOSE i \in Hits : \A j \in Hits : i <= j
    BY DEF MatchOf, FirstIn
  <1>2. Hits \subseteq Nat
    OBVIOUS
  <1>3. Hits # {} => \E i \in Hits : \A j \in Hits : i <= j
    <2> HIDE DEF Hits
    <2> QED
      BY <1>2, LeastNumber
  <1>4. \/ MatchOf(senses, p) \in Hits /\ \A j \in Hits : MatchOf(senses, p) <= j
        \/ MatchOf(senses, p) = 0 /\ Hits = {}
    <2> HIDE DEF Hits
    <2> QED
      BY <1>1, <1>3
  <1> QED
    BY <1>4

\* Where senses differ in gloss and id nowhere, a patch goes to the same one.
SameIdentity(s, t) == s.gloss = t.gloss /\ s.id = t.id

LEMMA MatchStays ==
    ASSUME NEW senses, NEW n \in Nat, DOMAIN senses = 1 .. n,
           NEW longer, NEW m \in Nat, DOMAIN longer = 1 .. m, n <= m,
           \A j \in 1 .. n : SameIdentity(longer[j], senses[j]), NEW p,
           MatchOf(senses, p) # 0
    PROVE  MatchOf(longer, p) = MatchOf(senses, p)
  <1>1. PICK i \in 1 .. n : /\ i = MatchOf(senses, p) /\ Matches(senses[i], p)
                            /\ \A j \in 1 .. n : Matches(senses[j], p) => i <= j
    BY MatchFacts
  <1>2. \A j \in 1 .. n : Matches(longer[j], p) <=> Matches(senses[j], p)
    BY DEF Matches, SameIdentity
  <1>3. i \in 1 .. m
    OBVIOUS
  <1>4. PICK k \in 1 .. m : /\ k = MatchOf(longer, p) /\ Matches(longer[k], p)
                            /\ \A j \in 1 .. m : Matches(longer[j], p) => k <= j
    BY <1>1, <1>2, <1>3, MatchFacts
  <1>5. k <= i
    BY <1>1, <1>2, <1>3, <1>4
  <1>6. k \in 1 .. n
    BY <1>5
  <1>7. i <= k
    BY <1>1, <1>2, <1>4, <1>6
  <1> QED
    BY <1>1, <1>4, <1>5, <1>7

LEMMA ExtendedFacts ==
    ASSUME NEW r \in Relation, NEW a \in Relation, NEW b \in Relation
    PROVE  /\ Extended(r, a) \in Relation
           /\ Extended(Extended(r, a), a) = Extended(r, a)
           /\ Extended(r, a) = r => Extended(Extended(r, b), a) = Extended(r, b)
  <1>0. \A x, y \in Relation : /\ Extended(x, y) \in Relation
           /\ \A f \in RelationField : Extended(x, y)[f] = AppendUnique(x[f], y[f])
    BY UniqueFacts DEF Relation, Extended
  <1>1. \A x, y \in Relation :
           (\A f \in RelationField : AppendUnique(x[f], y[f]) = x[f]) => Extended(x, y) = x
    BY DEF Relation, Extended
  <1>2. Extended(r, a) \in Relation /\ Extended(r, b) \in Relation
    BY <1>0
  <1>3. ASSUME NEW f \in RelationField
        PROVE  /\ AppendUnique(Extended(r, a)[f], a[f]) = Extended(r, a)[f]
               /\ Extended(r, a)[f] = r[f] => AppendUnique(Extended(r, b)[f], a[f]) = Extended(r, b)[f]
    <2>1. r[f] \in Seq(Lexeme) /\ a[f] \in Seq(Lexeme) /\ b[f] \in Seq(Lexeme)
      BY DEF Relation
    <2> QED
      BY <1>0, <2>1, AppendAgain
  <1>4. Extended(Extended(r, a), a) = Extended(r, a)
    BY <1>1, <1>2, <1>3
  <1>5. ASSUME Extended(r, a) = r PROVE Extended(Extended(r, b), a) = Extended(r, b)
    BY <1>1, <1>2, <1>3, <1>5
  <1> QED
    BY <1>2, <1>4, <1>5

LEMMA EnrichedFacts ==
    ASSUME NEW s \in RichSense, NEW p, IsPatch(p), NEW q, IsPatch(q)
    PROVE  /\ Enriched(s, p) \in RichSense /\ SameIdentity(Enriched(s, p), s)
           /\ Enriched(Enriched(s, p), p) = Enriched(s, p)
           /\ Enriched(s, p) = s => Enriched(Enriched(s, q), p) = Enriched(s, q)
  <1>1. /\ s.relations \in Relation /\ p.relations \in Relation /\ q.relations \in Relation
        /\ s.attributed \in SUBSET RelationField /\ s.gloss \in Gloss /\ s.id \in SenseId
    BY DEF RichSense, IsPatch
  <1>2. /\ Extended(s.relations, p.relations) \in Relation
        /\ Extended(s.relations, q.relations) \in Relation
        /\ Extended(Extended(s.relations, p.relations), p.relations)
             = Extended(s.relations, p.relations)
        /\ Extended(s.relations, p.relations) = s.relations =>
             Extended(Extended(s.relations, q.relations), p.relations)
               = Extended(s.relations, q.relations)
    BY <1>1, ExtendedFacts
  <1> DEFINE Filled(x) == {f \in RelationField : x.relations[f] # <<>>}
  <1>3. /\ Enriched(s, p) = [gloss |-> s.gloss, id |-> s.id,
                             relations |-> Extended(s.relations, p.relations),
                             attributed |-> s.attributed \cup Filled(p)]
        /\ Enriched(s, q) = [gloss |-> s.gloss, id |-> s.id,
                             relations |-> Extended(s.relations, q.relations),
                             attributed |-> s.attributed \cup Filled(q)]
    BY DEF Enriched
  <1>4. \A x : Enriched(x, p) = [gloss |-> x.gloss, id |-> x.id,
                                 relations |-> Extended(x.relations, p.relations),
                                 attributed |-> x.attributed \cup Filled(p)]
    BY DEF Enriched
  <1>5. Filled(p) \in SUBSET RelationField /\ Filled(q) \in SUBSET RelationField
    OBVIOUS
  <1> HIDE DEF Filled
  <1>6. Enriched(s, p) \in RichSense /\ SameIdentity(Enriched(s, p), s)
    BY <1>1, <1>2, <1>3, <1>5 DEF RichSense, SameIdentity
  <1>7. Enriched(Enriched(s, p), p) = Enriched(s, p)
    <2>0. PICK t : t = Enriched(s, p)
      OBVIOUS
    <2>1. /\ t.gloss = s.gloss /\ t.id = s.id /\ t.relations = Extended(s.relations, p.relations)
          /\ t.attributed = s.attributed \cup Filled(p)
      BY <1>3, <2>0
    <2>3. Enriched(t, p) =
            [gloss |-> s.gloss, id |-> s.id,
             relations |-> Extended(Extended(s.relations, p.relations), p.relations),
             attributed |-> (s.attributed \cup Filled(p)) \cup Filled(p)]
      BY <1>4, <2>1
    <2>2. (s.attributed \cup Filled(p)) \cup Filled(p) = s.attributed \cup Filled(p)
      OBVIOUS
    <2> QED
      BY <1>2, <1>3, <2>0, <2>3, <2>2
  <1>8. ASSUME Enriched(s, p) = s PROVE Enriched(Enriched(s, q), p) = Enriched(s, q)
    <2>1. Extended(s.relations, p.relations) = s.relations
      BY <1>3, <1>8
    <2>2. s.attributed \cup Filled(p) = s.attributed
      BY <1>3, <1>8
    <2>3. (s.attributed \cup Filled(q)) \cup Filled(p) = s.attributed \cup Filled(q)
      BY <2>2
    <2>4. PICK t : t = Enriched(s, q)
      OBVIOUS
    <2>5. /\ t.gloss = s.gloss /\ t.id = s.id /\ t.relations = Extended(s.relations, q.relations)
          /\ t.attributed = s.attributed \cup Filled(q)
      BY <1>3, <2>4
    <2>6. Enriched(t, p) =
            [gloss |-> s.gloss, id |-> s.id,
             relations |-> Extended(Extended(s.relations, q.relations), p.relations),
             attributed |-> (s.attributed \cup Filled(q)) \cup Filled(p)]
      BY <1>4, <2>5
    <2> QED
      BY <1>2, <1>3, <2>1, <2>3, <2>4, <2>6
  <1> QED
    BY <1>6, <1>7, <1>8

LEMMA FreshFacts ==
    ASSUME NEW p, IsPatch(p)
    PROVE  NewSense(p) \in RichSense /\ SameIdentity(NewSense(p), p)
  <1>1. NoRelations \in Relation
    BY DEF NoRelations, Relation
  <1> QED
    BY <1>1 DEF NewSense, RichSense, SameIdentity, IsPatch

\* MergeSense, entry by entry.
LEMMA MergeSenseFacts ==
    ASSUME NEW senses \in Seq(RichSense), NEW n, n = Len(senses), NEW p, IsPatch(p),
           NEW joined, joined = MergeSense(senses, p), NEW i, i = MatchOf(senses, p)
    PROVE  /\ joined \in Seq(RichSense)
           /\ i > 0 => /\ i \in 1 .. n /\ DOMAIN joined = 1 .. n
                       /\ joined[i] = Enriched(senses[i], p)
                       /\ \A j \in 1 .. n : j # i => joined[j] = senses[j]
           /\ i = 0 => /\ DOMAIN joined = 1 .. (n + 1)
                       /\ joined[n + 1] = Enriched(NewSense(p), p)
                       /\ \A j \in 1 .. n : joined[j] = senses[j]
           /\ i \in Nat /\ n \in Nat /\ DOMAIN senses = 1 .. n
           /\ \A j \in 1 .. n : SameIdentity(joined[j], senses[j])
  <1>1. n \in Nat /\ DOMAIN senses = 1 .. n /\ \A j \in 1 .. n : senses[j] \in RichSense
    OBVIOUS
  <1>2. i \in 1 .. n \/ i = 0
    BY <1>1, MatchFacts
  <1>3. CASE i = 0
    <2>1. joined = Append(senses, Enriched(NewSense(p), p))
      BY <1>3 DEF MergeSense
    <2>2. PICK new \in RichSense : new = Enriched(NewSense(p), p)
      BY EnrichedFacts, FreshFacts
    <2>3. /\ joined \in Seq(RichSense) /\ Len(joined) = n + 1 /\ joined[n + 1] = new
          /\ \A j \in 1 .. n : joined[j] = senses[j]
      BY <2>1, <2>2, AppendFacts
    <2>4. DOMAIN joined = 1 .. (n + 1)
      BY <2>3
    <2> QED
      BY <1>1, <1>3, <2>2, <2>3, <2>4 DEF SameIdentity
  <1>4. CASE i \in 1 .. n
    <2>1. joined = [senses EXCEPT ![i] = Enriched(senses[i], p)]
      BY <1>1, <1>4 DEF MergeSense
    <2>2. PICK new \in RichSense : new = Enriched(senses[i], p) /\ SameIdentity(new, senses[i])
      BY <1>1, <1>4, EnrichedFacts
    <2>3. joined = [senses EXCEPT ![i] = new]
      BY <2>1, <2>2
    <2>4. /\ joined \in Seq(RichSense) /\ DOMAIN joined = 1 .. n /\ joined[i] = new
          /\ \A j \in 1 .. n : j # i => joined[j] = senses[j]
      BY <1>1, <1>4, <2>3
    <2> QED
      BY <1>1, <1>4, <2>2, <2>4 DEF SameIdentity
  <1> QED
    BY <1>2, <1>3, <1>4

LEMMA SameSequence ==
    ASSUME NEW V, NEW s \in Seq(V), NEW t \in Seq(V), DOMAIN s = DOMAIN t,
           \A j \in DOMAIN s : s[j] = t[j]
    PROVE  s = t
  OBVIOUS

\* A sense list that has absorbed a patch has a sense for it, with all it gives.
LEMMA SenseAbsorbed ==
    ASSUME NEW senses \in Seq(RichSense), NEW p, IsPatch(p), NEW i, i = MatchOf(senses, p)
    PROVE  MergeSense(senses, p) = senses <=> i # 0 /\ Enriched(senses[i], p) = senses[i]
  <1>1. PICK joined, n : joined = MergeSense(senses, p) /\ n = Len(senses)
    OBVIOUS
  <1>2. /\ joined \in Seq(RichSense)
        /\ i > 0 => /\ i \in 1 .. n /\ DOMAIN joined = 1 .. n
                    /\ joined[i] = Enriched(senses[i], p)
                    /\ \A j \in 1 .. n : j # i => joined[j] = senses[j]
        /\ i = 0 => DOMAIN joined = 1 .. (n + 1)
        /\ i \in Nat /\ n \in Nat /\ DOMAIN senses = 1 .. n
    BY <1>1, MergeSenseFacts
  <1>3. CASE i = 0
    <2>1. DOMAIN joined # DOMAIN senses
      BY <1>2, <1>3
    <2> QED
      BY <1>1, <1>3, <2>1
  <1>4. CASE i > 0
    <2>1. joined = senses => joined[i] = senses[i]
      OBVIOUS
    <2>2. ASSUME joined[i] = senses[i] PROVE joined = senses
      BY <1>2, <1>4, <2>2, SameSequence
    <2> QED
      BY <1>1, <1>2, <1>4, <2>1, <2>2
  <1> QED
    BY <1>2, <1>3, <1>4

LEMMA MergeSenseAgain ==
    ASSUME NEW senses \in Seq(RichSense), NEW p, IsPatch(p), NEW q, IsPatch(q)
    PROVE  /\ MergeSense(senses, p) \in Seq(RichSense)
           /\ MergeSense(MergeSense(senses, p), p) = MergeSense(senses, p)
           /\ MergeSense(senses, p) = senses =>
                 MergeSense(MergeSense(senses, q), p) = MergeSense(senses, q)
  <1>1. PICK n, i, j, a, b : /\ n = Len(senses) /\ i = MatchOf(senses, p) /\ j = MatchOf(senses, q)
                            /\ a = MergeSense(senses, p) /\ b = MergeSense(senses, q)
    OBVIOUS
  <1>2. /\ a \in Seq(RichSense)
        /\ i > 0 => /\ i \in 1 .. n /\ DOMAIN a = 1 .. n /\ a[i] = Enriched(senses[i], p)
        /\ i = 0 => /\ DOMAIN a = 1 .. (n + 1) /\ a[n + 1] = Enriched(NewSense(p), p)
                    /\ \A k \in 1 .. n : a[k] = senses[k]
        /\ i \in Nat /\ n \in Nat /\ DOMAIN senses = 1 .. n
        /\ \A k \in 1 .. n : SameIdentity(a[k], senses[k])
    BY <1>1, MergeSenseFacts
  <1>3. /\ b \in Seq(RichSense)
        /\ j > 0 => /\ j \in 1 .. n /\ DOMAIN b = 1 .. n
                    /\ b[j] = Enriched(senses[j], q)
                    /\ \A k \in 1 .. n : k # j => b[k] = senses[k]
        /\ j = 0 => /\ DOMAIN b = 1 .. (n + 1)
                    /\ b[n + 1] = Enriched(NewSense(q), q)
                    /\ \A k \in 1 .. n : b[k] = senses[k]
        /\ j \in Nat
        /\ \A k \in 1 .. n : SameIdentity(b[k], senses[k])
    BY <1>1, MergeSenseFacts
  <1>4. MergeSense(a, p) = a
    <2>1. CASE i > 0
      <3>1. MatchOf(a, p) = i
        BY <1>1, <1>2, <2>1, MatchStays
      <3>2. Enriched(a[i], p) = a[i]
        <4>1. senses[i] \in RichSense
          BY <1>2, <2>1
        <4> QED
          BY <1>2, <2>1, <4>1, EnrichedFacts
      <3> QED
        BY <1>2, <2>1, <3>1, <3>2, SenseAbsorbed
    <2>2. CASE i = 0
      <3>1. PICK m \in Nat : m = n + 1
        BY <1>2
      <3>2. NewSense(p) \in RichSense /\ SameIdentity(NewSense(p), p)
        BY FreshFacts
      <3>3. Matches(a[m], p)
        <4>1. SameIdentity(a[m], NewSense(p))
          BY <1>2, <2>2, <3>1, <3>2, EnrichedFacts
        <4> QED
          BY <3>2, <4>1 DEF Matches, SameIdentity
      <3>4. \A k \in 1 .. n : ~Matches(a[k], p)
        <4>1. \A k \in 1 .. n : ~Matches(senses[k], p)
          <5>1. 0 \notin 1 .. n /\ MatchOf(senses, p) = 0
            BY <1>1, <2>2
          <5> QED
            BY <1>2, <5>1, MatchFacts
        <4> QED
          BY <1>2, <2>2, <4>1
      <3>5. MatchOf(a, p) = m
        <4>1. DOMAIN a = 1 .. m /\ m \in 1 .. m
          BY <1>2, <2>2, <3>1
        <4>2. MatchOf(a, p) \in 1 .. m /\ Matches(a[MatchOf(a, p)], p)
          BY <3>3, <4>1, MatchFacts
        <4>3. PICK k \in 1 .. m : k = MatchOf(a, p) /\ Matches(a[k], p)
          BY <4>2
        <4>4. k \notin 1 .. n
          BY <3>4, <4>3
        <4> QED
          BY <1>2, <3>1, <4>3, <4>4
      <3>6. Enriched(a[m], p) = a[m]
        BY <1>2, <2>2, <3>1, <3>2, EnrichedFacts
      <3> QED
        BY <1>2, <3>1, <3>5, <3>6, SenseAbsorbed
    <2> QED
      BY <1>2, <2>1, <2>2
  <1>5. ASSUME a = senses PROVE MergeSense(b, p) = b
    <2>1. i # 0 /\ i \in 1 .. n /\ Enriched(senses[i], p) = senses[i]
      BY <1>1, <1>2, <1>5, SenseAbsorbed
    <2>2. PICK m \in Nat : n <= m /\ DOMAIN b = 1 .. m
      <3>1. n \in Nat /\ n + 1 \in Nat /\ n <= n + 1
        BY <1>2
      <3> QED
        BY <1>3, <3>1
    <2>3. MatchOf(b, p) = i
      BY <1>1, <1>2, <1>3, <2>1, <2>2, MatchStays
    <2>4. Enriched(b[i], p) = b[i]
      <3>1. senses[i] \in RichSense
        BY <1>2, <2>1
      <3>2. b[i] = senses[i] \/ b[i] = Enriched(senses[i], q)
        BY <1>3, <2>1
      <3> QED
        BY <2>1, <3>1, <3>2, EnrichedFacts
    <2> QED
      BY <1>3, <2>1, <2>3, <2>4, SenseAbsorbed
  <1> QED
    BY <1>1, <1>2, <1>4, <1>5

\* What patches give, they give once.
PatchList(patches) ==
    \E n \in Nat : DOMAIN patches = 1 .. n /\ \A i \in 1 .. n : IsPatch(patches[i])

LEMMA MergeSensesAgain ==
    ASSUME NEW senses \in Seq(RichSense), NEW patches, PatchList(patches)
    PROVE  /\ MergeSenses(senses, patches) \in Seq(RichSense)
           /\ MergeSenses(MergeSenses(senses, patches), patches) = MergeSenses(senses, patches)
  <1>1. PICK n \in Nat : DOMAIN patches = 1 .. n /\ \A i \in 1 .. n : IsPatch(patches[i])
    BY DEF PatchList
  <1>2. Joins!Absorbing(Seq(RichSense), patches, n)
    <2>1. \A a \in Seq(RichSense) : \A i \in 1 .. n :
             /\ MergeSense(a, patches[i]) \in Seq(RichSense)
             /\ MergeSense(MergeSense(a, patches[i]), patches[i]) = MergeSense(a, patches[i])
      BY <1>1, MergeSenseAgain
    <2>2. \A a \in Seq(RichSense) : \A i, j \in 1 .. n :
             MergeSense(a, patches[i]) = a
                => MergeSense(MergeSense(a, patches[j]), patches[i]) = MergeSense(a, patches[j])
      BY <1>1, MergeSenseAgain
    <2> QED
      BY <2>1, <2>2 DEF Joins!Absorbing
  <1>3. FoldLeft(MergeSense, senses, patches) \in Seq(RichSense)
    BY <1>1, <1>2, Joins!FoldAbsorbs, JoinsSame
  <1>4. FoldLeft(MergeSense, FoldLeft(MergeSense, senses, patches), patches)
          = FoldLeft(MergeSense, senses, patches)
    BY <1>1, <1>2, Joins!FoldAgain, JoinsSame
  <1> QED
    BY <1>3, <1>4 DEF MergeSenses

-----------------------------------------------------------------------------
\* A flat column and its rich companion.
RichEntry == [word : Lexeme, usable : BOOLEAN]
Columns == [words : Seq(Lexeme), entries : Seq(RichEntry)]
Rich(word) == [word |-> word, usable |-> TRUE]

\* TakePair, case by case.
Given(a, w) == w \in ToSet(a.words) /\ w \in Usable(a.entries)
Denied(a, w) ==
    \/ w \notin Usable(a.entries) /\ w \in Named(a.entries)
    \/ w \notin ToSet(a.words) /\ Len(a.words) >= Capacity
    \/ w \notin Usable(a.entries) /\ Len(a.entries) >= Capacity

LEMMA RichAppended ==
    ASSUME NEW entries \in Seq(RichEntry), NEW w \in Lexeme, NEW more, more = Append(entries, Rich(w))
    PROVE  /\ more \in Seq(RichEntry) /\ more # entries /\ Len(entries) \in Nat
           /\ Len(more) = Len(entries) + 1
           /\ Usable(more) = Usable(entries) \cup {w}
           /\ Named(more) = Named(entries) \cup {w}
  <1>0. Rich(w) \in RichEntry /\ Rich(w).word = w /\ Rich(w).usable
    BY Zenon DEF Rich, RichEntry
  <1>1. PICK x \in RichEntry : x = Rich(w) /\ x.word = w /\ x.usable = TRUE
    BY <1>0
  <1>2. PICK n \in Nat : n = Len(entries) /\ DOMAIN entries = 1 .. n
    OBVIOUS
  <1>3. /\ more \in Seq(RichEntry) /\ more # entries /\ Len(more) = n + 1
        /\ \A i \in 1 .. n : more[i] = entries[i]
        /\ more[n + 1] = x
    BY <1>1, <1>2, AppendFacts
  <1>4. DOMAIN more = (1 .. n) \cup {n + 1}
    <2>1. DOMAIN more = 1 .. (n + 1)
      BY <1>3
    <2> QED
      BY <2>1
  <1>5. Named(more) = Named(entries) \cup {w}
    <2>1. \A v : v \in Named(more) <=> v \in Named(entries) \cup {w}
      BY <1>1, <1>2, <1>3, <1>4 DEF Named
    <2> QED
      BY <2>1
  <1>6. Usable(more) = Usable(entries) \cup {w}
    <2>1. \A v : v \in Usable(more) <=> v \in Usable(entries) \cup {w}
      BY <1>1, <1>2, <1>3, <1>4 DEF Usable
    <2> QED
      BY <2>1
  <1> QED
    BY <1>2, <1>3, <1>5, <1>6

LEMMA TakeFacts ==
    ASSUME NEW a \in Columns, NEW w \in Lexeme, NEW b, b = TakePair(a, w)
    PROVE  /\ b \in Columns
           /\ Denied(a, w) \/ Given(a, w) => b = a
           /\ ~Denied(a, w) /\ ~Given(a, w) =>
                 /\ b # a /\ Given(b, w)
                 /\ ToSet(b.words) = ToSet(a.words) \cup {w}
                 /\ Usable(b.entries) = Usable(a.entries) \cup {w}
                 /\ Named(b.entries) = Named(a.entries) \cup {w}
                 /\ Len(b.words) >= Len(a.words) /\ Len(b.entries) >= Len(a.entries)
  <1>1. a.words \in Seq(Lexeme) /\ a.entries \in Seq(RichEntry) /\ a = [words |-> a.words, entries |-> a.entries]
    BY DEF Columns
  <1>2. PICK words, entries : /\ words = Append(a.words, w)
                             /\ entries = Append(a.entries, Rich(w))
    OBVIOUS
  <1>3. /\ words \in Seq(Lexeme) /\ words # a.words /\ Len(words) = Len(a.words) + 1
        /\ ToSet(words) = ToSet(a.words) \cup {w} /\ Len(a.words) \in Nat
    BY <1>1, <1>2, AppendFacts
  <1>4. /\ entries \in Seq(RichEntry) /\ entries # a.entries
        /\ Len(entries) = Len(a.entries) + 1 /\ Len(a.entries) \in Nat
        /\ Usable(entries) = Usable(a.entries) \cup {w}
        /\ Named(entries) = Named(a.entries) \cup {w}
    BY <1>1, <1>2, RichAppended
  <1>5. b = IF Denied(a, w) THEN a
            ELSE [words |-> IF w \notin ToSet(a.words) THEN words ELSE a.words,
                  entries |-> IF w \notin Usable(a.entries) THEN entries ELSE a.entries]
    BY <1>2 DEF TakePair, Denied, Rich
  <1>6. w \in Usable(a.entries) => w \in Named(a.entries)
    BY DEF Usable, Named
  <1>7. CASE Denied(a, w)
    BY <1>5, <1>7
  <1>8. CASE ~Denied(a, w) /\ Given(a, w)
    BY <1>1, <1>5, <1>8 DEF Given
  <1>9. CASE ~Denied(a, w) /\ ~Given(a, w)
    <2>1. /\ b.words = IF w \notin ToSet(a.words) THEN words ELSE a.words
          /\ b.entries = IF w \notin Usable(a.entries) THEN entries ELSE a.entries
          /\ b = [words |-> b.words, entries |-> b.entries]
      BY <1>5, <1>9
    <2>2. /\ b.words \in Seq(Lexeme) /\ ToSet(b.words) = ToSet(a.words) \cup {w}
          /\ Len(b.words) >= Len(a.words)
      BY <1>1, <1>3, <2>1
    <2>3. /\ b.entries \in Seq(RichEntry) /\ Len(b.entries) >= Len(a.entries)
          /\ Usable(b.entries) = Usable(a.entries) \cup {w}
          /\ Named(b.entries) = Named(a.entries) \cup {w}
      BY <1>1, <1>4, <1>6, <2>1
    <2>4. b # a
      BY <1>3, <1>4, <1>9, <2>1 DEF Given
    <2>5. b \in Columns
      BY <2>1, <2>2, <2>3 DEF Columns
    <2> QED
      BY <1>9, <2>2, <2>3, <2>4, <2>5 DEF Given
  <1> QED
    BY <1>7, <1>8, <1>9

LEMMA TakeAgain ==
    ASSUME NEW a \in Columns, NEW w \in Lexeme, NEW v \in Lexeme
    PROVE  /\ TakePair(a, w) \in Columns
           /\ TakePair(TakePair(a, w), w) = TakePair(a, w)
           /\ TakePair(a, w) = a => TakePair(TakePair(a, v), w) = TakePair(a, v)
  <1>1. PICK b, c : b = TakePair(a, w) /\ c = TakePair(a, v)
    OBVIOUS
  <1>2. /\ b \in Columns /\ (Denied(a, w) \/ Given(a, w) => b = a)
        /\ ~Denied(a, w) /\ ~Given(a, w) => b # a /\ Given(b, w)
    BY <1>1, TakeFacts
  <1>3. TakePair(b, w) = b
    BY <1>1, <1>2, TakeFacts
  <1>4. ASSUME b = a PROVE TakePair(c, w) = c
    <2>1. Denied(a, w) \/ Given(a, w)
      BY <1>2, <1>4
    <2>2. /\ c \in Columns /\ (Denied(a, v) \/ Given(a, v) => c = a)
          /\ ~Denied(a, v) /\ ~Given(a, v) =>
                /\ ToSet(c.words) = ToSet(a.words) \cup {v}
                /\ Usable(c.entries) = Usable(a.entries) \cup {v}
                /\ Named(c.entries) = Named(a.entries) \cup {v}
                /\ Len(c.words) >= Len(a.words) /\ Len(c.entries) >= Len(a.entries)
      BY <1>1, TakeFacts
    <2>3. CASE c = a
      BY <1>1, <1>4, <2>3
    <2>4. CASE c # a
      <3>1. v # w
        BY <1>1, <1>4, <2>4
      <3>2. Given(a, w) => Given(c, w)
        BY <2>2, <2>4 DEF Given
      <3>3. Denied(a, w) => Denied(c, w)
        <4>1. /\ w \in Usable(c.entries) <=> w \in Usable(a.entries)
              /\ w \in Named(a.entries) => w \in Named(c.entries)
              /\ w \in ToSet(c.words) <=> w \in ToSet(a.words)
          BY <2>2, <2>4, <3>1
        <4>2. /\ Len(a.words) >= Capacity => Len(c.words) >= Capacity
              /\ Len(a.entries) >= Capacity => Len(c.entries) >= Capacity
          <5>1. /\ Len(a.words) \in Nat /\ Len(a.entries) \in Nat
                /\ Len(c.words) \in Nat /\ Len(c.entries) \in Nat
            BY <2>2 DEF Columns
          <5> QED
            BY <2>2, <2>4, <5>1, DeltaConstants
        <4> QED
          BY <4>1, <4>2 DEF Denied
      <3> QED
        BY <2>1, <2>2, <3>2, <3>3, TakeFacts
    <2> QED
      BY <2>3, <2>4
  <1> QED
    BY <1>1, <1>2, <1>3, <1>4

\* What merging pairs keeps: every word that comes in has its entry.
Covered(words, a) ==
    /\ a \in Columns /\ ToSet(a.words) \ words \subseteq Usable(a.entries)

LEMMA MergePairFacts ==
    ASSUME NEW words \in Seq(Lexeme), NEW entries \in Seq(RichEntry), NEW pairs \in Seq(Lexeme),
           NEW joined, joined = MergePair(words, entries, pairs)
    PROVE  /\ joined \in Columns
           /\ MergePair(joined.words, joined.entries, pairs) = joined
           /\ ToSet(joined.words) \ ToSet(words) \subseteq Usable(joined.entries)
  <1>1. PICK n \in Nat : DOMAIN pairs = 1 .. n /\ \A i \in 1 .. n : pairs[i] \in Lexeme
    BY ElementOfSeq, LenProperties
  <1>2. PICK start \in Columns :
            /\ start = [words |-> words, entries |-> entries]
            /\ start.words = words /\ joined = FoldLeft(TakePair, start, pairs)
    BY DEF Columns, MergePair
  <1>3. Pairs!Absorbing(Columns, pairs, n)
    <2>1. \A a \in Columns : \A i \in 1 .. n :
             /\ TakePair(a, pairs[i]) \in Columns
             /\ TakePair(TakePair(a, pairs[i]), pairs[i]) = TakePair(a, pairs[i])
      BY <1>1, TakeAgain
    <2>2. \A a \in Columns : \A i, j \in 1 .. n :
             TakePair(a, pairs[i]) = a
                => TakePair(TakePair(a, pairs[j]), pairs[i]) = TakePair(a, pairs[j])
      BY <1>1, TakeAgain
    <2> QED
      BY <2>1, <2>2 DEF Pairs!Absorbing
  <1>4. joined \in Columns
    BY <1>1, <1>2, <1>3, Pairs!FoldAbsorbs, PairsSame
  <1>5. FoldLeft(TakePair, joined, pairs) = joined
    BY <1>1, <1>2, <1>3, Pairs!FoldAgain, PairsSame
  <1>6. joined = [words |-> joined.words, entries |-> joined.entries]
    BY <1>4 DEF Columns
  <1>7. MergePair(joined.words, joined.entries, pairs) = joined
    BY <1>5, <1>6 DEF MergePair
  <1> DEFINE A == {a \in Columns : Covered(ToSet(words), a)}
  <1>8. joined \in A
    <2>1. start \in A
      BY <1>2 DEF Covered
    <2>2. ASSUME NEW a \in A, NEW i \in 1 .. n PROVE TakePair(a, pairs[i]) \in A
      <3>1. PICK b : b = TakePair(a, pairs[i])
        OBVIOUS
      <3>2. /\ b \in Columns
            /\ b # a => /\ ToSet(b.words) = ToSet(a.words) \cup {pairs[i]}
                        /\ Usable(b.entries) = Usable(a.entries) \cup {pairs[i]}
        BY <1>1, <3>1, TakeFacts
      <3> QED
        BY <3>1, <3>2 DEF Covered
    <2> HIDE DEF A
    <2>3. Pairs!Keeps(A, pairs, n)
      BY <2>2 DEF Pairs!Keeps
    <2>4. FoldLeft(TakePair, start, pairs) \in A
      BY <1>1, <2>1, <2>3, Pairs!FoldWithin, PairsSame
    <2> QED
      BY <1>2, <2>4
  <1> QED
    BY <1>4, <1>7, <1>8 DEF Covered

\* A row merged with a row of the delta is a row; merging it again changes nothing.
DefinesNew(row, joined) ==
    \A c \in Column :
       ToSet(joined.words[c]) \ ToSet(row.words[c]) \subseteq Usable(joined.entries[c])

LEMMA MergePatchFacts ==
    ASSUME NEW row \in EntryRow, NEW d \in DeltaRow, NEW digest \in Nat,
           NEW joined, joined = MergePatch(row, d, digest)
    PROVE  /\ joined \in EntryRow /\ MergePatch(joined, d, digest) = joined
           /\ DefinesNew(row, joined)
  <1> DEFINE flat(r) == [c \in Column |-> MergePair(r.words[c], r.entries[c], d.pairs[c])]
  <1>0. PatchList(d.senses)
    <2>1. d.senses \in Seq(Compact)
      BY DEF DeltaRow
    <2>2. PICK n \in Nat : DOMAIN d.senses = 1 .. n /\ \A i \in 1 .. n : d.senses[i] \in Compact
      BY <2>1, ElementOfSeq, LenProperties
    <2> QED
      BY <2>2 DEF PatchList, IsPatch, Compact
  <1>1. /\ \A c \in Column : /\ row.words[c] \in Seq(Lexeme) /\ row.entries[c] \in Seq(RichEntry)
                              /\ d.pairs[c] \in Seq(Lexeme)
        /\ row.senses \in Seq(RichSense) /\ row.searched \in Seq(Lexeme)
    BY DEF EntryRow, DeltaRow, RichEntry
  <1>2. /\ joined.words = [c \in Column |-> flat(row)[c].words]
        /\ joined.entries = [c \in Column |-> flat(row)[c].entries]
        /\ joined.senses = MergeSenses(row.senses, d.senses)
        /\ joined.sourced = TRUE /\ joined.provenance = digest
        /\ joined.searched = IF flat(row)["phrases"].words = row.words["phrases"]
                             THEN row.searched ELSE flat(row)["phrases"].words
    BY DEF MergePatch
  <1>3. DOMAIN joined = {"words", "entries", "senses", "sourced", "provenance", "searched"}
    BY DEF MergePatch
  <1>4. ASSUME NEW c \in Column
        PROVE  /\ joined.words[c] \in Seq(Lexeme) /\ joined.entries[c] \in Seq(RichEntry)
               /\ flat(joined)[c].words = joined.words[c] /\ flat(joined)[c].entries = joined.entries[c]
               /\ ToSet(joined.words[c]) \ ToSet(row.words[c]) \subseteq Usable(joined.entries[c])
    <2>1. PICK m : m = MergePair(row.words[c], row.entries[c], d.pairs[c])
      OBVIOUS
    <2>2. /\ m \in Columns /\ MergePair(m.words, m.entries, d.pairs[c]) = m
          /\ ToSet(m.words) \ ToSet(row.words[c]) \subseteq Usable(m.entries)
      BY <1>1, <2>1, MergePairFacts
    <2>3. joined.words[c] = m.words /\ joined.entries[c] = m.entries
      BY <1>2, <2>1
    <2>4. m.words \in Seq(Lexeme) /\ m.entries \in Seq(RichEntry)
      BY <2>2 DEF Columns
    <2> QED
      BY <2>2, <2>3, <2>4
  <1>5. /\ joined.senses \in Seq(RichSense)
        /\ MergeSenses(joined.senses, d.senses) = joined.senses
    BY <1>0, <1>1, <1>2, MergeSensesAgain
  <1>6. joined \in EntryRow
    <2>1. joined.words \in [Column -> Seq(Lexeme)] /\ joined.entries \in [Column -> Seq(RichEntry)]
      BY <1>2, <1>4
    <2>2. flat(row)["phrases"].words \in Seq(Lexeme)
      BY <1>2, <1>4 DEF Column
    <2> HIDE DEF flat
    <2>3. joined.searched \in Seq(Lexeme)
      BY <1>1, <1>2, <2>2
    <2>4. joined = [words |-> joined.words, entries |-> joined.entries, senses |-> joined.senses,
                    sourced |-> joined.sourced, provenance |-> joined.provenance,
                    searched |-> joined.searched]
      BY DEF MergePatch
    <2> QED
      BY <1>2, <1>5, <2>1, <2>3, <2>4 DEF EntryRow, RichEntry
  <1>7. MergePatch(joined, d, digest) = joined
    <2>1. \A c \in Column : /\ flat(joined)[c].words = joined.words[c]
                            /\ flat(joined)[c].entries = joined.entries[c]
      BY <1>4
    <2>2. /\ [c \in Column |-> flat(joined)[c].words] = joined.words
          /\ [c \in Column |-> flat(joined)[c].entries] = joined.entries
      <3>1. /\ joined.words = [c \in Column |-> joined.words[c]]
            /\ joined.entries = [c \in Column |-> joined.entries[c]]
        BY <1>2
      <3> HIDE DEF flat
      <3> QED
        BY <2>1, <3>1
    <2>3. flat(joined)["phrases"].words = joined.words["phrases"]
      BY <2>1 DEF Column
    <2>4. MergePatch(joined, d, digest) =
            [words |-> [c \in Column |-> flat(joined)[c].words],
             entries |-> [c \in Column |-> flat(joined)[c].entries],
             senses |-> MergeSenses(joined.senses, d.senses),
             sourced |-> TRUE, provenance |-> digest,
             searched |-> IF flat(joined)["phrases"].words = joined.words["phrases"]
                          THEN joined.searched ELSE flat(joined)["phrases"].words]
      BY DEF MergePatch
    <2>5. joined = [words |-> joined.words, entries |-> joined.entries, senses |-> joined.senses,
                    sourced |-> joined.sourced, provenance |-> joined.provenance,
                    searched |-> joined.searched]
      BY DEF MergePatch
    <2> HIDE DEF flat
    <2> QED
      BY <1>2, <1>5, <2>2, <2>3, <2>4, <2>5
  <1> QED
    BY <1>4, <1>6, <1>7 DEF DefinesNew

-----------------------------------------------------------------------------
\* What the builder makes of its patches.
LEMMA WordsType ==
    ASSUME NEW patches \in Seq(Patch), NEW f \in RelationField
    PROVE  WordsOf(patches, f) \in Seq(Lexeme)
  <1>1. PICK n \in Nat : n = Len(patches) /\ DOMAIN patches = 1 .. n /\ \A i \in 1 .. n : patches[i] \in Patch
    BY ElementOfSeq, LenProperties
  <1> DEFINE lists == [i \in 1 .. n |-> patches[i].relations[f]]
  <1>2. \A i \in 1 .. n : patches[i].relations[f] \in Seq(Lexeme)
    BY <1>1 DEF Patch, Relation
  <1>3. lists \in Seq(Seq(Lexeme))
    BY <1>1, <1>2
  <1>4. WordsOf(patches, f) = FlattenSeq(lists)
    BY <1>1 DEF WordsOf
  <1> QED
    BY <1>3, <1>4, FlattenType

LEMMA CandidatesType ==
    ASSUME NEW patches \in Seq(Patch)
    PROVE  \A c \in Column : FlatCandidates(patches)[c] \in Seq(Lexeme)
  <1>1. PICK n \in Nat : /\ n = Len(SemanticFields) /\ DOMAIN SemanticFields = 1 .. n
                         /\ \A i \in 1 .. n : SemanticFields[i] \in RelationField
    BY DeltaTypes, ElementOfSeq, LenProperties
  <1> DEFINE lists == [i \in 1 .. n |-> WordsOf(patches, SemanticFields[i])]
  <1>2. lists \in Seq(Seq(Lexeme))
    BY <1>1, WordsType
  <1>3. PICK all \in Seq(Lexeme) : RelatedWords(patches) = FoldLeft(AddDefined, <<>>, all)
    BY <1>1, <1>2, FlattenType DEF RelatedWords
  <1>4. PICK m \in Nat : DOMAIN all = 1 .. m /\ \A i \in 1 .. m : all[i] \in Lexeme
    BY ElementOfSeq, LenProperties
  <1>5. Defs!Keeps(Seq(Lexeme), all, m)
    BY <1>4 DEF Defs!Keeps, AddDefined
  <1>10. <<>> \in Seq(Lexeme)
    OBVIOUS
  <1>11. FoldLeft(AddDefined, <<>>, all) \in Seq(Lexeme)
    BY <1>4, <1>5, <1>10, Defs!FoldWithin, DefsSame
  <1>6. PICK related \in Seq(Lexeme) : related = RelatedWords(patches)
    BY <1>3, <1>11
  <1>7. PICK k \in Nat : DOMAIN related = 1 .. k /\ \A i \in 1 .. k : related[i] \in Lexeme
    BY ElementOfSeq, LenProperties
  <1>8. Phrases!Keeps(Seq(Lexeme), related, k)
    BY <1>7 DEF Phrases!Keeps, AddPhrase
  <1>9. FoldLeft(AddPhrase, <<>>, related) \in Seq(Lexeme)
    BY <1>7, <1>8, <1>10, Phrases!FoldWithin, PhrasesSame
  <1> QED
    BY <1>6, <1>9 DEF FlatCandidates

LEMMA PairedType ==
    ASSUME NEW words, Len(words) \in Nat, NEW entries, Len(entries) \in Nat,
           NEW candidates \in Seq(Lexeme)
    PROVE  PairedDelta(words, entries, candidates) \in Seq(Lexeme)
  <1>1. PICK n \in Nat : DOMAIN candidates = 1 .. n /\ \A i \in 1 .. n : candidates[i] \in Lexeme
    BY ElementOfSeq, LenProperties
  <1> DEFINE A == [words : {words}, entries : {entries}, added : Seq(Lexeme), room : Int,
                   seen : SUBSET Lexeme]
             start == [words |-> words, entries |-> entries, added |-> <<>>,
                       room |-> RoomLeft(entries), seen |-> {}]
  <1>2. start \in A
    <2>1. RoomLeft(entries) \in Int
      BY DeltaConstants DEF RoomLeft, Larger
    <2> QED
      BY <2>1
  <1>3. Additions!Keeps(A, candidates, n)
    <2>1. ASSUME NEW a \in A, NEW w \in Lexeme PROVE TakeAddition(a, w) \in A
      <3>1. \/ TakeAddition(a, w) = a
            \/ \E grown \in Seq(Lexeme), room \in Int, seen \in SUBSET Lexeme :
                  TakeAddition(a, w) = [a EXCEPT !.added = grown, !.room = room, !.seen = seen]
        <4>1. /\ a.added \in Seq(Lexeme) /\ Append(a.added, w) \in Seq(Lexeme)
              /\ a.room \in Int /\ a.room - 1 \in Int /\ a.seen \cup {w} \in SUBSET Lexeme
          OBVIOUS
        <4> HIDE DEF A
        <4> QED
          BY <4>1 DEF TakeAddition
      <3> QED
        BY <3>1
    <2> HIDE DEF A
    <2> QED
      BY <1>1, <2>1 DEF Additions!Keeps
  <1>4. FoldLeft(TakeAddition, start, candidates) \in A
    <2> HIDE DEF A, start
    <2> QED
      BY <1>1, <1>2, <1>3, Additions!FoldWithin, AdditionsSame
  <1>5. PairedDelta(words, entries, candidates) = FoldLeft(TakeAddition, start, candidates).added
    BY DEF PairedDelta
  <1> HIDE DEF start
  <1> QED
    BY <1>4, <1>5

LEMMA CompactType ==
    ASSUME NEW senses \in Seq(RichSense), NEW patch \in Patch
    PROVE  CompactSense(senses, patch) \in Compact
  <1>1. PICK n \in Nat : n = Len(senses) /\ DOMAIN senses = 1 .. n /\ \A i \in 1 .. n : senses[i] \in RichSense
    BY ElementOfSeq, LenProperties
  <1>2. PICK i : /\ i = MatchOf(senses, patch) /\ i \in Nat
                 /\ i > 0 => senses[i] \in RichSense
    BY <1>1, MatchFacts
  <1>7. NoRelations \in Relation
    BY DEF NoRelations, Relation
  <1>8. i > 0 => senses[i].relations \in Relation
    BY <1>2 DEF RichSense
  <1>3. PICK current \in Relation : current = IF i > 0 THEN senses[i].relations ELSE NoRelations
    BY <1>7, <1>8
  <1>4. PICK identity : /\ identity = IF i > 0 THEN senses[i] ELSE patch
                        /\ identity.gloss \in Gloss /\ identity.id \in SenseId
    BY <1>2 DEF RichSense, Patch
  <1> DEFINE missing == [f \in RelationField |->
                SubSeq(AppendUnique(current[f], patch.relations[f]), Len(current[f]) + 1,
                       Len(AppendUnique(current[f], patch.relations[f])))]
  <1>5. missing \in Relation
    <2>1. ASSUME NEW f \in RelationField
          PROVE  SubSeq(AppendUnique(current[f], patch.relations[f]), Len(current[f]) + 1,
                        Len(AppendUnique(current[f], patch.relations[f]))) \in Seq(Lexeme)
      <3>1. current[f] \in Seq(Lexeme) /\ patch.relations[f] \in Seq(Lexeme)
        BY DEF Relation, Patch
      <3>2. PICK joined \in Seq(Lexeme) : joined = AppendUnique(current[f], patch.relations[f])
        BY <3>1, UniqueFacts
      <3>3. PICK k \in Nat, m \in Nat : k = Len(current[f]) /\ m = Len(joined)
        BY <3>1
      <3>4. SubSeq(joined, k + 1, m) \in Seq(Lexeme)
        <4>1. \A x \in (k + 1) .. m : joined[x] \in Lexeme
          BY <3>2, <3>3
        <4> QED
          BY <3>2, <3>3, <4>1
      <3> QED
        BY <3>2, <3>3, <3>4
    <2> QED
      BY <2>1 DEF Relation
  <1>6. CompactSense(senses, patch) =
          [index |-> i, gloss |-> identity.gloss, id |-> identity.id, relations |-> missing]
    BY <1>2, <1>3, <1>4 DEF CompactSense
  <1> HIDE DEF missing
  <1> QED
    BY <1>2, <1>4, <1>5, <1>6 DEF Compact

LEMMA CompactsType ==
    ASSUME NEW senses \in Seq(RichSense), NEW patches \in Seq(Patch)
    PROVE  CompactSenses(senses, patches) \in Seq(Compact)
  <1>1. PICK n \in Nat : DOMAIN patches = 1 .. n /\ \A i \in 1 .. n : patches[i] \in Patch
    BY ElementOfSeq, LenProperties
  <1>2. PICK list : list = [i \in 1 .. n |-> CompactSense(senses, patches[i])]
    OBVIOUS
  <1>3. DOMAIN list = 1 .. n /\ \A i \in 1 .. n : list[i] \in Compact
    BY <1>1, <1>2, CompactType
  <1>4. Changes!Keeps(Seq(Compact), list, n)
    BY <1>3 DEF Changes!Keeps, AddChange
  <1>5. <<>> \in Seq(Compact)
    OBVIOUS
  <1>6. FoldLeft(AddChange, <<>>, list) \in Seq(Compact)
    BY <1>3, <1>4, <1>5, Changes!FoldWithin, ChangesSame
  <1> QED
    BY <1>1, <1>2, <1>6 DEF CompactSenses

LEMMA MergeCompactType ==
    ASSUME NEW compacts \in Seq(Compact), NEW c \in Compact
    PROVE  MergeCompact(compacts, c) \in Seq(Compact)
  <1>1. PICK n \in Nat : n = Len(compacts) /\ DOMAIN compacts = 1 .. n /\ \A i \in 1 .. n : compacts[i] \in Compact
    BY ElementOfSeq, LenProperties
  <1> DEFINE same(d) == d.index = c.index /\ (c.index > 0 \/ Matches(d, c))
             Hits == {j \in DOMAIN compacts : same(compacts[j])}
  <1>0. PICK i : i = FirstIn(compacts, same)
    OBVIOUS
  <1>2. i \in Nat /\ (i > 0 => i \in 1 .. n)
    <2>1. FirstIn(compacts, same) = IF Hits = {} THEN 0
                                    ELSE CHOOSE j \in Hits : \A k \in Hits : j <= k
      BY DEF FirstIn
    <2>2. Hits \subseteq 1 .. n /\ Hits \subseteq Nat
      BY <1>1
    <2> HIDE DEF Hits
    <2>3. Hits # {} => \E j \in Hits : \A k \in Hits : j <= k
      BY <2>2, LeastNumber
    <2>4. FirstIn(compacts, same) = 0 \/ FirstIn(compacts, same) \in Hits
      BY <2>1, <2>3
    <2>5. i = 0 \/ i \in Hits
      BY <1>0, <2>4
    <2>6. i \in Hits => i \in 1 .. n
      BY <2>2
    <2> HIDE DEF same
    <2>7. i = 0 \/ i \in 1 .. n
      BY <2>5, <2>6
    <2> QED
      BY <2>7
  <1>3. MergeCompact(compacts, c) =
          IF i > 0 THEN [compacts EXCEPT ![i].relations = Extended(@, c.relations)]
          ELSE Append(compacts, [c EXCEPT !.relations = Extended(NoRelations, @)])
    BY <1>0 DEF MergeCompact
  <1>4. c.relations \in Relation /\ NoRelations \in Relation
    BY DEF Compact, NoRelations, Relation
  <1>5. CASE i > 0
    <2>1. compacts[i] \in Compact /\ compacts[i].relations \in Relation
      BY <1>1, <1>2, <1>5 DEF Compact
    <2>2. PICK r \in Relation : r = Extended(compacts[i].relations, c.relations)
      BY <1>4, <2>1, ExtendedFacts
    <2>3. PICK x \in Compact : x = [compacts[i] EXCEPT !.relations = r]
      BY <2>1 DEF Compact
    <2>4. MergeCompact(compacts, c) = [compacts EXCEPT ![i] = x]
      BY <1>1, <1>2, <1>3, <1>5, <2>2, <2>3
    <2>5. [compacts EXCEPT ![i] = x] \in Seq(Compact)
      BY <1>1, <1>2, <1>5
    <2> QED
      BY <2>4, <2>5
  <1>6. CASE i = 0
    <2>1. PICK r \in Relation : r = Extended(NoRelations, c.relations)
      BY <1>4, ExtendedFacts
    <2>2. PICK x \in Compact : x = [c EXCEPT !.relations = r]
      BY DEF Compact
    <2>3. MergeCompact(compacts, c) = Append(compacts, x)
      BY <1>3, <1>6, <2>1, <2>2
    <2> QED
      BY <2>3
  <1> QED
    BY <1>2, <1>5, <1>6

LEMMA DeltaRowType ==
    ASSUME NEW row \in EntryRow, NEW staged \in DeltaRow \cup {NoRow}, NEW patches \in Seq(Patch)
    PROVE  MergeDelta(row, staged, ChunkDelta(row, patches)) \in DeltaRow
  <1>1. /\ \A c \in Column : Len(row.words[c]) \in Nat /\ Len(row.entries[c]) \in Nat
        /\ row.senses \in Seq(RichSense)
    BY DEF EntryRow
  <1>2. ChunkDelta(row, patches) \in DeltaRow
    BY <1>1, CandidatesType, PairedType, CompactsType DEF ChunkDelta, DeltaRow
  <1>3. PICK incoming \in DeltaRow : incoming = ChunkDelta(row, patches)
    BY <1>2
  <1>4. PICK prior \in DeltaRow :
          prior = IF staged = NoRow THEN [pairs |-> [c \in Column |-> <<>>], senses |-> <<>>]
                  ELSE staged
    <2>1. /\ [c \in Column |-> <<>>] \in [Column -> Seq(Lexeme)]
          /\ <<>> \in Seq(Compact)
      OBVIOUS
    <2>2. [pairs |-> [c \in Column |-> <<>>], senses |-> <<>>] \in DeltaRow
      BY <2>1, Zenon DEF DeltaRow
    <2> QED
      BY <2>2
  <1>5. \A c \in Column : prior.pairs[c] \o incoming.pairs[c] \in Seq(Lexeme)
    BY DEF DeltaRow
  <1>13. prior.senses \in Seq(Compact) /\ incoming.senses \in Seq(Compact)
    BY DEF DeltaRow
  <1>14. \A s, t \in Seq(Compact) : s \o t \in Seq(Compact)
    OBVIOUS
  <1>6. PICK all \in Seq(Compact) : all = prior.senses \o incoming.senses
    <2> HIDE DEF DeltaRow
    <2> QED
      BY <1>13, <1>14, Zenon
  <1>7. PICK n \in Nat : DOMAIN all = 1 .. n /\ \A i \in 1 .. n : all[i] \in Compact
    BY ElementOfSeq, LenProperties
  <1>8. Compacts!Keeps(Seq(Compact), all, n)
    BY <1>7, MergeCompactType DEF Compacts!Keeps
  <1>9. <<>> \in Seq(Compact)
    OBVIOUS
  <1>10. FoldLeft(MergeCompact, <<>>, all) \in Seq(Compact)
    BY <1>7, <1>8, <1>9, Compacts!FoldWithin, CompactsSame
  <1>11. \A c \in Column :
            PairedDelta(row.words[c], row.entries[c], prior.pairs[c] \o incoming.pairs[c]) \in Seq(Lexeme)
    BY <1>1, <1>5, PairedType
  <1>12. MergeDelta(row, staged, incoming) =
           [pairs |-> [c \in Column |-> PairedDelta(row.words[c], row.entries[c],
                                                    prior.pairs[c] \o incoming.pairs[c])],
            senses |-> FoldLeft(MergeCompact, <<>>, all)]
    BY <1>4, <1>6 DEF MergeDelta
  <1> QED
    BY <1>3, <1>10, <1>11, <1>12 DEF DeltaRow

-----------------------------------------------------------------------------
(* The inductive invariant: a row of the shard is as it was, or joined once *)
(* with its row of the delta.                                              *)

IsDeltaRow(d) == d \in DeltaRow \cup {NoRow}

Typed ==
    /\ \A e \in DOMAIN canonical : canonical[e] \in EntryRow
    /\ dumps \in Seq(Seq(Records)) /\ Len(dumps) > 0
    /\ build.patches \in Seq(Patch) /\ build.identity \in Nat /\ build.line \in Nat \ {0}
    /\ build.pc = "scan" => \A e \in DOMAIN canonical : IsDeltaRow(build.staged[e])
    /\ IsDelta => /\ delta.digest \in Nat
                  /\ \A e \in DOMAIN canonical : IsDeltaRow(delta.rows[e])

Applied(e) ==
    /\ IsDelta /\ original[e] # NoRow /\ delta.rows[e] # NoRow
    /\ target[e] = MergePatch(original[e], delta.rows[e], delta.digest)

Selected == {e \in applier.range \cap DOMAIN delta.rows : delta.rows[e] # NoRow}

AppliedOnce ==
    /\ DOMAIN original = DOMAIN canonical
    /\ \A e \in DOMAIN canonical :
          original[e] \in EntryRow \cup {NoRow} /\ (target[e] = original[e] \/ Applied(e))
    /\ applier.pc \in {"check", "write"} => applier.todo \subseteq Selected
    /\ applier.pc = "check" => applier.todo = Selected
    /\ applier.pc \in {"write", "done"} =>
          IsDelta /\ \A e \in Selected : e \in applier.todo \/ Applied(e)
    /\ applier.pc = "done" => applier.todo = {}

AInv == DInv /\ Typed /\ AppliedOnce

LEMMA InitTyped == DeltaInit => Typed /\ AppliedOnce
  <1> SUFFICES ASSUME DeltaInit PROVE Typed /\ AppliedOnce
    OBVIOUS
  <1>1. PICK s \in Starts : canonical = s.canonical /\ target = s.shard
    BY DEF DeltaInit
  <1>2. PICK d \in Dumps : dumps = <<d>>
    BY DEF DeltaInit
  <1>3. /\ DOMAIN target = DOMAIN canonical
        /\ \A e \in DOMAIN canonical : canonical[e] \in EntryRow /\ target[e] \in EntryRow \cup {NoRow}
    BY <1>1, DeltaTypes
  <1>4. dumps \in Seq(Seq(Records)) /\ Len(dumps) > 0
    BY <1>2, DeltaTypes
  <1>5. /\ original = target /\ build = NoBuild /\ delta = Unpublished /\ applier.pc = "idle"
    BY DEF DeltaInit, NoApplier
  <1>6. /\ build.patches \in Seq(Patch) /\ build.identity \in Nat /\ build.pc # "scan"
        /\ build.line \in Nat \ {0}
    BY <1>5 DEF NoBuild
  <1>7. ~IsDelta
    BY <1>5 DEF IsDelta
  <1> QED
    BY <1>3, <1>4, <1>5, <1>6, <1>7 DEF Typed, AppliedOnce

\* flush_current stages rows of the delta.
LEMMA FlushedType ==
    ASSUME DInv, Typed, build.pc = "scan", NEW f, f = Flushed(build)
    PROVE  /\ f.patches \in Seq(Patch) /\ f.identity \in Nat /\ f.line = build.line
           /\ f.pc = "scan" /\ f.range = build.range
           /\ DOMAIN f = DOMAIN build /\ DOMAIN f.staged = DOMAIN canonical
           /\ \A e \in DOMAIN canonical : IsDeltaRow(f.staged[e])
  <1>1. /\ DOMAIN build = {"pc", "line", "key", "patches", "staged", "range", "identity"}
        /\ DOMAIN build.staged = DOMAIN canonical
        /\ \A e \in DOMAIN canonical : IsDeltaRow(build.staged[e]) /\ canonical[e] \in EntryRow
        /\ build.patches \in Seq(Patch) /\ build.identity \in Nat
    BY DEF DInv, Shapes, SameEntries, Typed
  <1>2. <<>> \in Seq(Patch)
    OBVIOUS
  <1>3. CASE build.key \notin build.range \cap DOMAIN canonical \/ build.patches = <<>>
    BY <1>1, <1>2, <1>3 DEF Flushed
  <1>4. CASE build.key \in build.range \cap DOMAIN canonical /\ build.patches # <<>>
    <2>1. PICK d : d = MergeDelta(canonical[build.key], build.staged[build.key],
                                  ChunkDelta(canonical[build.key], build.patches))
      OBVIOUS
    <2>2. d \in DeltaRow
      BY <1>1, <1>4, <2>1, DeltaRowType DEF IsDeltaRow
    <2>3. PICK x : x = IF HasChanges(canonical[build.key], d) THEN d ELSE build.staged[build.key]
      OBVIOUS
    <2>4. IsDeltaRow(x)
      BY <1>1, <1>4, <2>2, <2>3 DEF IsDeltaRow
    <2>5. f = [build EXCEPT !.patches = <<>>, !.staged[build.key] = x]
      BY <1>4, <2>1, <2>3 DEF Flushed
    <2>6. /\ DOMAIN f = DOMAIN build /\ f.patches = <<>> /\ f.identity = build.identity
          /\ f.line = build.line /\ f.pc = build.pc /\ f.range = build.range
          /\ f.staged = [build.staged EXCEPT ![build.key] = x]
      BY <1>1, <2>5
    <2>7. /\ DOMAIN f.staged = DOMAIN canonical
          /\ \A e \in DOMAIN canonical : IsDeltaRow(f.staged[e])
      BY <1>1, <2>4, <2>6
    <2> QED
      BY <1>1, <1>2, <2>6, <2>7
  <1> QED
    BY <1>3, <1>4

LEMMA BuilderTyped ==
    ASSUME DInv, Typed,
           \/ \E range \in Ranges : StartBuild(range)
           \/ ReadRecord \/ Publish \/ BuilderDies \/ OutputTaken
           \/ \E r \in Records : DumpReplaced(r)
    PROVE  /\ Typed' /\ UNCHANGED <<canonical, target, original, applier>>
           /\ IsDelta => delta' = delta
  <1>1. UNCHANGED <<canonical, target, original, applier>>
    BY DEF StartBuild, ReadRecord, Publish, BuilderDies, OutputTaken, DumpReplaced
  <1>2. /\ dumps \in Seq(Seq(Records)) /\ Len(dumps) \in Nat /\ Len(dumps) > 0
        /\ \A e \in DOMAIN canonical : canonical[e] \in EntryRow
        /\ build.patches \in Seq(Patch) /\ build.identity \in Nat /\ build.line \in Nat \ {0}
        /\ DOMAIN build = {"pc", "line", "key", "patches", "staged", "range", "identity"}
    BY DEF Typed, DInv, Shapes
  <1>3. /\ NoBuild.patches \in Seq(Patch) /\ NoBuild.identity \in Nat /\ NoBuild.pc # "scan"
        /\ NoBuild.line = 1
    BY DEF NoBuild
  <1>10. \A i \in 1 .. Len(dumps) : dumps[i] \in Seq(Records)
    BY <1>2
  <1>11. PICK last \in Seq(Records) : last = Dump
    BY <1>2, <1>10 DEF Dump
  <1>4. CASE \E range \in Ranges : StartBuild(range)
    <2>1. PICK range \in Ranges :
               /\ build' = [NoBuild EXCEPT !.pc = "scan", !.range = range,
                              !.identity = Len(dumps),
                              !.staged = [e \in DOMAIN canonical |-> NoRow]]
               /\ UNCHANGED <<dumps, delta>>
      BY <1>4 DEF StartBuild
    <2>2. /\ build'.patches = NoBuild.patches /\ build'.identity = Len(dumps) /\ build'.line = 1
          /\ build'.staged = [e \in DOMAIN canonical |-> NoRow]
      BY <2>1 DEF NoBuild
    <2>3. \A e \in DOMAIN canonical : IsDeltaRow(build'.staged[e])
      BY <2>2 DEF IsDeltaRow
    <2> QED
      BY <1>1, <1>2, <1>3, <2>1, <2>2, <2>3 DEF Typed, IsDelta
  <1>5. CASE ReadRecord
    <2>1. PICK b : b = IF Dump[build.line].key = build.key THEN build
                       ELSE [Flushed(build) EXCEPT !.key = Dump[build.line].key]
      OBVIOUS
    <2>2. /\ build.pc = "scan" /\ UNCHANGED <<dumps, delta>>
          /\ build' = [b EXCEPT !.patches = @ \o Dump[build.line].patches, !.line = @ + 1]
      BY <1>5, <2>1 DEF ReadRecord
    <2>3. /\ b.patches \in Seq(Patch) /\ b.identity \in Nat
          /\ DOMAIN b = DOMAIN build /\ b.line = build.line
          /\ \A e \in DOMAIN canonical : IsDeltaRow(b.staged[e])
      <3>1. CASE Dump[build.line].key = build.key
        BY <1>2, <2>1, <2>2, <3>1 DEF Typed
      <3>2. CASE Dump[build.line].key # build.key
        <4>1. PICK f : f = Flushed(build)
          OBVIOUS
        <4>2. /\ f.patches \in Seq(Patch) /\ f.identity \in Nat /\ DOMAIN f = DOMAIN build
              /\ f.line = build.line
              /\ \A e \in DOMAIN canonical : IsDeltaRow(f.staged[e])
          BY <2>2, <4>1, FlushedType
        <4>3. b = [f EXCEPT !.key = Dump[build.line].key]
          BY <2>1, <3>2, <4>1
        <4>4. /\ b.patches = f.patches /\ b.identity = f.identity /\ DOMAIN b = DOMAIN f
              /\ b.staged = f.staged /\ b.line = f.line
          BY <4>3
        <4> QED
          BY <4>2, <4>4
      <3> QED
        BY <3>1, <3>2
    <2>4. Dump[build.line].patches \in Seq(Patch)
      <3>1. build.line \in 1 .. Len(last)
        BY <1>2, <1>5, <1>11 DEF ReadRecord
      <3>2. last[build.line] \in Records
        BY <3>1
      <3> QED
        BY <1>11, <3>2, DeltaTypes
    <2>5. /\ build'.patches = b.patches \o Dump[build.line].patches
          /\ build'.identity = b.identity /\ build'.staged = b.staged
          /\ build'.line = b.line + 1
      BY <1>2, <2>2, <2>3
    <2>6. build'.patches \in Seq(Patch)
      BY <2>3, <2>4, <2>5
    <2> QED
      BY <1>1, <1>2, <2>2, <2>3, <2>5, <2>6 DEF Typed, IsDelta
  <1>6. CASE Publish
    <2>1. build' = NoBuild /\ UNCHANGED dumps
      BY <1>6 DEF Publish
    <2>2. CASE delta' = delta
      BY <1>1, <1>2, <1>3, <2>1, <2>2 DEF Typed, IsDelta
    <2>3. CASE delta' # delta
      <3>1. /\ delta = Unpublished /\ build.pc = "scan"
            /\ delta' = [rows |-> Flushed(build).staged, digest |-> build.identity,
                         range |-> build.range]
        BY <1>6, <2>3 DEF Publish
      <3>2. PICK f : f = Flushed(build)
        OBVIOUS
      <3>3. \A e \in DOMAIN canonical : IsDeltaRow(f.staged[e])
        BY <3>1, <3>2, FlushedType
      <3> QED
        BY <1>1, <1>2, <1>3, <2>1, <3>1, <3>2, <3>3 DEF Typed, IsDelta
    <2> QED
      BY <2>2, <2>3
  <1>7. CASE BuilderDies
    BY <1>1, <1>2, <1>3, <1>7 DEF BuilderDies, Typed, IsDelta
  <1>8. CASE OutputTaken
    BY <1>1, <1>2, <1>8 DEF OutputTaken, Typed, IsDelta
  <1>9. CASE \E r \in Records : DumpReplaced(r)
    <2>1. PICK r \in Records : /\ dumps' = Append(dumps, [Dump EXCEPT ![Len(Dump)] = r])
                              /\ UNCHANGED <<build, delta>>
      BY <1>9 DEF DumpReplaced
    <2>2. [last EXCEPT ![Len(last)] = r] \in Seq(Records)
      <3>1. PICK n \in Nat : n = Len(last) /\ DOMAIN last = 1 .. n
        OBVIOUS
      <3>2. CASE n = 0
        <4>1. last = [last EXCEPT ![n] = r]
          BY <3>1, <3>2
        <4> QED
          BY <3>1, <4>1
      <3>3. CASE n > 0
        BY <3>1, <3>3
      <3> QED
        BY <3>1, <3>2, <3>3
    <2>3. PICK new \in Seq(Records) : dumps' = Append(dumps, new)
      BY <1>11, <2>1, <2>2
    <2>4. dumps' \in Seq(Seq(Records)) /\ Len(dumps') > 0
      BY <1>2, <2>3
    <2> QED
      BY <1>1, <1>2, <2>1, <2>4 DEF Typed, IsDelta
  <1> QED
    BY <1>1, <1>4, <1>5, <1>6, <1>7, <1>8, <1>9

LEMMA BuilderAgain ==
    ASSUME AInv,
           \/ \E range \in Ranges : StartBuild(range)
           \/ ReadRecord \/ Publish \/ BuilderDies \/ OutputTaken
           \/ \E r \in Records : DumpReplaced(r)
    PROVE  AInv'
  <1>1. DInv'
    BY BuilderInv DEF AInv
  <1>2. /\ Typed' /\ UNCHANGED <<canonical, target, original, applier>>
        /\ IsDelta => delta' = delta
    BY BuilderTyped DEF AInv
  <1>3. IsDelta => IsDelta' /\ Selected' = Selected
    BY <1>2 DEF IsDelta, Selected
  <1>4. \A e : Applied(e) => Applied(e)'
    BY <1>2, <1>3 DEF Applied
  <1>5. applier.pc \in {"check", "write"} => IsDelta
    BY DEF AInv, DInv, AppliesDelta
  <1>6. AppliedOnce'
    <2>1. \A e \in DOMAIN canonical :
             original'[e] \in EntryRow \cup {NoRow} /\ (target'[e] = original'[e] \/ Applied(e)')
      BY <1>2, <1>4 DEF AInv, AppliedOnce
    <2>2. /\ applier.pc \in {"check", "write"} => applier.todo \subseteq Selected'
          /\ applier.pc = "check" => applier.todo = Selected'
      BY <1>3, <1>5 DEF AInv, AppliedOnce
    <2>3. applier.pc \in {"write", "done"} =>
            IsDelta' /\ \A e \in Selected' : e \in applier.todo \/ Applied(e)'
      BY <1>3, <1>4 DEF AInv, AppliedOnce
    <2> QED
      BY <1>2, <2>1, <2>2, <2>3 DEF AInv, AppliedOnce
  <1> QED
    BY <1>1, <1>2, <1>6 DEF AInv

LEMMA ReadingAgain ==
    ASSUME AInv,
           \/ \E range \in Ranges : StartApply(range)
           \/ Preflight \/ FinishApply \/ ApplierDies
    PROVE  AInv'
  <1>1. DInv'
    BY ReadingInv DEF AInv
  <1>2. UNCHANGED <<canonical, target, original, dumps, build, delta>>
    BY DEF StartApply, Preflight, FinishApply, ApplierDies
  <1>3. Typed' /\ (IsDelta' <=> IsDelta)
    BY <1>2 DEF AInv, Typed, IsDelta, IsDeltaRow
  <1>4. \A e : Applied(e)' <=> Applied(e)
    BY <1>2, <1>3 DEF Applied
  <1>6. DOMAIN applier = {"pc", "range", "todo", "before", "runs"}
    BY DEF AInv, DInv, Shapes
  <1>7. /\ DOMAIN original' = DOMAIN canonical'
        /\ \A e \in DOMAIN canonical' :
              original'[e] \in EntryRow \cup {NoRow} /\ (target'[e] = original'[e] \/ Applied(e)')
    BY <1>2, <1>4 DEF AInv, AppliedOnce
  <1>8. applier'.range = applier.range => Selected' = Selected
    BY <1>2 DEF Selected
  <1>9. AppliedOnce'
    <2>1. CASE \E range \in Ranges : StartApply(range)
      <3>1. PICK range \in Ranges :
               applier' = [pc |-> "check", range |-> range, todo |-> RowsIn(range),
                           before |-> target, runs |-> applier.runs + 1]
        BY <2>1 DEF StartApply
      <3>2. applier'.pc = "check" /\ applier'.todo = Selected'
        BY <1>2, <3>1 DEF RowsIn, Selected
      <3> QED
        BY <1>7, <3>2 DEF AppliedOnce
    <2>2. CASE Preflight
      <3>1. /\ applier.pc = "check" /\ applier'.range = applier.range
            /\ applier'.todo = applier.todo /\ applier'.pc \in {"write", "failed"}
        BY <1>6, <2>2 DEF Preflight
      <3>2. applier.todo = Selected /\ IsDelta
        BY <3>1 DEF AInv, AppliedOnce, DInv, AppliesDelta, IsDelta
      <3> QED
        BY <1>3, <1>7, <1>8, <3>1, <3>2 DEF AppliedOnce
    <2>3. CASE FinishApply
      <3>1. /\ applier.pc = "write" /\ applier.todo = {} /\ applier'.range = applier.range
            /\ applier'.todo = applier.todo /\ applier'.pc = "done"
        BY <1>6, <2>3 DEF FinishApply
      <3>2. IsDelta /\ \A e \in Selected : Applied(e)
        BY <3>1 DEF AInv, AppliedOnce
      <3> QED
        BY <1>3, <1>4, <1>7, <1>8, <3>1, <3>2 DEF AppliedOnce
    <2>4. CASE ApplierDies
      <3>1. applier'.pc = "idle"
        BY <1>6, <2>4 DEF ApplierDies
      <3> QED
        BY <1>7, <3>1 DEF AppliedOnce
    <2> QED
      BY <2>1, <2>2, <2>3, <2>4
  <1> QED
    BY <1>1, <1>3, <1>9 DEF AInv

LEMMA BatchAgain ==
    ASSUME AInv, ApplyBatch
    PROVE  AInv'
  <1>1. DInv'
    BY BatchInv DEF AInv
  <1>2. PICK batch \in Batches(applier.todo) :
           IF Misfits(batch) # {}
           THEN applier' = [applier EXCEPT !.pc = "failed"] /\ UNCHANGED target
           ELSE /\ target' = [e \in DOMAIN target |->
                     IF e \in batch THEN MergePatch(target[e], delta.rows[e], delta.digest)
                     ELSE target[e]]
                /\ applier' = [applier EXCEPT !.todo = @ \ batch]
    BY DEF ApplyBatch
  <1>3. applier.pc = "write" /\ UNCHANGED <<canonical, original, dumps, build, delta>>
    BY DEF ApplyBatch
  <1>4. batch \subseteq applier.todo
    BY DEF Batches
  <1>5. /\ Misfits(applier.todo) = {} /\ applier.todo \subseteq DOMAIN target
        /\ DOMAIN target = DOMAIN canonical /\ IsDelta /\ DOMAIN delta.rows = DOMAIN canonical
        /\ DOMAIN applier = {"pc", "range", "todo", "before", "runs"}
    BY <1>3 DEF AInv, DInv, StillFits, AppliesDelta, SameEntries, Shapes
  <1>6. Misfits(batch) = {}
    BY <1>4, <1>5 DEF Misfits
  <1>7. /\ target' = [e \in DOMAIN target |->
             IF e \in batch THEN MergePatch(target[e], delta.rows[e], delta.digest)
             ELSE target[e]]
        /\ applier'.pc = "write" /\ applier'.todo = applier.todo \ batch
        /\ applier'.range = applier.range
    BY <1>2, <1>3, <1>5, <1>6
  <1>8. Typed' /\ IsDelta'
    BY <1>3, <1>5 DEF AInv, Typed, IsDelta, IsDeltaRow
  <1>9. \A e : \/ e \in DOMAIN target \ batch => target'[e] = target[e]
    BY <1>7
  <1>10. \A e \in DOMAIN canonical \ batch : Applied(e) => Applied(e)'
    BY <1>3, <1>5, <1>8, <1>9 DEF Applied
  <1>11. ASSUME NEW e \in batch PROVE Applied(e)'
    <2>1. e \in DOMAIN canonical /\ e \in applier.todo
      BY <1>4, <1>5
    <2>2. target[e] # NoRow
      BY <1>6 DEF Misfits, Refused
    <2>3. delta.rows[e] # NoRow /\ delta.rows[e] \in DeltaRow /\ delta.digest \in Nat
      <3>1. delta.rows[e] # NoRow
        BY <1>3, <2>1 DEF AInv, AppliedOnce, Selected
      <3> QED
        BY <1>5, <2>1, <3>1 DEF AInv, Typed, IsDeltaRow
    <2>4. target'[e] = MergePatch(target[e], delta.rows[e], delta.digest)
      BY <1>5, <1>7, <2>1
    <2>5. original[e] \in EntryRow \cup {NoRow} /\ (target[e] = original[e] \/ Applied(e))
      BY <2>1 DEF AInv, AppliedOnce
    <2>6. original[e] # NoRow /\ target'[e] = MergePatch(original[e], delta.rows[e], delta.digest)
      <3>1. CASE target[e] = original[e]
        BY <2>2, <2>4, <3>1
      <3>2. CASE Applied(e)
        <4>1. original[e] \in EntryRow /\ target[e] = MergePatch(original[e], delta.rows[e], delta.digest)
          BY <2>5, <3>2 DEF Applied
        <4>2. MergePatch(target[e], delta.rows[e], delta.digest) = target[e]
          BY <2>3, <4>1, MergePatchFacts
        <4> QED
          BY <2>4, <3>2, <4>1, <4>2 DEF Applied
      <3> QED
        BY <2>5, <3>1, <3>2
    <2> QED
      BY <1>3, <1>8, <2>3, <2>6 DEF Applied
  <1>12. \A e \in DOMAIN canonical : Applied(e) => Applied(e)'
    BY <1>10, <1>11
  <1>13. Selected' = Selected /\ Selected \subseteq DOMAIN canonical
    BY <1>3, <1>5, <1>7 DEF Selected
  <1>14. AppliedOnce'
    <2>1. DOMAIN original' = DOMAIN canonical'
      BY <1>3 DEF AInv, AppliedOnce
    <2>2. ASSUME NEW e \in DOMAIN canonical'
          PROVE  original'[e] \in EntryRow \cup {NoRow} /\ (target'[e] = original'[e] \/ Applied(e)')
      <3>1. e \in DOMAIN canonical /\ original'[e] = original[e]
        BY <1>3
      <3>2. original[e] \in EntryRow \cup {NoRow} /\ (target[e] = original[e] \/ Applied(e))
        BY <3>1 DEF AInv, AppliedOnce
      <3>3. CASE e \in batch
        BY <1>11, <3>1, <3>2, <3>3
      <3>4. CASE e \notin batch
        BY <1>5, <1>9, <1>12, <3>1, <3>2, <3>4
      <3> QED
        BY <3>3, <3>4
    <2>3. /\ applier.todo \subseteq Selected
          /\ \A e \in Selected : e \in applier.todo \/ Applied(e)
      BY <1>3 DEF AInv, AppliedOnce
    <2>4. \A e \in Selected' : e \in applier'.todo \/ Applied(e)'
      BY <1>7, <1>11, <1>12, <1>13, <2>3
    <2> QED
      BY <1>7, <1>8, <1>13, <2>1, <2>2, <2>3, <2>4 DEF AppliedOnce
  <1> QED
    BY <1>1, <1>8, <1>14 DEF AInv

(* A row of the shard is the original one, or that one joined once with its row of
   the delta: whatever is built, replaced, cut and repeated meanwhile. *)
THEOREM RowsInvariant == DeltaSpec => []AInv
  <1>1. DeltaInit => AInv
    BY InitInv, InitTyped DEF AInv
  <1>2. AInv /\ [DeltaNext]_deltaVars => AInv'
    <2>1. ASSUME AInv, UNCHANGED deltaVars PROVE AInv'
      <3>1. DInv'
        BY <2>1, FitsUnchanged
           DEF AInv, deltaVars, DInv, Shapes, SameEntries, AppliesDelta, CheckWritesNothing,
               StillFits, IsDelta
      <3>2. Typed'
        BY <2>1 DEF AInv, deltaVars, Typed, IsDelta, IsDeltaRow
      <3>3. AppliedOnce'
        BY <2>1 DEF AInv, deltaVars, AppliedOnce, Applied, IsDelta, Selected
      <3> QED
        BY <3>1, <3>2, <3>3 DEF AInv
    <2> QED
      BY <2>1, BuilderAgain, ReadingAgain, BatchAgain DEF DeltaNext
  <1> QED
    BY <1>1, <1>2, PTL DEF DeltaSpec

(* An application that ends, ends whole: with an error and the shard as it was
   before, or with every selected row as one application of the delta to the
   original shard leaves it ("idempotently append", "instead of partially applying
   it": apply_delta). *)
THEOREM ApplicationsEndWhole == DeltaSpec => []ApplyEndsWhole
  <1>1. AInv => CompletedAppliesOnce
    BY DEF AInv, AppliedOnce, Applied, CompletedAppliesOnce, Selected, RowsIn
  <1> QED
    BY <1>1, RowsInvariant, RefusalWritesNothing, PTL DEF ApplyEndsWhole

(* No word is put into a flat column without an entry that has a definition, however
   the shard differs from the dataset of the delta (merge_paired_field). *)
THEOREM FlatWordsAreDefined == DeltaSpec => []FlatHasDefinition
  <1>1. AInv => FlatHasDefinition
    <2>1. SUFFICES ASSUME AInv, NEW e \in DOMAIN target, target[e] # NoRow, NEW c \in Column
          PROVE  ToSet(target[e].words[c]) \ ToSet(original[e].words[c])
                   \subseteq Usable(target[e].entries[c])
      BY DEF FlatHasDefinition
    <2>2. /\ e \in DOMAIN canonical /\ original[e] \in EntryRow \cup {NoRow}
          /\ (target[e] = original[e] \/ Applied(e))
      BY <2>1 DEF AInv, DInv, SameEntries, AppliedOnce
    <2>3. CASE target[e] = original[e]
      BY <2>3
    <2>4. CASE Applied(e)
      <3>1. /\ original[e] \in EntryRow /\ delta.rows[e] \in DeltaRow /\ delta.digest \in Nat
            /\ target[e] = MergePatch(original[e], delta.rows[e], delta.digest)
        BY <2>1, <2>2, <2>4 DEF Applied, AInv, Typed, IsDeltaRow
      <3>2. PICK row \in EntryRow, d \in DeltaRow, digest \in Nat :
               row = original[e] /\ target[e] = MergePatch(row, d, digest)
        BY <3>1
      <3>3. DefinesNew(row, target[e])
        BY <3>2, MergePatchFacts
      <3> QED
        BY <3>2, <3>3 DEF DefinesNew
    <2> QED
      BY <2>2, <2>3, <2>4
  <1> QED
    BY <1>1, RowsInvariant, PTL

-------------------------------------------------------------------------------
(***************************************************************************)
(* What a published delta stands for: every record of the dump it names,   *)
(* in however many runs the records of a term lie there.                   *)
(*                                                                         *)
(* A compact row stands for the sense it would be merged into, and a list  *)
(* of them for the senses that the patches give (Stands).  Merging is      *)
(* regrouped: the rows of a chunk, merged into those staged before, stand  *)
(* for all patches so far, and what stands for senses tells them (their    *)
(* relations, the attribution apart).  A word is taken or not by the words *)
(* before it alone, so that taking again from what was taken, and from     *)
(* what was found since, is taking once from all.  ScannedTo then says of  *)
(* the builder, at every line, what its staged rows and its open chunk     *)
(* have of the dump.                                                       *)
(***************************************************************************)

(* Sequences and words.                                                    *)

\* A list appended to another.
NoTwice(list) == \A i, j \in DOMAIN list : list[i] = list[j] => i = j
Disjoint(list, other) == ToSet(list) \cap ToSet(other) = {}
Fresh(list, base) ==
    list \in Seq(Lexeme) /\ NoTwice(list) /\ Len(list) <= Capacity /\ Disjoint(list, base)

Lesser(m, n) == IF m < n THEN m ELSE n

\* x is s with the first k of d.
Joined(x, s, d, k) ==
    /\ x \in Seq(Lexeme) /\ Len(x) = Len(s) + k
    /\ \A i \in 1 .. Len(s) : x[i] = s[i]
    /\ \A i \in 1 .. k : x[Len(s) + i] = d[i]

LEMMA MemberOf ==
    ASSUME NEW V, NEW list \in Seq(V), NEW v
    PROVE  v \in ToSet(list) <=> \E i \in 1 .. Len(list) : list[i] = v
  BY DEF ToSet

\* Values that are new to a list come after it, as many as there is room for.
LEMMA JoinedTake ==
    ASSUME NEW s \in Seq(Lexeme), NEW d \in Seq(Lexeme), NoTwice(d), Disjoint(d, s)
    PROVE  Joined(AppendUnique(s, d), s, d, Lesser(RoomLeft(s), Len(d)))
  <1>1. PICK n \in Nat : n = Len(d) /\ DOMAIN d = 1 .. n /\ \A i \in 1 .. n : d[i] \in Lexeme
    BY ElementOfSeq, LenProperties
  <1>2. PICK l \in Nat, r \in Nat : l = Len(s) /\ r = RoomLeft(s) /\ r = (IF Capacity > l THEN Capacity - l ELSE 0)
    <2>1. PICK l \in Nat : l = Len(s)
      OBVIOUS
    <2>2. PICK r : r = RoomLeft(s)
      OBVIOUS
    <2>3. r = (IF Capacity > l THEN Capacity - l ELSE 0) /\ r \in Nat
      BY <2>1, <2>2, DeltaConstants DEF RoomLeft, Larger
    <2> QED
      BY <2>1, <2>2, <2>3
  <1> DEFINE A == [i \in 0 .. n |-> {x \in Seq(Lexeme) : Joined(x, s, d, Lesser(r, i))}]
  <1>3. s \in A[0]
    <2>1. Lesser(r, 0) = 0
      BY DEF Lesser
    <2> QED
      BY <2>1 DEF Joined
  <1>4. ASSUME NEW i \in 1 .. n, NEW x \in A[i - 1] PROVE AddUnique(x, d[i]) \in A[i]
    <2>1. PICK k \in Nat : k = Lesser(r, i - 1) /\ k <= i - 1 /\ k <= r
      BY DEF Lesser
    <2>2. i - 1 \in 0 .. n /\ i \in 0 .. n /\ Joined(x, s, d, k) /\ x \in Seq(Lexeme)
      BY <2>1
    <2>3. Len(x) = l + k
      BY <1>2, <2>2 DEF Joined
    <2>4. d[i] \notin ToSet(x)
      <3>1. SUFFICES ASSUME NEW j \in 1 .. Len(x), x[j] = d[i] PROVE FALSE
        BY <2>2, MemberOf
      <3>2. d[i] \notin ToSet(s)
        BY <1>1, MemberOf DEF Disjoint
      <3>3. CASE j <= l
        <4>1. j \in 1 .. l /\ x[j] = s[j]
          BY <1>2, <2>2, <3>3 DEF Joined
        <4> QED
          BY <1>2, <3>1, <3>2, <4>1, MemberOf
      <3>4. CASE j > l
        <4>1. PICK m \in 1 .. k : j = l + m
          <5>1. j - l \in 1 .. k /\ j = l + (j - l)
            BY <2>3, <3>4
          <5> QED
            BY <5>1
        <4>2. x[j] = d[m] /\ m # i /\ m \in 1 .. n
          BY <1>2, <2>1, <2>2, <4>1 DEF Joined
        <4> QED
          BY <1>1, <3>1, <4>2 DEF NoTwice
      <3> QED
        BY <2>2, <3>3, <3>4
    <2>5. CASE Len(x) >= Capacity
      <3>1. AddUnique(x, d[i]) = x
        BY <2>5 DEF AddUnique
      <3>2. k = r /\ Lesser(r, i) = r
        BY <1>2, <2>1, <2>3, <2>5, DeltaConstants DEF Lesser
      <3> QED
        BY <2>2, <3>1, <3>2
    <2>6. CASE ~(Len(x) >= Capacity)
      <3>1. k < r /\ k = i - 1 /\ Lesser(r, i) = k + 1
        BY <1>2, <2>1, <2>3, <2>6, DeltaConstants DEF Lesser
      <3>2. AddUnique(x, d[i]) = Append(x, d[i])
        BY <2>4, <2>6 DEF AddUnique
      <3>3. PICK y : y = Append(x, d[i])
        OBVIOUS
      <3>4. /\ y \in Seq(Lexeme) /\ Len(y) = l + (k + 1) /\ y[l + (k + 1)] = d[k + 1]
            /\ \A j \in 1 .. l + k : y[j] = x[j]
        BY <1>1, <1>2, <2>2, <2>3, <3>1, <3>3, AppendFacts
      <3>5. \A j \in 1 .. k + 1 : y[l + j] = d[j]
        <4>1. TAKE j \in 1 .. k + 1
        <4>2. CASE j = k + 1
          BY <3>4, <4>2
        <4>3. CASE j # k + 1
          <5>1. j \in 1 .. k /\ l + j \in 1 .. l + k
            BY <4>3
          <5>2. x[l + j] = d[j]
            BY <1>2, <2>2, <5>1 DEF Joined
          <5> QED
            BY <3>4, <5>1, <5>2
        <4> QED
          BY <4>2, <4>3
      <3>6. \A j \in 1 .. l : y[j] = s[j]
        <4>1. TAKE j \in 1 .. l
        <4>2. j \in 1 .. l + k
          OBVIOUS
        <4> QED
          BY <1>2, <2>2, <3>4, <4>2 DEF Joined
      <3>7. Joined(y, s, d, Lesser(r, i))
        BY <1>2, <3>1, <3>4, <3>5, <3>6 DEF Joined
      <3> QED
        BY <2>2, <3>2, <3>3, <3>4, <3>7
    <2> QED
      BY <2>5, <2>6
  <1>5. Adds!Advances(A, d, n)
    <2> HIDE DEF A
    <2> QED
      BY <1>4 DEF Adds!Advances
  <1>6. FoldLeft(AddUnique, s, d) \in A[n]
    <2> HIDE DEF A
    <2> QED
      BY <1>1, <1>3, <1>5, Adds!FoldAdvances, AddsSame
  <1> QED
    BY <1>1, <1>2, <1>6 DEF AppendUnique

LEMMA FreshWhole ==
    ASSUME NEW d, Fresh(d, <<>>)
    PROVE  AppendUnique(<<>>, d) = d
  <1>1. PICK x : x = AppendUnique(<<>>, d)
    OBVIOUS
  <1>2. PICK n \in Nat : n = Len(d) /\ n <= Capacity /\ d \in Seq(Lexeme) /\ DOMAIN d = 1 .. n
    BY DEF Fresh
  <1>3. Len(<<>>) = 0 /\ RoomLeft(<<>>) = Capacity
    BY DeltaConstants DEF RoomLeft, Larger
  <1>4. Lesser(RoomLeft(<<>>), Len(d)) = n
    BY <1>2, <1>3, DeltaConstants DEF Lesser
  <1>5. Joined(x, <<>>, d, n)
    <2>1. <<>> \in Seq(Lexeme) /\ NoTwice(d) /\ Disjoint(d, <<>>)
      BY DEF Fresh
    <2> QED
      BY <1>1, <1>2, <1>4, <2>1, JoinedTake
  <1>6. x \in Seq(Lexeme) /\ Len(x) = n /\ \A i \in 1 .. n : x[0 + i] = d[i]
    BY <1>2, <1>3, <1>5 DEF Joined
  <1>7. \A i \in 1 .. n : 0 + i = i
    OBVIOUS
  <1> QED
    BY <1>1, <1>2, <1>6, <1>7

\* A list with distinct values, all in another, is not longer.
LEMMA DistinctIsShorter ==
    ASSUME NEW m \in Seq(Lexeme), NEW d \in Seq(Lexeme), NoTwice(m), ToSet(m) \subseteq ToSet(d)
    PROVE  Len(m) <= Len(d)
  <1>1. PICK k \in Nat, n \in Nat : /\ k = Len(m) /\ n = Len(d) /\ DOMAIN m = 1 .. k /\ DOMAIN d = 1 .. n
    OBVIOUS
  <1> DEFINE f == [i \in 1 .. k |-> CHOOSE j \in 1 .. n : d[j] = m[i]]
  <1>2. \A i \in 1 .. k : \E j \in 1 .. n : d[j] = m[i]
    BY <1>1, MemberOf
  <1>3. \A i \in 1 .. k : f[i] \in 1 .. n /\ d[f[i]] = m[i]
    BY <1>2
  <1>4. f \in Injection(1 .. k, 1 .. n)
    <2>1. f \in [1 .. k -> 1 .. n]
      BY <1>3
    <2>2. \A a, b \in 1 .. k : f[a] = f[b] => a = b
      <3>1. ASSUME NEW a \in 1 .. k, NEW b \in 1 .. k, f[a] = f[b] PROVE a = b
        <4>1. m[a] = m[b]
          BY <1>3, <3>1
        <4> QED
          BY <1>1, <4>1 DEF NoTwice
      <3> QED
        BY <3>1
    <2> HIDE DEF f
    <2> QED
      BY <2>1, <2>2 DEF Injection, IsInjective
  <1>5. IsFiniteSet(1 .. n) /\ Cardinality(1 .. n) = n /\ Cardinality(1 .. k) = k
    <2>1. 1 \in Int /\ k \in Int /\ n \in Int /\ (k - 1) + 1 = k /\ (n - 1) + 1 = n
      BY <1>1
    <2>2. Cardinality(1 .. k) = k /\ Cardinality(1 .. n) = n
      <3>1. \A j \in Nat : Cardinality(1 .. j) = j
        <4>1. TAKE j \in Nat
        <4>2. Cardinality(1 .. j) = IF 1 > j THEN 0 ELSE j - 1 + 1
          BY FS_Interval
        <4> QED
          BY <4>2
      <3> QED
        BY <1>1, <3>1
    <2> QED
      BY <2>1, <2>2, FS_Interval
  <1>6. Cardinality(1 .. k) <= Cardinality(1 .. n)
    <2> HIDE DEF f
    <2> QED
      BY <1>4, <1>5, FS_Injection
  <1> QED
    BY <1>1, <1>5, <1>6

\* A list that takes in new values stays without repetition and away from another.
LEMMA FreshTake ==
    ASSUME NEW s \in Seq(Lexeme), NEW d, Fresh(d, s), NEW m \in Seq(Lexeme), Disjoint(m, s)
    PROVE  Fresh(AppendUnique(d, m), s)
  <1>1. PICK n \in Nat : DOMAIN m = 1 .. n /\ \A i \in 1 .. n : m[i] \in Lexeme /\ m[i] \notin ToSet(s)
    <2>1. PICK n \in Nat : n = Len(m) /\ DOMAIN m = 1 .. n /\ \A i \in 1 .. n : m[i] \in Lexeme
      BY ElementOfSeq, LenProperties
    <2>2. \A i \in 1 .. n : m[i] \in ToSet(m)
      BY <2>1, MemberOf
    <2> QED
      BY <2>1, <2>2 DEF Disjoint
  <1> DEFINE A == {a \in Seq(Lexeme) : Fresh(a, s)}
  <1>2. ASSUME NEW a \in A, NEW v \in Lexeme, v \notin ToSet(s) PROVE AddUnique(a, v) \in A
    <2>1. CASE Absorbs(a, v)
      BY <2>1 DEF AddUnique, Absorbs
    <2>2. CASE ~Absorbs(a, v)
      <3>1. PICK k \in Nat : k = Len(a) /\ DOMAIN a = 1 .. k
        OBVIOUS
      <3>2. PICK b : b = Append(a, v)
        OBVIOUS
      <3>3. /\ b \in Seq(Lexeme) /\ Len(b) = k + 1 /\ ToSet(b) = ToSet(a) \cup {v}
            /\ \A i \in 1 .. k : b[i] = a[i]
            /\ b[k + 1] = v /\ DOMAIN b = 1 .. (k + 1)
        <4>1. /\ b \in Seq(Lexeme) /\ Len(b) = k + 1 /\ ToSet(b) = ToSet(a) \cup {v}
              /\ \A i \in 1 .. k : b[i] = a[i]
              /\ b[k + 1] = v
          BY <3>1, <3>2, AppendFacts
        <4> QED
          BY <4>1
      <3>4. b = AddUnique(a, v) /\ v \notin ToSet(a) /\ k < Capacity
        BY <2>2, <3>1, <3>2, DeltaConstants DEF AddUnique, Absorbs
      <3>5. NoTwice(b)
        <4>1. ASSUME NEW i \in 1 .. (k + 1), NEW j \in 1 .. (k + 1), b[i] = b[j] PROVE i = j
          <5>1. \A x \in 1 .. k : b[x] # v
            BY <3>1, <3>3, <3>4, MemberOf
          <5>2. CASE i = k + 1 \/ j = k + 1
            BY <3>3, <4>1, <5>1, <5>2
          <5>3. CASE i # k + 1 /\ j # k + 1
            <6>1. i \in 1 .. k /\ j \in 1 .. k
              BY <5>3
            <6>2. a[i] = a[j]
              BY <3>3, <4>1, <6>1
            <6> QED
              BY <3>1, <6>1, <6>2 DEF Fresh, NoTwice
          <5> QED
            BY <5>2, <5>3
        <4> QED
          BY <3>3, <4>1 DEF NoTwice
      <3>6. Len(b) <= Capacity
        BY <3>3, <3>4, DeltaConstants
      <3>7. Disjoint(b, s)
        BY <1>2, <3>3 DEF Fresh, Disjoint
      <3> QED
        BY <3>3, <3>4, <3>5, <3>6, <3>7 DEF Fresh
    <2> QED
      BY <2>1, <2>2
  <1>3. Adds!Keeps(A, m, n)
    <2> HIDE DEF A
    <2> QED
      BY <1>1, <1>2 DEF Adds!Keeps
  <1>4. d \in A
    BY DEF Fresh
  <1>5. FoldLeft(AddUnique, d, m) \in A
    <2> HIDE DEF A
    <2> QED
      BY <1>1, <1>3, <1>4, Adds!FoldWithin, AddsSame
  <1> QED
    BY <1>5 DEF AppendUnique

LEMMA AppendLast ==
    ASSUME NEW base, NEW n \in Nat, NEW s, NEW longer, DOMAIN s = 1 .. n, DOMAIN longer = 1 .. (n + 1),
           \A i \in 1 .. n : longer[i] = s[i]
    PROVE  AppendUnique(base, longer) = AddUnique(AppendUnique(base, s), longer[n + 1])
  <1>1. Adds!FoldLeft(AddUnique, base, longer) = FoldLeft(AddUnique, base, longer)
    BY AddsSame
  <1>2. Adds!FoldLeft(AddUnique, base, s) = FoldLeft(AddUnique, base, s)
    BY AddsSame
  <1>3. Adds!FoldLeft(AddUnique, base, longer)
            = AddUnique(Adds!FoldLeft(AddUnique, base, s), longer[n + 1])
    BY Adds!FoldLast, Zenon DEF Adds!FoldLeft
  <1> QED
    BY <1>1, <1>2, <1>3, Zenon DEF AppendUnique

LEMMA AppendOne ==
    ASSUME NEW list \in Seq(Lexeme), NEW m \in Seq(Lexeme), NEW v \in Lexeme
    PROVE  AppendUnique(list, Append(m, v)) = AddUnique(AppendUnique(list, m), v)
  <1>1. PICK n \in Nat : n = Len(m) /\ DOMAIN m = 1 .. n
    OBVIOUS
  <1>2. PICK longer : longer = Append(m, v)
    OBVIOUS
  <1>3. DOMAIN longer = 1 .. (n + 1) /\ longer[n + 1] = v /\ \A i \in 1 .. n : longer[i] = m[i]
    BY <1>1, <1>2
  <1>4. AppendUnique(list, longer) = AddUnique(AppendUnique(list, m), longer[n + 1])
    BY <1>1, <1>3, AppendLast
  <1> QED
    BY <1>2, <1>3, <1>4

\* A list that is full, or has joined all of a full one, is full.
LEMMA FullTake ==
    ASSUME NEW s \in Seq(Lexeme), NEW d, Fresh(d, s), Len(s) + Len(d) >= Capacity
    PROVE  Len(AppendUnique(s, d)) >= Capacity
  <1>1. PICK l \in Nat, n \in Nat : l = Len(s) /\ n = Len(d) /\ n <= Capacity /\ l + n >= Capacity
    BY DEF Fresh
  <1>2. PICK k : k = Lesser(RoomLeft(s), n)
    OBVIOUS
  <1>3. k \in Nat /\ l + k >= Capacity
    BY <1>1, <1>2, DeltaConstants DEF Lesser, RoomLeft, Larger
  <1>4. Joined(AppendUnique(s, d), s, d, k)
    BY <1>1, <1>2, JoinedTake DEF Fresh
  <1> QED
    BY <1>1, <1>3, <1>4 DEF Joined

LEMMA SubSeqFacts ==
    ASSUME NEW V, NEW s \in Seq(V), NEW k \in Nat, k <= Len(s)
    PROVE  /\ SubSeq(s, 1, k) \in Seq(V) /\ Len(SubSeq(s, 1, k)) = k
           /\ DOMAIN SubSeq(s, 1, k) = 1 .. k
           /\ \A i \in 1 .. k : SubSeq(s, 1, k)[i] = s[i]
           /\ k < Len(s) => SubSeq(s, 1, k + 1) = Append(SubSeq(s, 1, k), s[k + 1])
           /\ k < Len(s) => s[k + 1] \in V
           /\ SubSeq(s, 1, 0) = <<>> /\ SubSeq(s, 1, Len(s)) = s
  <1>1. PICK n \in Nat : n = Len(s) /\ DOMAIN s = 1 .. n /\ \A i \in 1 .. n : s[i] \in V
    BY ElementOfSeq, LenProperties
  <1>2. \A j \in 0 .. n : /\ SubSeq(s, 1, j) \in Seq(V) /\ Len(SubSeq(s, 1, j)) = j
                          /\ DOMAIN SubSeq(s, 1, j) = 1 .. j
                          /\ \A i \in 1 .. j : SubSeq(s, 1, j)[i] = s[i]
    <2>1. TAKE j \in 0 .. n
    <2>2. \A i \in 1 .. j : s[i] \in V
      BY <1>1
    <2>3. SubSeq(s, 1, j) = [i \in 1 .. j |-> s[i]]
      BY <1>1
    <2> QED
      BY <2>2, <2>3
  <1>3. k < n => SubSeq(s, 1, k + 1) = Append(SubSeq(s, 1, k), s[k + 1])
    <2>1. SUFFICES ASSUME k < n PROVE SubSeq(s, 1, k + 1) = Append(SubSeq(s, 1, k), s[k + 1])
      OBVIOUS
    <2>2. PICK a \in Seq(V) : /\ a = SubSeq(s, 1, k) /\ Len(a) = k /\ \A i \in 1 .. k : a[i] = s[i]
      <3>1. k \in 0 .. n
        BY <2>1
      <3> QED
        BY <1>2, <3>1
    <2>3. PICK b \in Seq(V) : /\ b = SubSeq(s, 1, k + 1) /\ Len(b) = k + 1 /\ \A i \in 1 .. k + 1 : b[i] = s[i]
      <3>1. k + 1 \in 0 .. n
        BY <2>1
      <3> QED
        BY <1>2, <3>1
    <2>4. s[k + 1] \in V
      BY <1>1, <2>1
    <2>5. PICK c \in Seq(V) : c = Append(a, s[k + 1])
      <3>1. PICK v \in V : v = s[k + 1]
        BY <2>4
      <3>2. Append(a, v) \in Seq(V)
        BY <2>2
      <3> QED
        BY <3>1, <3>2
    <2>6. Len(c) = k + 1 /\ \A i \in 1 .. k : c[i] = a[i]
      BY <2>2, <2>5
    <2>7. c[k + 1] = s[k + 1]
      BY <2>2, <2>5
    <2>8. \A i \in 1 .. k + 1 : c[i] = b[i]
      <3>1. TAKE i \in 1 .. k + 1
      <3>2. CASE i = k + 1
        BY <2>3, <2>7, <3>2
      <3>3. CASE i # k + 1
        <4>1. i \in 1 .. k
          BY <3>3
        <4> QED
          BY <2>2, <2>3, <2>6, <4>1
      <3> QED
        BY <3>2, <3>3
    <2>9. c = b
      BY <2>3, <2>6, <2>8
    <2> QED
      BY <2>2, <2>3, <2>5, <2>9
  <1>4. SubSeq(s, 1, 0) = <<>> /\ SubSeq(s, 1, n) = s
    <2>1. n \in 0 .. n /\ 0 \in 0 .. n
      OBVIOUS
    <2>2. /\ SubSeq(s, 1, 0) \in Seq(V) /\ Len(SubSeq(s, 1, 0)) = 0
          /\ SubSeq(s, 1, n) \in Seq(V) /\ DOMAIN SubSeq(s, 1, n) = 1 .. n
          /\ \A i \in 1 .. n : SubSeq(s, 1, n)[i] = s[i]
      BY <1>2, <2>1
    <2>3. SubSeq(s, 1, n) = s
      BY <1>1, <2>2, SameSequence
    <2> QED
      BY <2>2, <2>3
  <1>5. k \in 0 .. n
    BY <1>1
  <1> QED
    BY <1>1, <1>2, <1>3, <1>4, <1>5

\* What a list of `s` lacks of p, added to what others have added to s, comes to p
\* added after them.
Beyond(s, p) ==
    SubSeq(AppendUnique(s, p), Len(s) + 1, Len(AppendUnique(s, p)))

Tells(y, m, s, d, x) ==
    /\ Fresh(m, s) /\ Len(m) <= RoomLeft(s) /\ y = s \o m
    /\ x = AppendUnique(s, AppendUnique(d, m))

LEMMA TellsStep ==
    ASSUME NEW s \in Seq(Lexeme), NEW d, Fresh(d, s), NEW y \in Seq(Lexeme), NEW m, NEW x \in Seq(Lexeme),
           NEW v \in Lexeme, Tells(y, m, s, d, x)
    PROVE  \E n \in Seq(Lexeme) : Tells(AddUnique(y, v), n, s, d, AddUnique(x, v))
  <1>1. PICK e : e = AppendUnique(d, m)
    OBVIOUS
  <1>2. /\ m \in Seq(Lexeme) /\ d \in Seq(Lexeme) /\ Fresh(e, s) /\ e \in Seq(Lexeme)
        /\ x = AppendUnique(s, e) /\ Disjoint(m, s) /\ NoTwice(m) /\ y = s \o m
    <2>1. m \in Seq(Lexeme) /\ Disjoint(m, s) /\ NoTwice(m) /\ d \in Seq(Lexeme)
      BY DEF Tells, Fresh
    <2>2. Fresh(e, s)
      BY <1>1, <2>1, FreshTake
    <2> QED
      BY <1>1, <2>1, <2>2 DEF Tells, Fresh
  <1>3. PICK l \in Nat, k \in Nat : l = Len(s) /\ k = Len(m) /\ Len(y) = l + k
    BY <1>2
  <1>4. ToSet(y) = ToSet(s) \cup ToSet(m)
    <2>1. /\ \A i \in 1 .. l : y[i] = s[i]
          /\ \A i \in 1 .. k : y[l + i] = m[i]
      BY <1>2, <1>3
    <2>2. ASSUME NEW u PROVE u \in ToSet(y) <=> u \in ToSet(s) \cup ToSet(m)
      <3>1. ASSUME NEW i \in 1 .. (l + k), y[i] = u PROVE u \in ToSet(s) \cup ToSet(m)
        <4>1. CASE i <= l
          BY <1>3, <2>1, <3>1, <4>1, MemberOf
        <4>2. CASE i > l
          <5>1. PICK j \in 1 .. k : i = l + j
            <6>1. i - l \in 1 .. k /\ i = l + (i - l)
              BY <4>2
            <6> QED
              BY <6>1
          <5> QED
            BY <1>2, <1>3, <2>1, <3>1, <5>1, MemberOf
        <4> QED
          BY <4>1, <4>2
      <3>2. ASSUME NEW i \in 1 .. l, s[i] = u PROVE u \in ToSet(y)
        <4>1. i \in 1 .. (l + k)
          OBVIOUS
        <4> QED
          BY <1>3, <2>1, <3>2, <4>1, MemberOf
      <3>3. ASSUME NEW i \in 1 .. k, m[i] = u PROVE u \in ToSet(y)
        <4>1. l + i \in 1 .. (l + k)
          OBVIOUS
        <4> QED
          BY <1>3, <2>1, <3>3, <4>1, MemberOf
      <3> QED
        BY <1>2, <1>3, <3>1, <3>2, <3>3, MemberOf
    <2> QED
      BY <2>2
  <1>5. Len(e) >= Capacity => Len(x) >= Capacity
    <2>1. Len(e) >= Capacity => Len(s) + Len(e) >= Capacity
      BY <1>2, DeltaConstants
    <2> QED
      BY <1>2, <2>1, FullTake
  <1>6. v \in ToSet(e) => Absorbs(x, v)
    <2>1. v \in ToSet(e) => \E i \in DOMAIN e : e[i] = v
      BY <1>2, MemberOf
    <2> QED
      BY <1>2, <2>1, UniqueFacts
  <1>7. v \in ToSet(s) => Absorbs(x, v)
    BY <1>2, UniqueFacts DEF Absorbs
  <1>8. \A i \in DOMAIN m : m[i] \in ToSet(e) \/ Len(e) >= Capacity
    BY <1>1, <1>2, UniqueFacts DEF Absorbs
  <1>9. CASE Absorbs(y, v)
    <2>1. AddUnique(y, v) = y
      BY <1>9, AddUniqueFacts
    <2>2. Absorbs(x, v)
      <3>1. CASE v \in ToSet(m)
        <4>1. PICK i \in DOMAIN m : m[i] = v
          BY <1>2, <3>1, MemberOf
        <4> QED
          BY <1>5, <1>6, <1>8, <4>1 DEF Absorbs
      <3>2. CASE v \notin ToSet(m) /\ v \in ToSet(y)
        BY <1>4, <1>7, <3>2
      <3>3. CASE Len(y) >= Capacity
        <4>1. CASE \E i \in DOMAIN m : m[i] \notin ToSet(e)
          BY <1>5, <1>8, <4>1 DEF Absorbs
        <4>2. CASE \A i \in DOMAIN m : m[i] \in ToSet(e)
          <5>1. ToSet(m) \subseteq ToSet(e)
            BY <1>2, <4>2, MemberOf
          <5>2. Len(m) <= Len(e)
            BY <1>2, <5>1, DistinctIsShorter
          <5>3. Len(e) \in Nat
            BY <1>2
          <5>4. Len(s) + Len(e) >= Capacity
            BY <1>3, <3>3, <5>2, <5>3, DeltaConstants
          <5> QED
            BY <1>2, <5>4, FullTake DEF Absorbs
        <4> QED
          BY <4>1, <4>2
      <3> QED
        BY <1>9, <3>1, <3>2, <3>3 DEF Absorbs
    <2>3. AddUnique(x, v) = x
      BY <2>2, AddUniqueFacts
    <2> QED
      BY <1>2, <2>1, <2>3
  <1>10. CASE ~Absorbs(y, v)
    <2>1. /\ AddUnique(y, v) = Append(y, v) /\ v \notin ToSet(y) /\ l + k < Capacity
      BY <1>3, <1>10, DeltaConstants DEF AddUnique, Absorbs
    <2>2. PICK n \in Seq(Lexeme) : n = Append(m, v)
      <3>1. Append(m, v) \in Seq(Lexeme)
        BY <1>2, AppendFacts
      <3> QED
        BY <3>1
    <2>3. Len(n) = k + 1 /\ ToSet(n) = ToSet(m) \cup {v}
      BY <1>2, <1>3, <2>2, AppendFacts
    <2>4. Append(y, v) = s \o n
      BY <1>2, <2>2
    <2>5. Disjoint(<<v>>, s)
      <3>1. ToSet(<<v>>) = {v}
        BY DEF ToSet
      <3> QED
        BY <1>4, <2>1, <3>1 DEF Disjoint
    <2>6. n = AddUnique(m, v)
      BY <1>3, <1>4, <2>1, <2>2, DeltaConstants DEF AddUnique
    <2>7. Fresh(n, s)
      <3>1. <<v>> \in Seq(Lexeme) /\ <<>> \in Seq(Lexeme) /\ <<v>> = Append(<<>>, v)
        OBVIOUS
      <3>2. AppendUnique(m, <<>>) = m
        BY Adds!FoldEmpty, AddsSame DEF AppendUnique
      <3>3. AppendUnique(m, <<v>>) = n
        <4>1. AppendUnique(m, Append(<<>>, v)) = AddUnique(AppendUnique(m, <<>>), v)
          BY <1>2, <3>1, AppendOne
        <4> QED
          BY <2>6, <3>1, <3>2, <4>1
      <3>4. Fresh(m, s)
        BY DEF Tells
      <3> QED
        BY <2>5, <3>1, <3>3, <3>4, FreshTake
    <2>8. Len(n) <= RoomLeft(s)
      BY <1>3, <2>1, <2>3, DeltaConstants DEF RoomLeft, Larger
    <2>9. AddUnique(x, v) = AppendUnique(s, AppendUnique(d, n))
      <3>1. AppendUnique(d, n) = AddUnique(e, v)
        BY <1>1, <1>2, <2>2, AppendOne
      <3>2. CASE Absorbs(e, v)
        <4>1. AddUnique(e, v) = e
          BY <1>2, <3>2, AddUniqueFacts
        <4>2. Absorbs(x, v)
          BY <1>5, <1>6, <3>2 DEF Absorbs
        <4>3. AddUnique(x, v) = x
          BY <4>2, AddUniqueFacts
        <4> QED
          BY <1>2, <3>1, <4>1, <4>3
      <3>3. CASE ~Absorbs(e, v)
        <4>1. AddUnique(e, v) = Append(e, v)
          BY <3>3 DEF AddUnique, Absorbs
        <4>2. AppendUnique(s, Append(e, v)) = AddUnique(AppendUnique(s, e), v)
          BY <1>2, AppendOne
        <4> QED
          BY <1>2, <3>1, <4>1, <4>2
      <3> QED
        BY <3>2, <3>3
    <2>10. Tells(AddUnique(y, v), n, s, d, AddUnique(x, v))
      BY <2>1, <2>4, <2>7, <2>8, <2>9 DEF Tells
    <2> QED
      BY <2>2, <2>10
  <1> QED
    BY <1>9, <1>10

LEMMA AppendInto ==
    ASSUME NEW s \in Seq(Lexeme), NEW d, Fresh(d, s), NEW p \in Seq(Lexeme),
           NEW m, m = Beyond(s, p)
    PROVE  /\ AppendUnique(AppendUnique(s, d), p) = AppendUnique(s, AppendUnique(d, m))
           /\ Fresh(m, s) /\ Fresh(AppendUnique(d, m), s)
  <1>1. PICK n \in Nat : n = Len(p) /\ DOMAIN p = 1 .. n /\ \A i \in 1 .. n : p[i] \in Lexeme
    BY ElementOfSeq, LenProperties
  <1>2. PICK x \in Seq(Lexeme) : x = AppendUnique(s, d)
    BY UniqueFacts DEF Fresh
  <1> DEFINE X(i) == AppendUnique(x, SubSeq(p, 1, i))
             A == [i \in 0 .. n |-> {y \in Seq(Lexeme) : \E b \in Seq(Lexeme) : Tells(y, b, s, d, X(i))}]
  <1>3. s \in A[0]
    <2>1. X(0) = x
      <3>1. SubSeq(p, 1, 0) = <<>>
        BY <1>1, SubSeqFacts
      <3> QED
        BY <3>1, Adds!FoldEmpty, AddsSame DEF AppendUnique
    <2>2. AppendUnique(d, <<>>) = d
      BY Adds!FoldEmpty, AddsSame DEF AppendUnique
    <2>3. <<>> \in Seq(Lexeme) /\ Len(<<>>) = 0 /\ ToSet(<<>>) = {} /\ DOMAIN <<>> = {} /\ s = s \o <<>>
      BY DEF ToSet
    <2>4. Fresh(<<>>, s)
      BY <2>3, DeltaConstants DEF Fresh, Disjoint, NoTwice
    <2>5. Len(<<>>) <= RoomLeft(s)
      <3>1. Len(s) \in Nat
        OBVIOUS
      <3> QED
        BY <2>3, <3>1, DeltaConstants DEF RoomLeft, Larger
    <2>6. Tells(s, <<>>, s, d, X(0))
      BY <1>2, <2>1, <2>2, <2>3, <2>4, <2>5 DEF Tells
    <2> HIDE DEF X
    <2>7. \E b \in Seq(Lexeme) : Tells(s, b, s, d, X(0))
      BY <2>3, <2>6
    <2>8. 0 \in 0 .. n
      BY <1>1
    <2> QED
      BY <2>7, <2>8
  <1>4. ASSUME NEW i \in 1 .. n, NEW y \in A[i - 1] PROVE AddUnique(y, p[i]) \in A[i]
    <2>1. i - 1 \in 0 .. n /\ i \in 0 .. n /\ i - 1 \in Nat /\ (i - 1) + 1 = i /\ i - 1 < n
      OBVIOUS
    <2>2. PICK b \in Seq(Lexeme) : y \in Seq(Lexeme) /\ Tells(y, b, s, d, X(i - 1))
      <3> HIDE DEF X
      <3> QED
        BY <2>1
    <2>3. SubSeq(p, 1, i - 1) \in Seq(Lexeme) /\ SubSeq(p, 1, i) = Append(SubSeq(p, 1, i - 1), p[i])
      <3>1. PICK j \in Nat : j = i - 1 /\ j <= Len(p) /\ j < Len(p) /\ j + 1 = i
        BY <1>1, <2>1
      <3>2. SubSeq(p, 1, j) \in Seq(Lexeme) /\ SubSeq(p, 1, j + 1) = Append(SubSeq(p, 1, j), p[j + 1])
        BY <3>1, SubSeqFacts
      <3> QED
        BY <3>1, <3>2
    <2>4. X(i) = AddUnique(X(i - 1), p[i]) /\ X(i - 1) \in Seq(Lexeme)
      <3>1. PICK q \in Seq(Lexeme) : q = SubSeq(p, 1, i - 1)
        BY <2>3
      <3>2. p[i] \in Lexeme
        BY <1>1
      <3>3. AppendUnique(x, Append(q, p[i])) = AddUnique(AppendUnique(x, q), p[i])
        BY <1>2, <3>2, AppendOne
      <3>4. AppendUnique(x, q) \in Seq(Lexeme)
        BY <1>2, UniqueFacts
      <3> QED
        BY <2>3, <3>1, <3>3, <3>4
    <2> HIDE DEF X
    <2>5. \E c \in Seq(Lexeme) : Tells(AddUnique(y, p[i]), c, s, d, X(i))
      BY <1>1, <2>2, <2>4, TellsStep
    <2>6. AddUnique(y, p[i]) \in Seq(Lexeme)
      BY <1>1, <2>2, AddUniqueFacts
    <2> QED
      BY <2>1, <2>5, <2>6
  <1>5. Adds!Advances(A, p, n)
    <2> HIDE DEF A
    <2> QED
      BY <1>4 DEF Adds!Advances
  <1>6. FoldLeft(AddUnique, s, p) \in A[n]
    <2> HIDE DEF A
    <2> QED
      BY <1>1, <1>3, <1>5, Adds!FoldAdvances, AddsSame
  <1>7. PICK y \in Seq(Lexeme), b \in Seq(Lexeme) : y = AppendUnique(s, p) /\ Tells(y, b, s, d, X(n))
    <2>1. n \in 0 .. n
      OBVIOUS
    <2> HIDE DEF X
    <2> QED
      BY <1>6, <2>1 DEF AppendUnique
  <1>8. SubSeq(p, 1, n) = p
    BY <1>1, SubSeqFacts
  <1>9. X(n) = AppendUnique(AppendUnique(s, d), p)
    BY <1>2, <1>8
  <1>10. m = b
    <2>1. PICK l \in Nat, k \in Nat : l = Len(s) /\ k = Len(b) /\ y = s \o b
      BY <1>7 DEF Tells
    <2>2. Len(y) = l + k /\ \A i \in 1 .. k : y[l + i] = b[i]
      BY <2>1
    <2>3. m = SubSeq(y, l + 1, l + k)
      BY <1>7, <2>1, <2>2 DEF Beyond
    <2>4. SubSeq(y, l + 1, l + k) = [i \in 1 .. k |-> y[i + l]]
      <3>1. 1 .. ((l + k) - (l + 1) + 1) = 1 .. k /\ \A i \in 1 .. k : (i + (l + 1)) - 1 = i + l
        OBVIOUS
      <3> QED
        BY <3>1
    <2>5. \A i \in 1 .. k : i + l = l + i
      OBVIOUS
    <2>6. DOMAIN b = 1 .. k /\ b = [i \in 1 .. k |-> b[i]]
      BY <2>1
    <2> QED
      BY <2>2, <2>3, <2>4, <2>5, <2>6
  <1>11. Fresh(b, s) /\ AppendUnique(AppendUnique(s, d), p) = AppendUnique(s, AppendUnique(d, b))
    BY <1>7, <1>9 DEF Tells
  <1>12. Fresh(AppendUnique(d, b), s)
    BY <1>11, FreshTake DEF Fresh
  <1> QED
    BY <1>10, <1>11, <1>12

-----------------------------------------------------------------------------
(* A relation extended with what it lacks of another.                      *)

\* Relations that extend others.
Clean(r, base) == r \in Relation /\ \A f \in RelationField : Fresh(r[f], base[f])
Lacks(base, added) == [f \in RelationField |-> Beyond(base[f], added[f])]

LEMMA ExtendInto ==
    ASSUME NEW base \in Relation, NEW d, Clean(d, base), NEW p \in Relation,
           NEW m, m = Lacks(base, p)
    PROVE  /\ Extended(Extended(base, d), p) = Extended(base, Extended(d, m))
           /\ Clean(m, base) /\ Clean(Extended(d, m), base)
  <1>1. ASSUME NEW f \in RelationField
        PROVE  /\ m[f] = Beyond(base[f], p[f]) /\ base[f] \in Seq(Lexeme) /\ Fresh(m[f], base[f])
               /\ AppendUnique(AppendUnique(base[f], d[f]), p[f])
                    = AppendUnique(base[f], AppendUnique(d[f], m[f]))
               /\ Fresh(AppendUnique(d[f], m[f]), base[f])
    <2>1. m[f] = Beyond(base[f], p[f])
      BY DEF Lacks
    <2>2. base[f] \in Seq(Lexeme) /\ p[f] \in Seq(Lexeme) /\ Fresh(d[f], base[f])
      BY DEF Relation, Clean
    <2> QED
      BY <2>1, <2>2, AppendInto
  <1>2. \A f \in RelationField : m[f] \in Seq(Lexeme) /\ AppendUnique(d[f], m[f]) \in Seq(Lexeme)
    BY <1>1 DEF Fresh
  <1>3. m \in Relation
    <2>1. m = [f \in RelationField |-> m[f]]
      BY DEF Lacks
    <2> QED
      BY <1>2, <2>1 DEF Relation
  <1>4. Clean(m, base)
    BY <1>1, <1>3 DEF Clean
  <1>5. Extended(d, m) = [f \in RelationField |-> AppendUnique(d[f], m[f])]
    BY DEF Extended
  <1>6. Clean(Extended(d, m), base)
    BY <1>1, <1>2, <1>5 DEF Clean, Relation
  <1>7. \A f \in RelationField : Extended(base, d)[f] = AppendUnique(base[f], d[f])
    BY DEF Extended
  <1>8. Extended(Extended(base, d), p) = Extended(base, Extended(d, m))
    <2>1. Extended(Extended(base, d), p)
            = [f \in RelationField |-> AppendUnique(Extended(base, d)[f], p[f])]
      BY DEF Extended
    <2>2. Extended(base, Extended(d, m))
            = [f \in RelationField |-> AppendUnique(base[f], Extended(d, m)[f])]
      BY DEF Extended
    <2>3. \A f \in RelationField :
             AppendUnique(Extended(base, d)[f], p[f]) = AppendUnique(base[f], Extended(d, m)[f])
      BY <1>1, <1>5, <1>7
    <2> QED
      BY <2>1, <2>2, <2>3
  <1> QED
    BY <1>4, <1>6, <1>8

LEMMA ExtendNothing ==
    ASSUME NEW base \in Relation
    PROVE  /\ Extended(base, NoRelations) = base /\ Clean(NoRelations, base)
           /\ NoRelations \in Relation
           /\ \A d : Clean(d, base) => Extended(NoRelations, d) = d
  <1>1. NoRelations \in Relation
    BY DEF NoRelations, Relation
  <1>2. \A f \in RelationField : NoRelations[f] = <<>> /\ base[f] \in Seq(Lexeme)
    BY DEF NoRelations, Relation
  <1>3. \A list \in Seq(Lexeme) : AppendUnique(list, <<>>) = list
    BY Adds!FoldEmpty, AddsSame DEF AppendUnique
  <1>4. Extended(base, NoRelations) = base
    <2>1. Extended(base, NoRelations)
            = [f \in RelationField |-> AppendUnique(base[f], NoRelations[f])]
      BY DEF Extended
    <2>2. base = [f \in RelationField |-> base[f]]
      BY DEF Relation
    <2> QED
      BY <1>2, <1>3, <2>1, <2>2
  <1>5. \A list \in Seq(Lexeme) : Fresh(<<>>, list)
    <2>1. <<>> \in Seq(Lexeme) /\ Len(<<>>) = 0 /\ ToSet(<<>>) = {} /\ DOMAIN <<>> = {}
      BY DEF ToSet
    <2> QED
      BY <2>1, DeltaConstants DEF Fresh, Disjoint, NoTwice
  <1>6. Clean(NoRelations, base)
    BY <1>1, <1>2, <1>5 DEF Clean
  <1>7. ASSUME NEW d, Clean(d, base) PROVE Extended(NoRelations, d) = d
    <2>1. ASSUME NEW f \in RelationField PROVE AppendUnique(NoRelations[f], d[f]) = d[f]
      <3>1. Fresh(d[f], base[f])
        BY <1>7 DEF Clean
      <3>2. ToSet(<<>>) = {}
        BY DEF ToSet
      <3>3. Fresh(d[f], <<>>)
        BY <3>1, <3>2 DEF Fresh, Disjoint
      <3> QED
        BY <1>2, <3>3, FreshWhole
    <2>2. Extended(NoRelations, d) = [f \in RelationField |-> AppendUnique(NoRelations[f], d[f])]
      BY DEF Extended
    <2>3. d = [f \in RelationField |-> d[f]]
      BY <1>7 DEF Clean, Relation
    <2> QED
      BY <2>1, <2>2, <2>3
  <1> QED
    BY <1>1, <1>4, <1>6, <1>7

\* A sense of the delta's own lacks all a patch gives.
LEMMA LacksAll ==
    ASSUME NEW p \in Relation, NEW f \in RelationField, p[f] # <<>>
    PROVE  /\ Lacks(NoRelations, p) = Extended(NoRelations, p)
           /\ Lacks(NoRelations, p) # NoRelations
  <1>1. ASSUME NEW g \in RelationField
        PROVE  /\ Lacks(NoRelations, p)[g] = AppendUnique(<<>>, p[g])
               /\ Extended(NoRelations, p)[g] = AppendUnique(<<>>, p[g])
    <2>1. NoRelations[g] = <<>> /\ p[g] \in Seq(Lexeme) /\ <<>> \in Seq(Lexeme)
      BY DEF NoRelations, Relation
    <2>2. PICK x \in Seq(Lexeme) : x = AppendUnique(<<>>, p[g])
      BY <2>1, UniqueFacts
    <2>3. SubSeq(x, 1, Len(x)) = x
      <3>1. Len(x) \in Nat
        OBVIOUS
      <3> QED
        BY <3>1, SubSeqFacts
    <2>4. Len(<<>>) + 1 = 1
      OBVIOUS
    <2>5. Beyond(<<>>, p[g]) = x
      BY <2>2, <2>3, <2>4 DEF Beyond
    <2>6. Lacks(NoRelations, p)[g] = Beyond(NoRelations[g], p[g])
      BY DEF Lacks
    <2>7. Extended(NoRelations, p)[g] = AppendUnique(NoRelations[g], p[g])
      BY DEF Extended
    <2> QED
      BY <2>1, <2>2, <2>5, <2>6, <2>7
  <1>2. Lacks(NoRelations, p) = Extended(NoRelations, p)
    <2>1. /\ Lacks(NoRelations, p) = [g \in RelationField |-> Lacks(NoRelations, p)[g]]
          /\ Extended(NoRelations, p) = [g \in RelationField |-> Extended(NoRelations, p)[g]]
      BY DEF Lacks, Extended
    <2> QED
      BY <1>1, <2>1
  <1>3. Lacks(NoRelations, p)[f] # <<>>
    <2>1. p[f] \in Seq(Lexeme) /\ <<>> \in Seq(Lexeme)
      BY DEF Relation
    <2>2. 1 \in DOMAIN p[f]
      BY <2>1
    <2>3. PICK x \in Seq(Lexeme) : x = AppendUnique(<<>>, p[f])
      BY <2>1, UniqueFacts
    <2>4. Absorbs(x, p[f][1])
      BY <2>1, <2>2, <2>3, UniqueFacts
    <2>5. Len(<<>>) = 0 /\ ToSet(<<>>) = {}
      BY DEF ToSet
    <2>6. x # <<>>
      BY <2>4, <2>5, DeltaConstants DEF Absorbs
    <2> QED
      BY <1>1, <2>3, <2>6
  <1>4. NoRelations[f] = <<>>
    BY DEF NoRelations
  <1> QED
    BY <1>2, <1>3, <1>4

-----------------------------------------------------------------------------
(* Compact rows that stand for senses.                                     *)

\* MergeCompact, row by row.
SameRow(d, c) == d.index = c.index /\ (c.index > 0 \/ Matches(d, c))
Joins1(joined, list, n, i, c) ==
    /\ joined \in Seq(Compact) /\ DOMAIN joined = 1 .. n
    /\ \A k \in 1 .. n : k # i => joined[k] = list[k]
    /\ joined[i].index = list[i].index /\ SameIdentity(joined[i], list[i])
    /\ joined[i].relations = Extended(list[i].relations, c.relations)
Follows(joined, list, n, c) ==
    /\ joined \in Seq(Compact) /\ DOMAIN joined = 1 .. (n + 1)
    /\ \A k \in 1 .. n : joined[k] = list[k]
    /\ joined[n + 1].index = c.index /\ SameIdentity(joined[n + 1], c)
    /\ joined[n + 1].relations = Extended(NoRelations, c.relations)

LEMMA MergeCompactFacts ==
    ASSUME NEW list \in Seq(Compact), NEW n \in Nat, n = Len(list), NEW c \in Compact,
           NEW joined, joined = MergeCompact(list, c)
    PROVE  \/ \E i \in 1 .. n : /\ SameRow(list[i], c) /\ \A k \in 1 .. i - 1 : ~SameRow(list[k], c)
                                /\ Joins1(joined, list, n, i, c)
           \/ /\ \A k \in 1 .. n : ~SameRow(list[k], c)
              /\ Follows(joined, list, n, c)
  <1>1. DOMAIN list = 1 .. n /\ \A i \in 1 .. n : list[i] \in Compact
    BY ElementOfSeq, LenProperties
  <1> DEFINE same(d) == d.index = c.index /\ (c.index > 0 \/ Matches(d, c))
             Hits == {j \in DOMAIN list : same(list[j])}
  <1>2. PICK i : i = FirstIn(list, same)
    OBVIOUS
  <1>3. \A k \in 1 .. n : k \in Hits <=> SameRow(list[k], c)
    BY <1>1 DEF SameRow
  <1>4. \/ i = 0 /\ Hits = {}
        \/ i \in Hits /\ \A k \in Hits : i <= k
    <2>1. FirstIn(list, same) = IF Hits = {} THEN 0
                                ELSE CHOOSE j \in Hits : \A k \in Hits : j <= k
      BY DEF FirstIn
    <2>2. Hits \subseteq Nat
      BY <1>1
    <2> HIDE DEF Hits
    <2>3. Hits # {} => \E j \in Hits : \A k \in Hits : j <= k
      BY <2>2, LeastNumber
    <2>4. \/ FirstIn(list, same) = 0 /\ Hits = {}
          \/ FirstIn(list, same) \in Hits /\ \A k \in Hits : FirstIn(list, same) <= k
      BY <2>1, <2>3
    <2> HIDE DEF same
    <2> QED
      BY <1>2, <2>4
  <1>5. Hits \subseteq 1 .. n
    BY <1>1
  <1>6. joined = IF i > 0 THEN [list EXCEPT ![i].relations = Extended(@, c.relations)]
                 ELSE Append(list, [c EXCEPT !.relations = Extended(NoRelations, @)])
    BY <1>2 DEF MergeCompact
  <1>7. c.relations \in Relation /\ NoRelations \in Relation
    BY DEF Compact, NoRelations, Relation
  <1> HIDE DEF Hits
  <1>8. CASE i = 0 /\ Hits = {}
    <2>1. PICK r \in Relation : r = Extended(NoRelations, c.relations)
      BY <1>7, ExtendedFacts
    <2>2. PICK x \in Compact : x = [c EXCEPT !.relations = r]
      BY DEF Compact
    <2>3. joined = Append(list, x)
      BY <1>6, <1>8, <2>1, <2>2
    <2>4. x.index = c.index /\ SameIdentity(x, c) /\ x.relations = r
      BY <2>2 DEF Compact, SameIdentity
    <2>5. /\ joined \in Seq(Compact) /\ Len(joined) = n + 1 /\ joined[n + 1] = x
          /\ \A k \in 1 .. n : joined[k] = list[k]
      BY <2>3, AppendFacts
    <2>6. DOMAIN joined = 1 .. (n + 1)
      BY <2>5
    <2>7. Follows(joined, list, n, c)
      BY <2>1, <2>4, <2>5, <2>6 DEF Follows
    <2> QED
      BY <1>3, <1>8, <2>7
  <1>9. CASE i \in Hits /\ \A k \in Hits : i <= k
    <2>1. i \in 1 .. n /\ i > 0
      BY <1>5, <1>9
    <2>2. list[i] \in Compact /\ list[i].relations \in Relation
      BY <1>1, <2>1 DEF Compact
    <2>3. PICK r \in Relation : r = Extended(list[i].relations, c.relations)
      BY <1>7, <2>2, ExtendedFacts
    <2>4. PICK x \in Compact : x = [list[i] EXCEPT !.relations = r]
      BY <2>2 DEF Compact
    <2>5. joined = [list EXCEPT ![i] = x]
      BY <1>1, <1>6, <2>1, <2>3, <2>4
    <2>6. x.index = list[i].index /\ SameIdentity(x, list[i]) /\ x.relations = r
      BY <2>2, <2>4 DEF Compact, SameIdentity
    <2>7. /\ joined \in Seq(Compact) /\ DOMAIN joined = 1 .. n /\ joined[i] = x
          /\ \A k \in 1 .. n : k # i => joined[k] = list[k]
      BY <1>1, <2>1, <2>5
    <2>8. Joins1(joined, list, n, i, c)
      BY <2>3, <2>6, <2>7 DEF Joins1
    <2>9. \A k \in 1 .. i - 1 : ~SameRow(list[k], c)
      <3>1. TAKE k \in 1 .. i - 1
      <3>2. k \in 1 .. n /\ ~(i <= k)
        BY <2>1
      <3> QED
        BY <1>3, <1>9, <3>2
    <2> QED
      BY <1>3, <1>9, <2>1, <2>8, <2>9
  <1> QED
    BY <1>4, <1>8, <1>9

Compacted(c, senses, p, i) ==
    /\ c \in Compact /\ c.index = i
    /\ i > 0 => SameIdentity(c, senses[i]) /\ c.relations = Lacks(senses[i].relations, p.relations)
    /\ i = 0 => SameIdentity(c, p) /\ c.relations = Lacks(NoRelations, p.relations)

LEMMA CompactFacts ==
    ASSUME NEW senses \in Seq(RichSense), NEW p \in Patch, NEW i, i = MatchOf(senses, p),
           NEW c, c = CompactSense(senses, p)
    PROVE  Compacted(c, senses, p, i)
  <1>1. c \in Compact
    BY CompactType
  <1>2. i > 0 => c = [index |-> i, gloss |-> senses[i].gloss, id |-> senses[i].id,
                      relations |-> Lacks(senses[i].relations, p.relations)]
    BY DEF CompactSense, Lacks, Beyond
  <1>3. i = 0 => c = [index |-> i, gloss |-> p.gloss, id |-> p.id,
                      relations |-> Lacks(NoRelations, p.relations)]
    BY DEF CompactSense, Lacks, Beyond
  <1>4. i \in Nat
    <2>1. DOMAIN senses = 1 .. Len(senses) /\ Len(senses) \in Nat
      OBVIOUS
    <2> QED
      BY <2>1, MatchFacts
  <1> QED
    BY <1>1, <1>2, <1>3, <1>4 DEF SameIdentity, Compacted

-----------------------------------------------------------------------------
\* Rows of the delta stand for what the senses of a list have beyond the canonical
\* ones: row k for the sense at[k].
Base(senses, s, j) == IF j <= s THEN senses[j].relations ELSE NoRelations

Placed(senses, s, d, list, j) ==
    /\ SameIdentity(d, list[j]) /\ d.index = IF j <= s THEN j ELSE 0
    /\ Clean(d.relations, Base(senses, s, j))
    /\ list[j].relations = Extended(Base(senses, s, j), d.relations)
    /\ \A i \in 1 .. j - 1 : ~Matches(list[i], list[j])

Stands(senses, s, rows, n, list, m, at) ==
    /\ rows \in Seq(Compact) /\ n = Len(rows) /\ list \in Seq(RichSense) /\ m = Len(list) /\ s <= m
    /\ \A j \in 1 .. s : SameIdentity(list[j], senses[j])
    /\ at \in [1 .. n -> 1 .. m]
    /\ \A k \in 1 .. n : Placed(senses, s, rows[k], list, at[k])
    /\ \A k, l \in 1 .. n : k < l => at[k] # at[l] /\ (at[k] <= s \/ at[l] <= s \/ at[k] < at[l])
    /\ \A j \in 1 .. m : \/ \E k \in 1 .. n : at[k] = j
                         \/ j <= s /\ list[j].relations = senses[j].relations

\* Only what the senses relate to may differ.
Alike(list, other, m) ==
    list \in Seq(RichSense) /\ m = Len(list) /\ \A j \in 1 .. m : SameIdentity(list[j], other[j])

LEMMA PlacedAlike ==
    ASSUME NEW senses, NEW s \in Nat, NEW m \in Nat, NEW list, NEW new, Alike(new, list, m),
           NEW d, NEW e, NEW j \in 1 .. m, Placed(senses, s, d, list, j),
           SameIdentity(e, d), e.index = d.index, Clean(e.relations, Base(senses, s, j)),
           new[j].relations = Extended(Base(senses, s, j), e.relations)
    PROVE  Placed(senses, s, e, new, j)
  <1>1. \A i \in 1 .. m : new[i].gloss = list[i].gloss /\ new[i].id = list[i].id
    BY DEF Alike, SameIdentity
  <1>2. \A i \in 1 .. j - 1 : i \in 1 .. m
    OBVIOUS
  <1>3. \A i \in 1 .. j - 1 : Matches(new[i], new[j]) <=> Matches(list[i], list[j])
    BY <1>1, <1>2 DEF Matches
  <1>4. SameIdentity(e, new[j])
    BY <1>1 DEF SameIdentity, Placed
  <1> QED
    BY <1>3, <1>4 DEF Placed

\* Nothing new, or one row with more.
LEMMA StandsSame ==
    ASSUME NEW senses, NEW s \in Nat, NEW rows, NEW n \in Nat, NEW list, NEW m \in Nat, NEW at,
           Stands(senses, s, rows, n, list, m, at),
           NEW new, Alike(new, list, m), \A j \in 1 .. m : new[j].relations = list[j].relations
    PROVE  Stands(senses, s, rows, n, new, m, at)
  <1>1. \A k \in 1 .. n : Placed(senses, s, rows[k], new, at[k])
    <2>1. TAKE k \in 1 .. n
    <2>2. at[k] \in 1 .. m /\ Placed(senses, s, rows[k], list, at[k])
      BY DEF Stands
    <2>3. /\ Clean(rows[k].relations, Base(senses, s, at[k]))
          /\ new[at[k]].relations = Extended(Base(senses, s, at[k]), rows[k].relations)
      BY <2>2 DEF Placed
    <2> QED
      BY <2>2, <2>3, PlacedAlike DEF SameIdentity
  <1>2. \A j \in 1 .. s : SameIdentity(new[j], senses[j])
    <2>1. \A j \in 1 .. s : j \in 1 .. m
      BY DEF Stands
    <2> QED
      BY <2>1 DEF Stands, Alike, SameIdentity
  <1>3. new \in Seq(RichSense) /\ m = Len(new)
    BY DEF Alike
  <1>4. /\ rows \in Seq(Compact) /\ n = Len(rows) /\ s <= m /\ at \in [1 .. n -> 1 .. m]
        /\ \A k, l \in 1 .. n : k < l => at[k] # at[l] /\ (at[k] <= s \/ at[l] <= s \/ at[k] < at[l])
        /\ \A j \in 1 .. m : \/ \E k \in 1 .. n : at[k] = j
                             \/ j <= s /\ new[j].relations = senses[j].relations
    BY DEF Stands
  <1> QED
    BY <1>1, <1>2, <1>3, <1>4, Zenon DEF Stands

LEMMA StandsMore ==
    ASSUME NEW senses, NEW s \in Nat, NEW rows, NEW n \in Nat, NEW list, NEW m \in Nat, NEW at,
           Stands(senses, s, rows, n, list, m, at), NEW c, NEW k \in 1 .. n,
           NEW grown, Joins1(grown, rows, n, k, c),
           NEW new, Alike(new, list, m),
           \A j \in 1 .. m : j # at[k] => new[j].relations = list[j].relations,
           Clean(grown[k].relations, Base(senses, s, at[k])),
           new[at[k]].relations = Extended(Base(senses, s, at[k]), grown[k].relations)
    PROVE  Stands(senses, s, grown, n, new, m, at)
  <1>1. \A l \in 1 .. n : Placed(senses, s, grown[l], new, at[l])
    <2>1. TAKE l \in 1 .. n
    <2>2. at[l] \in 1 .. m /\ Placed(senses, s, rows[l], list, at[l])
      BY DEF Stands
    <2>3. CASE l = k
      <3>1. SameIdentity(grown[l], rows[l]) /\ grown[l].index = rows[l].index
        BY <2>3 DEF Joins1
      <3> QED
        BY <2>2, <2>3, <3>1, PlacedAlike
    <2>4. CASE l # k
      <3>1. grown[l] = rows[l]
        BY <2>4 DEF Joins1
      <3>2. at[l] # at[k]
        <4>1. l < k \/ k < l
          BY <2>4
        <4> QED
          BY <4>1 DEF Stands
      <3>3. /\ Clean(rows[l].relations, Base(senses, s, at[l]))
            /\ new[at[l]].relations = Extended(Base(senses, s, at[l]), rows[l].relations)
        BY <2>2, <3>2 DEF Placed
      <3> QED
        BY <2>2, <3>1, <3>3, PlacedAlike DEF SameIdentity
    <2> QED
      BY <2>3, <2>4
  <1>2. \A j \in 1 .. s : SameIdentity(new[j], senses[j])
    <2>1. \A j \in 1 .. s : j \in 1 .. m
      BY DEF Stands
    <2> QED
      BY <2>1 DEF Stands, Alike, SameIdentity
  <1>3. new \in Seq(RichSense) /\ m = Len(new)
    BY DEF Alike
  <1>4. grown \in Seq(Compact) /\ n = Len(grown)
    BY DEF Joins1
  <1>5. /\ s <= m /\ at \in [1 .. n -> 1 .. m]
        /\ \A l, o \in 1 .. n : l < o => at[l] # at[o] /\ (at[l] <= s \/ at[o] <= s \/ at[l] < at[o])
    BY DEF Stands
  <1>6. \A j \in 1 .. m : \/ \E l \in 1 .. n : at[l] = j
                          \/ j <= s /\ new[j].relations = senses[j].relations
    BY DEF Stands
  <1> QED
    BY <1>1, <1>2, <1>3, <1>4, <1>5, <1>6, Zenon DEF Stands

\* A row more, for a canonical sense that had none, or for a sense more.
LEMMA StandsFor ==
    ASSUME NEW senses, NEW s \in Nat, NEW rows, NEW n \in Nat, NEW list, NEW m \in Nat, NEW at,
           Stands(senses, s, rows, n, list, m, at), NEW c,
           NEW grown, Follows(grown, rows, n, c), NEW j \in 1 .. s, c.index = j,
           SameIdentity(c, list[j]), \A k \in 1 .. n : at[k] # j,
           NEW new, Alike(new, list, m),
           \A i \in 1 .. m : i # j => new[i].relations = list[i].relations,
           Clean(grown[n + 1].relations, Base(senses, s, j)),
           new[j].relations = Extended(Base(senses, s, j), grown[n + 1].relations),
           \A i \in 1 .. j - 1 : ~Matches(list[i], list[j])
    PROVE  \E to : Stands(senses, s, grown, n + 1, new, m, to)
  <1> DEFINE to == [k \in 1 .. (n + 1) |-> IF k = n + 1 THEN j ELSE at[k]]
  <1>0. j \in 1 .. m /\ s <= m
    BY DEF Stands
  <1>1. to \in [1 .. (n + 1) -> 1 .. m] /\ to[n + 1] = j /\ \A k \in 1 .. n : to[k] = at[k]
    <2>1. \A k \in 1 .. (n + 1) : k # n + 1 => k \in 1 .. n
      OBVIOUS
    <2>2. \A k \in 1 .. n : at[k] \in 1 .. m /\ k \in 1 .. (n + 1) /\ k # n + 1
      BY DEF Stands
    <2>3. n + 1 \in 1 .. (n + 1)
      OBVIOUS
    <2> QED
      BY <1>0, <2>1, <2>2, <2>3
  <1> HIDE DEF to
  <1>2. Placed(senses, s, grown[n + 1], new, j)
    <2>1. SameIdentity(grown[n + 1], new[j])
      BY <1>0 DEF Follows, Alike, SameIdentity
    <2>2. \A i \in 1 .. j - 1 : ~Matches(new[i], new[j])
      <3>1. \A i \in 1 .. m : new[i].gloss = list[i].gloss /\ new[i].id = list[i].id
        BY DEF Alike, SameIdentity
      <3>2. \A i \in 1 .. j - 1 : i \in 1 .. m
        BY <1>0
      <3> QED
        BY <1>0, <3>1, <3>2 DEF Matches
    <2>3. grown[n + 1].index = IF j <= s THEN j ELSE 0
      BY DEF Follows
    <2> QED
      BY <2>1, <2>2, <2>3 DEF Placed
  <1>3. \A k \in 1 .. (n + 1) : Placed(senses, s, grown[k], new, to[k])
    <2>1. TAKE k \in 1 .. (n + 1)
    <2>2. CASE k = n + 1
      BY <1>1, <1>2, <2>2
    <2>3. CASE k # n + 1
      <3>1. k \in 1 .. n
        BY <2>3
      <3>2. /\ at[k] \in 1 .. m /\ Placed(senses, s, rows[k], list, at[k]) /\ at[k] # j
            /\ grown[k] = rows[k] /\ to[k] = at[k]
        BY <1>1, <3>1 DEF Stands, Follows
      <3>3. /\ Clean(rows[k].relations, Base(senses, s, at[k]))
            /\ new[at[k]].relations = Extended(Base(senses, s, at[k]), rows[k].relations)
        BY <3>2 DEF Placed
      <3> QED
        BY <3>2, <3>3, PlacedAlike DEF SameIdentity
    <2> QED
      BY <2>2, <2>3
  <1>4. \A i \in 1 .. s : SameIdentity(new[i], senses[i])
    <2>1. \A i \in 1 .. s : i \in 1 .. m
      BY DEF Stands
    <2> QED
      BY <2>1 DEF Stands, Alike, SameIdentity
  <1>5. new \in Seq(RichSense) /\ m = Len(new)
    BY DEF Alike
  <1>6. grown \in Seq(Compact) /\ n + 1 = Len(grown)
    BY DEF Follows
  <1>7. ASSUME NEW k \in 1 .. (n + 1), NEW l \in 1 .. (n + 1), k < l
        PROVE  to[k] # to[l] /\ (to[k] <= s \/ to[l] <= s \/ to[k] < to[l])
    <2>1. k \in 1 .. n
      BY <1>7
    <2>2. CASE l = n + 1
      <3>1. to[l] = j /\ j <= s /\ to[k] # j
        BY <1>1, <2>1, <2>2
      <3> QED
        BY <3>1
    <2>3. CASE l # n + 1
      <3>1. l \in 1 .. n
        BY <2>3
      <3>2. at[k] # at[l] /\ (at[k] <= s \/ at[l] <= s \/ at[k] < at[l])
        BY <1>7, <2>1, <3>1 DEF Stands
      <3> QED
        BY <1>1, <2>1, <3>1, <3>2
    <2> QED
      BY <2>2, <2>3
  <1>8. ASSUME NEW i \in 1 .. m
        PROVE  \/ \E k \in 1 .. (n + 1) : to[k] = i
               \/ i <= s /\ new[i].relations = senses[i].relations
    <2>1. CASE i = j
      <3>1. n + 1 \in 1 .. (n + 1)
        OBVIOUS
      <3> QED
        BY <1>1, <2>1, <3>1
    <2>2. CASE i # j /\ \E k \in 1 .. n : at[k] = i
      <3>1. PICK k \in 1 .. n : at[k] = i
        BY <2>2
      <3>2. k \in 1 .. (n + 1)
        OBVIOUS
      <3> QED
        BY <1>1, <3>1, <3>2
    <2>3. CASE i # j /\ ~\E k \in 1 .. n : at[k] = i
      BY <2>3 DEF Stands
    <2> QED
      BY <2>1, <2>2, <2>3
  <1>9. Stands(senses, s, grown, n + 1, new, m, to)
    BY <1>0, <1>1, <1>3, <1>4, <1>5, <1>6, <1>7, <1>8, Zenon DEF Stands
  <1> QED
    BY <1>9

-----------------------------------------------------------------------------
(* One more compact row.                                                   *)

LEMMA StandsNext ==
    ASSUME NEW senses, NEW s \in Nat, NEW rows, NEW n \in Nat, NEW list, NEW m \in Nat, NEW at,
           Stands(senses, s, rows, n, list, m, at), NEW c, c.index = 0,
           NEW grown, Follows(grown, rows, n, c),
           NEW new \in Seq(RichSense), DOMAIN new = 1 .. (m + 1),
           \A i \in 1 .. m : new[i] = list[i], SameIdentity(c, new[m + 1]),
           Clean(grown[n + 1].relations, NoRelations),
           new[m + 1].relations = Extended(NoRelations, grown[n + 1].relations),
           \A i \in 1 .. m : ~Matches(list[i], new[m + 1])
    PROVE  \E to : Stands(senses, s, grown, n + 1, new, m + 1, to)
  <1> DEFINE to == [k \in 1 .. (n + 1) |-> IF k = n + 1 THEN m + 1 ELSE at[k]]
  <1>0. s <= m
    BY DEF Stands
  <1>1. to \in [1 .. (n + 1) -> 1 .. (m + 1)] /\ to[n + 1] = m + 1 /\ \A k \in 1 .. n : to[k] = at[k]
    <2>1. \A k \in 1 .. (n + 1) : k # n + 1 => k \in 1 .. n
      OBVIOUS
    <2>2. \A k \in 1 .. n : at[k] \in 1 .. (m + 1) /\ k \in 1 .. (n + 1) /\ k # n + 1
      <3>1. TAKE k \in 1 .. n
      <3>2. at[k] \in 1 .. m
        BY DEF Stands
      <3> QED
        BY <3>2
    <2>3. n + 1 \in 1 .. (n + 1) /\ m + 1 \in 1 .. (m + 1)
      OBVIOUS
    <2> QED
      BY <2>1, <2>2, <2>3
  <1> HIDE DEF to
  <1>2. Placed(senses, s, grown[n + 1], new, m + 1)
    <2>1. SameIdentity(grown[n + 1], new[m + 1]) /\ grown[n + 1].index = 0
      BY DEF Follows, SameIdentity
    <2>2. ~(m + 1 <= s)
      BY <1>0
    <2>3. Base(senses, s, m + 1) = NoRelations
      BY <2>2 DEF Base
    <2>4. \A i \in 1 .. (m + 1) - 1 : i \in 1 .. m
      OBVIOUS
    <2> QED
      BY <2>1, <2>2, <2>3, <2>4 DEF Placed
  <1>3. \A k \in 1 .. (n + 1) : Placed(senses, s, grown[k], new, to[k])
    <2>1. TAKE k \in 1 .. (n + 1)
    <2>2. CASE k = n + 1
      BY <1>1, <1>2, <2>2
    <2>3. CASE k # n + 1
      <3>1. k \in 1 .. n
        BY <2>3
      <3>2. /\ at[k] \in 1 .. m /\ Placed(senses, s, rows[k], list, at[k])
            /\ grown[k] = rows[k] /\ to[k] = at[k]
        BY <1>1, <3>1 DEF Stands, Follows
      <3>3. \A i \in 1 .. at[k] - 1 : i \in 1 .. m
        BY <3>2
      <3> QED
        BY <3>2, <3>3 DEF Placed
    <2> QED
      BY <2>2, <2>3
  <1>4. \A i \in 1 .. s : SameIdentity(new[i], senses[i])
    <2>1. \A i \in 1 .. s : i \in 1 .. m
      BY <1>0
    <2> QED
      BY <2>1 DEF Stands
  <1>5. m + 1 = Len(new) /\ s <= m + 1
    BY <1>0
  <1>6. grown \in Seq(Compact) /\ n + 1 = Len(grown)
    BY DEF Follows
  <1>7. ASSUME NEW k \in 1 .. (n + 1), NEW l \in 1 .. (n + 1), k < l
        PROVE  to[k] # to[l] /\ (to[k] <= s \/ to[l] <= s \/ to[k] < to[l])
    <2>1. k \in 1 .. n
      BY <1>7
    <2>2. CASE l = n + 1
      <3>1. at[k] \in 1 .. m
        BY <2>1 DEF Stands
      <3>2. to[l] = m + 1 /\ to[k] = at[k]
        BY <1>1, <2>1, <2>2
      <3> QED
        BY <3>1, <3>2
    <2>3. CASE l # n + 1
      <3>1. l \in 1 .. n
        BY <2>3
      <3>2. at[k] # at[l] /\ (at[k] <= s \/ at[l] <= s \/ at[k] < at[l])
        BY <1>7, <2>1, <3>1 DEF Stands
      <3> QED
        BY <1>1, <2>1, <3>1, <3>2
    <2> QED
      BY <2>2, <2>3
  <1>8. ASSUME NEW i \in 1 .. (m + 1)
        PROVE  \/ \E k \in 1 .. (n + 1) : to[k] = i
               \/ i <= s /\ new[i].relations = senses[i].relations
    <2>1. CASE i = m + 1
      <3>1. n + 1 \in 1 .. (n + 1)
        OBVIOUS
      <3> QED
        BY <1>1, <2>1, <3>1
    <2>2. CASE i # m + 1 /\ \E k \in 1 .. n : at[k] = i
      <3>1. PICK k \in 1 .. n : at[k] = i
        BY <2>2
      <3>2. k \in 1 .. (n + 1)
        OBVIOUS
      <3> QED
        BY <1>1, <3>1, <3>2
    <2>3. CASE i # m + 1 /\ ~\E k \in 1 .. n : at[k] = i
      <3>1. i \in 1 .. m
        BY <2>3
      <3> QED
        BY <2>3, <3>1 DEF Stands
    <2> QED
      BY <2>1, <2>2, <2>3
  <1>9. Stands(senses, s, grown, n + 1, new, m + 1, to)
    BY <1>1, <1>3, <1>4, <1>5, <1>6, <1>7, <1>8, Zenon DEF Stands
  <1> QED
    BY <1>9

\* Where a patch goes, an earlier sense would not have taken the identity of its
\* sense either.
LEMMA FirstOfIdentity ==
    ASSUME NEW senses, NEW s \in Nat, DOMAIN senses = 1 .. s, AsImported(senses),
           NEW p, NEW j \in 1 .. s, j = MatchOf(senses, p)
    PROVE  \A i \in 1 .. j - 1 : ~Matches(senses[i], senses[j])
  <1>1. Matches(senses[j], p) /\ \A i \in 1 .. s : Matches(senses[i], p) => j <= i
    BY MatchFacts
  <1>2. SUFFICES ASSUME NEW i \in 1 .. j - 1, Matches(senses[i], senses[j]) PROVE FALSE
    OBVIOUS
  <1>3. i \in 1 .. s /\ ~(j <= i)
    OBVIOUS
  <1>4. ~Matches(senses[i], p)
    BY <1>1, <1>3
  <1>5. senses[j].id = NoId /\ senses[i].gloss = senses[j].gloss => senses[i].id = NoId
    BY DEF AsImported
  <1> QED
    BY <1>1, <1>2, <1>4, <1>5 DEF Matches

\* A patch goes to the canonical sense it matches, if any, and else to no such one.
Meets(s, list, m, p, i, j) ==
    /\ i \in Nat /\ j \in Nat
    /\ i > 0 => j = i /\ j \in 1 .. s
    /\ i = 0 /\ j > 0 => s < j
    /\ j > 0 => /\ j \in 1 .. m /\ Matches(list[j], p)
                /\ \A x \in 1 .. m : Matches(list[x], p) => j <= x
    /\ j = 0 => \A x \in 1 .. m : ~Matches(list[x], p)

LEMMA StandsMatch ==
    ASSUME NEW senses \in Seq(RichSense), NEW s \in Nat, s = Len(senses), NEW rows, NEW n \in Nat,
           NEW list, NEW m \in Nat, NEW at, Stands(senses, s, rows, n, list, m, at), NEW p,
           NEW i, i = MatchOf(senses, p), NEW j, j = MatchOf(list, p)
    PROVE  Meets(s, list, m, p, i, j)
  <1>1. /\ DOMAIN senses = 1 .. s /\ DOMAIN list = 1 .. m /\ s <= m
        /\ \A x \in 1 .. s : SameIdentity(list[x], senses[x])
    BY DEF Stands
  <1>2. \/ i \in 1 .. s
        \/ i = 0 /\ \A x \in 1 .. s : ~Matches(senses[x], p)
    BY <1>1, MatchFacts
  <1>3. \/ /\ j \in 1 .. m /\ Matches(list[j], p)
           /\ \A x \in 1 .. m : Matches(list[x], p) => j <= x
        \/ j = 0 /\ \A x \in 1 .. m : ~Matches(list[x], p)
    BY <1>1, MatchFacts
  <1>4. i # 0 => j = i
    BY <1>1, MatchStays
  <1>5. i = 0 => \A x \in 1 .. s : ~Matches(list[x], p)
    BY <1>1, <1>2 DEF Matches, SameIdentity
  <1>6. ASSUME i = 0, j > 0 PROVE ~(j <= s)
    <2>1. SUFFICES ASSUME j <= s PROVE FALSE
      OBVIOUS
    <2>2. j \in 1 .. s
      BY <1>3, <1>6, <2>1
    <2> QED
      BY <1>3, <1>5, <1>6, <2>2
  <1>7. i = 0 /\ j > 0 => s < j
    BY <1>3, <1>6
  <1> QED
    BY <1>2, <1>3, <1>4, <1>7 DEF Meets

-----------------------------------------------------------------------------
(* Patches that relate, and the rows that say what each adds.              *)

Relates(p) == \E f \in RelationField : p.relations[f] # <<>>

\* A patch of the dump, taken in by the rows and by the senses.
Taken(senses, rows, p) ==
    LET c == CompactSense(senses, p)
    IN IF c.relations = NoRelations THEN rows ELSE MergeCompact(rows, c)

StandsAfter(senses, s, rows, list) == \E at : Stands(senses, s, rows, Len(rows), list, Len(list), at)

\* MergeSense where it finds the sense.
LEMMA MergedAtMatch ==
    ASSUME NEW list \in Seq(RichSense), NEW m, m = Len(list), NEW p, IsPatch(p),
           NEW new, new = MergeSense(list, p), NEW j, j \in 1 .. m, j = MatchOf(list, p)
    PROVE  /\ new \in Seq(RichSense) /\ DOMAIN new = 1 .. m
           /\ new[j] = Enriched(list[j], p)
           /\ \A i \in 1 .. m : i # j => new[i] = list[i]
           /\ \A i \in 1 .. m : SameIdentity(new[i], list[i])
  <1>1. /\ new \in Seq(RichSense)
        /\ j > 0 => /\ DOMAIN new = 1 .. m
                    /\ new[j] = Enriched(list[j], p)
                    /\ \A i \in 1 .. m : i # j => new[i] = list[i]
        /\ \A i \in 1 .. m : SameIdentity(new[i], list[i])
    BY MergeSenseFacts
  <1>2. j > 0
    <2>1. m \in Nat
      OBVIOUS
    <2> QED
      BY <2>1
  <1> QED
    BY <1>1, <1>2

\* To a canonical sense.
LEMMA StandsCanonical ==
    ASSUME NEW senses \in Seq(RichSense), NEW s \in Nat, s = Len(senses), AsImported(senses),
           NEW rows, NEW n \in Nat, NEW list, NEW m \in Nat, NEW at,
           Stands(senses, s, rows, n, list, m, at), NEW p \in Patch,
           NEW j \in 1 .. s, j = MatchOf(senses, p), j = MatchOf(list, p)
    PROVE  StandsAfter(senses, s, Taken(senses, rows, p), MergeSense(list, p))
  <1>1. PICK c : c = CompactSense(senses, p)
    OBVIOUS
  <1>2. PICK new : new = MergeSense(list, p)
    OBVIOUS
  <1>3. IsPatch(p) /\ p.relations \in Relation
    BY DEF IsPatch, Patch
  <1>4. /\ rows \in Seq(Compact) /\ n = Len(rows) /\ list \in Seq(RichSense) /\ m = Len(list) /\ s <= m
        /\ at \in [1 .. n -> 1 .. m] /\ j \in 1 .. m
        /\ \A i \in 1 .. s : SameIdentity(list[i], senses[i])
    BY DEF Stands
  <1>5. /\ c \in Compact /\ c.index = j /\ SameIdentity(c, senses[j])
        /\ c.relations = Lacks(senses[j].relations, p.relations)
    <2>1. PICK i : i = MatchOf(senses, p) /\ i = j
      OBVIOUS
    <2>2. Compacted(c, senses, p, i)
      BY <1>1, <2>1, CompactFacts
    <2> QED
      BY <2>1, <2>2 DEF Compacted
  <1>6. PICK base \in Relation : base = senses[j].relations /\ base = Base(senses, s, j)
    <2>1. senses[j] \in RichSense
      OBVIOUS
    <2> QED
      BY <2>1 DEF RichSense, Base
  <1>7. PICK lack : lack = Lacks(base, p.relations) /\ c.relations = lack
    BY <1>5, <1>6
  <1>8. /\ new \in Seq(RichSense) /\ DOMAIN new = 1 .. m
        /\ new[j] = Enriched(list[j], p)
        /\ \A i \in 1 .. m : i # j => new[i] = list[i]
        /\ \A i \in 1 .. m : SameIdentity(new[i], list[i])
    BY <1>2, <1>3, <1>4, MergedAtMatch
  <1>9. m = Len(new) /\ Alike(new, list, m)
    <2>1. m \in Nat
      BY <1>4
    <2>2. m = Len(new)
      BY <1>8, <2>1
    <2>3. Alike(new, list, m)
      BY <1>8 DEF Alike
    <2> QED
      BY <2>2, <2>3
  <1>10. new[j].relations = Extended(list[j].relations, p.relations)
    BY <1>8 DEF Enriched
  <1>11. SameIdentity(c, list[j])
    BY <1>4, <1>5 DEF SameIdentity
  <1>12. \A d : Clean(d, base) => /\ Extended(Extended(base, d), p.relations) = Extended(base, Extended(d, lack))
                                  /\ Clean(lack, base) /\ Clean(Extended(d, lack), base)
    BY <1>3, <1>7, ExtendInto
  <1>13. /\ Extended(base, NoRelations) = base /\ Clean(NoRelations, base)
         /\ \A d : Clean(d, base) => Extended(NoRelations, d) = d
    BY ExtendNothing
  <1>14. \A k \in 1 .. n : Placed(senses, s, rows[k], list, at[k])
    BY DEF Stands
  <1>15. \A k \in 1 .. n : at[k] = j <=> rows[k].index = j
    <2>1. TAKE k \in 1 .. n
    <2>2. rows[k].index = IF at[k] <= s THEN at[k] ELSE 0
      BY <1>14 DEF Placed
    <2>3. j > 0 /\ j <= s
      OBVIOUS
    <2> QED
      BY <2>2, <2>3
  <1>16. ASSUME NEW k \in 1 .. n, at[k] = j
         PROVE  /\ Clean(rows[k].relations, base) /\ list[j].relations = Extended(base, rows[k].relations)
                /\ new[j].relations = Extended(base, Extended(rows[k].relations, lack))
                /\ Clean(Extended(rows[k].relations, lack), base)
    <2>1. Clean(rows[k].relations, base) /\ list[j].relations = Extended(base, rows[k].relations)
      BY <1>6, <1>14, <1>16 DEF Placed
    <2> QED
      BY <1>10, <1>12, <2>1
  <1>17. ASSUME \A k \in 1 .. n : at[k] # j
         PROVE  list[j].relations = base /\ new[j].relations = Extended(base, lack) /\ Clean(lack, base)
    <2>1. list[j].relations = base
      BY <1>4, <1>6, <1>17 DEF Stands
    <2>2. Extended(Extended(base, NoRelations), p.relations)
            = Extended(base, Extended(NoRelations, lack)) /\ Clean(lack, base)
      BY <1>12, <1>13
    <2> QED
      BY <1>10, <1>13, <2>1, <2>2
  <1>18. CASE lack = NoRelations
    <2>1. \A r \in Relation : Extended(r, NoRelations) = r
      BY ExtendNothing
    <2>2. new[j].relations = list[j].relations
      <3>1. CASE \E k \in 1 .. n : at[k] = j
        <4>1. PICK k \in 1 .. n : at[k] = j
          BY <3>1
        <4>2. rows[k].relations \in Relation
          BY <1>16, <4>1 DEF Clean
        <4> QED
          BY <1>16, <1>18, <2>1, <4>1, <4>2
      <3>2. CASE \A k \in 1 .. n : at[k] # j
        BY <1>13, <1>17, <1>18, <3>2
      <3> QED
        BY <3>1, <3>2
    <2>3. Stands(senses, s, rows, n, new, m, at)
      <3>1. \A i \in 1 .. m : new[i].relations = list[i].relations
        BY <1>8, <2>2
      <3> QED
        BY <1>9, <3>1, StandsSame
    <2>4. Taken(senses, rows, p) = rows
      BY <1>1, <1>7, <1>18 DEF Taken
    <2> QED
      BY <1>2, <1>4, <1>9, <2>3, <2>4 DEF StandsAfter
  <1>19. CASE lack # NoRelations
    <2>1. PICK grown : grown = MergeCompact(rows, c) /\ Taken(senses, rows, p) = grown
      BY <1>1, <1>7, <1>19 DEF Taken
    <2>2. \A k \in 1 .. n : SameRow(rows[k], c) <=> at[k] = j
      <3>1. c.index > 0
        BY <1>5
      <3> QED
        BY <1>5, <1>15, <3>1 DEF SameRow
    <2>3. \/ \E k \in 1 .. n : SameRow(rows[k], c) /\ Joins1(grown, rows, n, k, c)
          \/ (\A k \in 1 .. n : ~SameRow(rows[k], c)) /\ Follows(grown, rows, n, c)
      BY <1>4, <1>5, <2>1, MergeCompactFacts
    <2>4. CASE \E k \in 1 .. n : SameRow(rows[k], c) /\ Joins1(grown, rows, n, k, c)
      <3>1. PICK k \in 1 .. n : at[k] = j /\ Joins1(grown, rows, n, k, c)
        BY <2>2, <2>4
      <3>2. grown[k].relations = Extended(rows[k].relations, lack) /\ n = Len(grown)
        BY <1>7, <3>1 DEF Joins1
      <3>3. Stands(senses, s, grown, n, new, m, at)
        <4>1. /\ Clean(grown[k].relations, Base(senses, s, at[k]))
              /\ new[at[k]].relations = Extended(Base(senses, s, at[k]), grown[k].relations)
          BY <1>6, <1>16, <3>1, <3>2
        <4>2. \A i \in 1 .. m : i # at[k] => new[i].relations = list[i].relations
          BY <1>8, <3>1
        <4> QED
          BY <1>9, <3>1, <4>1, <4>2, StandsMore
      <3> QED
        BY <1>2, <1>9, <2>1, <3>2, <3>3 DEF StandsAfter
    <2>5. CASE (\A k \in 1 .. n : ~SameRow(rows[k], c)) /\ Follows(grown, rows, n, c)
      <3>1. \A k \in 1 .. n : at[k] # j
        BY <2>2, <2>5
      <3>2. Clean(lack, base) /\ new[j].relations = Extended(base, lack)
        BY <1>17, <3>1
      <3>3. grown[n + 1].relations = lack /\ n + 1 = Len(grown)
        BY <1>7, <1>13, <2>5, <3>2 DEF Follows
      <3>4. \A i \in 1 .. j - 1 : ~Matches(list[i], list[j])
        <4>1. DOMAIN senses = 1 .. s
          OBVIOUS
        <4>2. \A i \in 1 .. j - 1 : ~Matches(senses[i], senses[j])
          BY <4>1, FirstOfIdentity
        <4>3. \A i \in 1 .. j - 1 : i \in 1 .. s
          OBVIOUS
        <4> QED
          BY <1>4, <4>2, <4>3 DEF Matches, SameIdentity
      <3>5. \E to : Stands(senses, s, grown, n + 1, new, m, to)
        <4>1. /\ Clean(grown[n + 1].relations, Base(senses, s, j))
              /\ new[j].relations = Extended(Base(senses, s, j), grown[n + 1].relations)
          BY <1>6, <3>2, <3>3
        <4>2. \A i \in 1 .. m : i # j => new[i].relations = list[i].relations
          BY <1>8
        <4> QED
          BY <1>5, <1>9, <1>11, <2>5, <3>1, <3>4, <4>1, <4>2, StandsFor
      <3> QED
        BY <1>2, <1>9, <2>1, <3>3, <3>5 DEF StandsAfter
    <2> QED
      BY <2>3, <2>4, <2>5
  <1> QED
    BY <1>18, <1>19

\* To a sense of the delta's own.
LEMMA StandsOwn ==
    ASSUME NEW senses \in Seq(RichSense), NEW s \in Nat, s = Len(senses),
           NEW rows, NEW n \in Nat, NEW list, NEW m \in Nat, NEW at,
           Stands(senses, s, rows, n, list, m, at), NEW p \in Patch, Relates(p),
           MatchOf(senses, p) = 0
    PROVE  StandsAfter(senses, s, Taken(senses, rows, p), MergeSense(list, p))
  <1>1. PICK c : c = CompactSense(senses, p)
    OBVIOUS
  <1>2. PICK new, j : new = MergeSense(list, p) /\ j = MatchOf(list, p)
    OBVIOUS
  <1>3. IsPatch(p) /\ p.relations \in Relation
    BY DEF IsPatch, Patch
  <1>4. /\ rows \in Seq(Compact) /\ n = Len(rows) /\ list \in Seq(RichSense) /\ m = Len(list) /\ s <= m
        /\ at \in [1 .. n -> 1 .. m]
        /\ \A k \in 1 .. n : Placed(senses, s, rows[k], list, at[k])
    BY DEF Stands
  <1>5. /\ c \in Compact /\ c.index = 0 /\ SameIdentity(c, p)
        /\ c.relations = Lacks(NoRelations, p.relations)
    <2>1. PICK i : i = MatchOf(senses, p) /\ i = 0
      OBVIOUS
    <2>2. Compacted(c, senses, p, i)
      BY <1>1, <2>1, CompactFacts
    <2> QED
      BY <2>1, <2>2 DEF Compacted
  <1>6. PICK lack : lack = Lacks(NoRelations, p.relations) /\ c.relations = lack
    BY <1>5
  <1>7. NoRelations \in Relation /\ Clean(NoRelations, NoRelations)
    <2>1. NoRelations \in Relation
      BY DEF NoRelations, Relation
    <2> QED
      BY <2>1, ExtendNothing
  <1>8. lack # NoRelations /\ lack = Extended(NoRelations, p.relations)
    BY <1>3, <1>6, LacksAll DEF Relates
  <1>9. \A d : Clean(d, NoRelations) =>
            /\ Extended(Extended(NoRelations, d), p.relations) = Extended(NoRelations, Extended(d, lack))
            /\ Clean(lack, NoRelations) /\ Clean(Extended(d, lack), NoRelations)
    BY <1>3, <1>6, <1>7, ExtendInto
  <1>10. Clean(lack, NoRelations) /\ Extended(NoRelations, lack) = lack
    BY <1>7, <1>9, ExtendNothing
  <1>11. PICK grown : grown = MergeCompact(rows, c) /\ Taken(senses, rows, p) = grown
    BY <1>1, <1>6, <1>8 DEF Taken
  <1>12. /\ j \in Nat /\ (j > 0 => ~(j <= s))
         /\ j > 0 => /\ j \in 1 .. m /\ Matches(list[j], p)
                     /\ \A x \in 1 .. m : Matches(list[x], p) => j <= x
         /\ j = 0 => \A x \in 1 .. m : ~Matches(list[x], p)
    <2>1. PICK i : i = MatchOf(senses, p) /\ i = 0
      OBVIOUS
    <2>2. Meets(s, list, m, p, i, j)
      BY <1>2, <2>1, StandsMatch
    <2> QED
      BY <2>1, <2>2 DEF Meets
  <1>13. \A k \in 1 .. n : SameRow(rows[k], c) <=> ~(at[k] <= s) /\ Matches(list[at[k]], p)
    <2>1. TAKE k \in 1 .. n
    <2>2. at[k] \in 1 .. m /\ Placed(senses, s, rows[k], list, at[k])
      BY <1>4
    <2>3. rows[k].index = 0 <=> ~(at[k] <= s)
      BY <2>2 DEF Placed
    <2>4. Matches(rows[k], c) <=> Matches(list[at[k]], p)
      BY <1>5, <2>2 DEF Placed, SameIdentity, Matches
    <2> QED
      BY <1>5, <2>3, <2>4 DEF SameRow
  <1>14. \/ \E k \in 1 .. n : /\ SameRow(rows[k], c) /\ \A l \in 1 .. k - 1 : ~SameRow(rows[l], c)
                              /\ Joins1(grown, rows, n, k, c)
         \/ (\A k \in 1 .. n : ~SameRow(rows[k], c)) /\ Follows(grown, rows, n, c)
    BY <1>4, <1>5, <1>11, MergeCompactFacts
  <1>15. CASE j > 0
    <2>1. /\ new \in Seq(RichSense) /\ DOMAIN new = 1 .. m
          /\ new[j] = Enriched(list[j], p)
          /\ \A i \in 1 .. m : i # j => new[i] = list[i]
          /\ \A i \in 1 .. m : SameIdentity(new[i], list[i])
      <3>1. j \in 1 .. m
        BY <1>12, <1>15
      <3> QED
        BY <1>2, <1>3, <1>4, <3>1, MergedAtMatch
    <2>2. m = Len(new) /\ Alike(new, list, m)
      BY <1>4, <2>1 DEF Alike
    <2>3. new[j].relations = Extended(list[j].relations, p.relations)
      BY <2>1 DEF Enriched
    <2>4. PICK o \in 1 .. n : at[o] = j
      BY <1>12, <1>15 DEF Stands
    <2>5. SameRow(rows[o], c)
      BY <1>12, <1>13, <1>15, <2>4
    <2>6. PICK k \in 1 .. n : /\ SameRow(rows[k], c) /\ \A l \in 1 .. k - 1 : ~SameRow(rows[l], c)
                              /\ Joins1(grown, rows, n, k, c)
      BY <1>14, <2>5
    <2>7. k = o
      <3>1. SUFFICES ASSUME k # o PROVE FALSE
        OBVIOUS
      <3>2. CASE o < k
        <4>1. o \in 1 .. k - 1
          BY <3>2
        <4> QED
          BY <2>5, <2>6, <4>1
      <3>3. CASE k < o
        <4>1. ~(at[k] <= s) /\ Matches(list[at[k]], p) /\ at[k] \in 1 .. m
          BY <1>4, <1>13, <2>6
        <4>2. j <= at[k] /\ ~(at[o] <= s)
          BY <1>12, <1>15, <2>4, <4>1
        <4>3. at[k] < at[o]
          BY <3>3, <4>1, <4>2 DEF Stands
        <4> QED
          BY <1>12, <1>15, <2>4, <4>1, <4>2, <4>3
      <3> QED
        BY <3>1, <3>2, <3>3
    <2>8. at[k] = j /\ Base(senses, s, j) = NoRelations
      BY <1>12, <1>15, <2>4, <2>7 DEF Base
    <2>9. Clean(rows[k].relations, NoRelations) /\ list[j].relations = Extended(NoRelations, rows[k].relations)
      BY <1>4, <2>8 DEF Placed
    <2>10. grown[k].relations = Extended(rows[k].relations, lack) /\ n = Len(grown)
      BY <1>6, <2>6 DEF Joins1
    <2>11. /\ Clean(grown[k].relations, Base(senses, s, at[k]))
           /\ new[at[k]].relations = Extended(Base(senses, s, at[k]), grown[k].relations)
      BY <1>9, <2>3, <2>8, <2>9, <2>10
    <2>12. \A i \in 1 .. m : i # at[k] => new[i].relations = list[i].relations
      BY <2>1, <2>8
    <2>13. Stands(senses, s, grown, n, new, m, at)
      BY <2>2, <2>6, <2>11, <2>12, StandsMore
    <2> QED
      BY <1>2, <1>11, <2>2, <2>10, <2>13 DEF StandsAfter
  <1>16. CASE j = 0
    <2>1. /\ new \in Seq(RichSense) /\ DOMAIN new = 1 .. (m + 1)
          /\ new[m + 1] = Enriched(NewSense(p), p)
          /\ \A i \in 1 .. m : new[i] = list[i]
      <3>1. /\ new \in Seq(RichSense)
            /\ j = 0 => /\ DOMAIN new = 1 .. (m + 1)
                        /\ new[m + 1] = Enriched(NewSense(p), p)
                        /\ \A i \in 1 .. m : new[i] = list[i]
        BY <1>2, <1>3, <1>4, MergeSenseFacts
      <3> QED
        BY <1>16, <3>1
    <2>2. /\ new[m + 1].relations = lack /\ SameIdentity(new[m + 1], p)
      BY <1>8, <2>1 DEF Enriched, NewSense, SameIdentity
    <2>3. \A k \in 1 .. n : ~SameRow(rows[k], c)
      BY <1>4, <1>12, <1>13, <1>16
    <2>4. Follows(grown, rows, n, c)
      BY <1>14, <2>3
    <2>5. grown[n + 1].relations = lack /\ n + 1 = Len(grown) /\ m + 1 = Len(new)
      <3>1. grown[n + 1].relations = lack
        BY <1>6, <1>10, <2>4 DEF Follows
      <3>2. n + 1 = Len(grown)
        BY <2>4 DEF Follows
      <3> QED
        BY <2>1, <3>1, <3>2
    <2>6. \A i \in 1 .. m : ~Matches(list[i], new[m + 1])
      BY <1>12, <1>16, <2>2 DEF Matches, SameIdentity
    <2>7. SameIdentity(c, new[m + 1])
      BY <1>5, <2>2 DEF SameIdentity
    <2>8. \E to : Stands(senses, s, grown, n + 1, new, m + 1, to)
      BY <1>5, <1>10, <2>1, <2>2, <2>4, <2>5, <2>6, <2>7, StandsNext
    <2> QED
      BY <1>2, <1>11, <2>5, <2>8 DEF StandsAfter
  <1> QED
    BY <1>12, <1>15, <1>16

LEMMA StandsTaken ==
    ASSUME NEW senses \in Seq(RichSense), NEW s \in Nat, s = Len(senses), AsImported(senses),
           NEW rows, NEW list, StandsAfter(senses, s, rows, list), NEW p \in Patch, Relates(p)
    PROVE  StandsAfter(senses, s, Taken(senses, rows, p), MergeSense(list, p))
  <1>1. PICK at : Stands(senses, s, rows, Len(rows), list, Len(list), at)
    BY DEF StandsAfter
  <1>2. PICK n \in Nat, m \in Nat : n = Len(rows) /\ m = Len(list)
    <2>1. rows \in Seq(Compact) /\ list \in Seq(RichSense)
      BY <1>1 DEF Stands
    <2> QED
      BY <2>1
  <1>3. Stands(senses, s, rows, n, list, m, at)
    BY <1>1, <1>2
  <1>4. PICK i, j : i = MatchOf(senses, p) /\ j = MatchOf(list, p)
    OBVIOUS
  <1>5. i \in Nat /\ (i > 0 => j = i /\ j \in 1 .. s)
    <2>1. Meets(s, list, m, p, i, j)
      BY <1>2, <1>3, <1>4, StandsMatch
    <2> QED
      BY <2>1 DEF Meets
  <1>6. CASE i = 0
    BY <1>3, <1>4, <1>6, StandsOwn
  <1>7. CASE i > 0
    BY <1>3, <1>4, <1>5, <1>7, StandsCanonical
  <1> QED
    BY <1>5, <1>6, <1>7

-----------------------------------------------------------------------------
(* The rows of one chunk, merged with those staged before.                 *)

MergeAll(rows, compacts) == FoldLeft(MergeCompact, rows, compacts)

LEMMA MergeAllLast ==
    ASSUME NEW base, NEW n \in Nat, NEW s, NEW longer, DOMAIN s = 1 .. n, DOMAIN longer = 1 .. (n + 1),
           \A i \in 1 .. n : longer[i] = s[i]
    PROVE  MergeAll(base, longer) = MergeCompact(MergeAll(base, s), longer[n + 1])
  <1>1. Compacts!FoldLeft(MergeCompact, base, longer) = FoldLeft(MergeCompact, base, longer)
    BY CompactsSame
  <1>2. Compacts!FoldLeft(MergeCompact, base, s) = FoldLeft(MergeCompact, base, s)
    BY CompactsSame
  <1>3. Compacts!FoldLeft(MergeCompact, base, longer)
            = MergeCompact(Compacts!FoldLeft(MergeCompact, base, s), longer[n + 1])
    BY Compacts!FoldLast, Zenon DEF Compacts!FoldLeft
  <1> QED
    BY <1>1, <1>2, <1>3, Zenon DEF MergeAll

LEMMA MergeSensesLast ==
    ASSUME NEW base, NEW n \in Nat, NEW s, NEW longer, DOMAIN s = 1 .. n, DOMAIN longer = 1 .. (n + 1),
           \A i \in 1 .. n : longer[i] = s[i]
    PROVE  MergeSenses(base, longer) = MergeSense(MergeSenses(base, s), longer[n + 1])
  <1>1. Joins!FoldLeft(MergeSense, base, longer) = FoldLeft(MergeSense, base, longer)
    BY JoinsSame
  <1>2. Joins!FoldLeft(MergeSense, base, s) = FoldLeft(MergeSense, base, s)
    BY JoinsSame
  <1>3. Joins!FoldLeft(MergeSense, base, longer)
            = MergeSense(Joins!FoldLeft(MergeSense, base, s), longer[n + 1])
    BY Joins!FoldLast, Zenon DEF Joins!FoldLeft
  <1> QED
    BY <1>1, <1>2, <1>3, Zenon DEF MergeSenses

LEMMA StandsNone ==
    ASSUME NEW senses \in Seq(RichSense), NEW s \in Nat, s = Len(senses)
    PROVE  StandsAfter(senses, s, <<>>, senses)
  <1>1. PICK at : at = [k \in 1 .. 0 |-> 0]
    OBVIOUS
  <1>2. at \in [1 .. 0 -> 1 .. s]
    BY <1>1
  <1>3. \A k \in 1 .. 0 : FALSE
    OBVIOUS
  <1>4. <<>> \in Seq(Compact) /\ Len(<<>>) = 0
    OBVIOUS
  <1>5. Stands(senses, s, <<>>, 0, senses, s, at)
    BY <1>2, <1>3, <1>4 DEF Stands, SameIdentity
  <1> QED
    BY <1>4, <1>5 DEF StandsAfter

\* A chunk: the values its patches add are joined to the rows as the patches
\* themselves would be to the senses.
LEMMA StandsChunk ==
    ASSUME NEW senses \in Seq(RichSense), NEW s \in Nat, s = Len(senses), AsImported(senses),
           NEW rows, NEW list, StandsAfter(senses, s, rows, list),
           NEW patches \in Seq(Patch), \A k \in DOMAIN patches : Relates(patches[k])
    PROVE  StandsAfter(senses, s, MergeAll(rows, CompactSenses(senses, patches)),
                       MergeSenses(list, patches))
  <1>1. PICK n \in Nat : n = Len(patches) /\ DOMAIN patches = 1 .. n /\ \A i \in 1 .. n : patches[i] \in Patch
    BY ElementOfSeq, LenProperties
  <1>2. PICK cs : cs = [i \in 1 .. n |-> CompactSense(senses, patches[i])]
    OBVIOUS
  <1>3. /\ DOMAIN cs = 1 .. n
        /\ \A i \in 1 .. n : cs[i] = CompactSense(senses, patches[i]) /\ cs[i] \in Compact
    BY <1>1, <1>2, CompactType
  <1> DEFINE T(i) == MergeSenses(list, SubSeq(patches, 1, i))
             A == [i \in 0 .. n |-> {a \in Seq(Compact) : StandsAfter(senses, s, MergeAll(rows, a), T(i))}]
  <1>4. <<>> \in A[0]
    <2>1. SubSeq(patches, 1, 0) = <<>>
      BY <1>1, SubSeqFacts
    <2>2. T(0) = list
      BY <2>1, Joins!FoldEmpty, JoinsSame DEF MergeSenses
    <2>3. MergeAll(rows, <<>>) = rows
      BY Compacts!FoldEmpty, CompactsSame DEF MergeAll
    <2>4. <<>> \in Seq(Compact) /\ 0 \in 0 .. n
      OBVIOUS
    <2> HIDE DEF T
    <2> QED
      BY <2>2, <2>3, <2>4
  <1>5. ASSUME NEW i \in 1 .. n, NEW a \in A[i - 1] PROVE AddChange(a, cs[i]) \in A[i]
    <2>1. PICK j \in 0 .. n : j = i - 1 /\ j + 1 = i /\ j \in Nat /\ j < n /\ i \in 0 .. n
      OBVIOUS
    <2>2. a \in Seq(Compact) /\ StandsAfter(senses, s, MergeAll(rows, a), T(j))
      <3> HIDE DEF T
      <3> QED
        BY <2>1
    <2>3. T(i) = MergeSense(T(j), patches[i])
      <3>1. /\ DOMAIN SubSeq(patches, 1, j) = 1 .. j
            /\ \A k \in 1 .. j : SubSeq(patches, 1, j)[k] = patches[k]
        BY <1>1, <2>1, SubSeqFacts
      <3>2. /\ DOMAIN SubSeq(patches, 1, i) = 1 .. (j + 1)
            /\ \A k \in 1 .. i : SubSeq(patches, 1, i)[k] = patches[k]
        <4>1. i \in Nat /\ i <= Len(patches)
          BY <1>1
        <4> QED
          BY <2>1, <4>1, SubSeqFacts
      <3>3. PICK p, q : p = SubSeq(patches, 1, j) /\ q = SubSeq(patches, 1, i)
        OBVIOUS
      <3>4. /\ DOMAIN p = 1 .. j /\ DOMAIN q = 1 .. (j + 1)
            /\ (\A k \in 1 .. j : q[k] = p[k]) /\ q[j + 1] = patches[i]
        <4>1. \A k \in 1 .. j : k \in 1 .. i
          BY <2>1
        <4>2. i \in 1 .. i
          OBVIOUS
        <4> QED
          BY <2>1, <3>1, <3>2, <3>3, <4>1, <4>2
      <3>5. MergeSenses(list, q) = MergeSense(MergeSenses(list, p), q[j + 1])
        BY <3>4, MergeSensesLast
      <3> QED
        BY <3>3, <3>4, <3>5
    <2>4. StandsAfter(senses, s, Taken(senses, MergeAll(rows, a), patches[i]), T(i))
      <3>1. PICK t : t = T(j)
        OBVIOUS
      <3>2. StandsAfter(senses, s, MergeAll(rows, a), t)
        BY <2>2, <3>1
      <3>3. patches[i] \in Patch /\ Relates(patches[i])
        BY <1>1
      <3>4. StandsAfter(senses, s, Taken(senses, MergeAll(rows, a), patches[i]), MergeSense(t, patches[i]))
        BY <3>2, <3>3, StandsTaken
      <3> HIDE DEF T
      <3> QED
        BY <2>3, <3>1, <3>4
    <2> HIDE DEF T
    <2>5. CASE cs[i].relations = NoRelations
      <3>1. AddChange(a, cs[i]) = a
        BY <2>5 DEF AddChange
      <3>2. Taken(senses, MergeAll(rows, a), patches[i]) = MergeAll(rows, a)
        BY <1>3, <2>5 DEF Taken
      <3> QED
        BY <2>1, <2>2, <2>4, <3>1, <3>2
    <2>6. CASE cs[i].relations # NoRelations
      <3>1. AddChange(a, cs[i]) = Append(a, cs[i])
        BY <2>6 DEF AddChange
      <3>2. Taken(senses, MergeAll(rows, a), patches[i]) = MergeCompact(MergeAll(rows, a), cs[i])
        BY <1>3, <2>6 DEF Taken
      <3>3. PICK c \in Compact : c = cs[i]
        BY <1>3
      <3>4a. PICK k \in Nat : k = Len(a) /\ DOMAIN a = 1 .. k
        BY <2>2
      <3>4. PICK longer : k = Len(a) /\ DOMAIN a = 1 .. k /\ longer = Append(a, c)
        BY <3>4a
      <3>5. /\ longer \in Seq(Compact) /\ longer[k + 1] = c /\ Len(longer) = k + 1
            /\ \A x \in 1 .. k : longer[x] = a[x]
        BY <2>2, <3>4, AppendFacts
      <3>6. DOMAIN longer = 1 .. (k + 1)
        BY <3>5
      <3>7. MergeAll(rows, longer) = MergeCompact(MergeAll(rows, a), longer[k + 1])
        <4>1. DOMAIN a = 1 .. k /\ DOMAIN longer = 1 .. (k + 1) /\ \A x \in 1 .. k : longer[x] = a[x]
          BY <3>4, <3>5, <3>6
        <4> HIDE DEF A, T
        <4> QED
          BY <4>1, MergeAllLast
      <3>8. StandsAfter(senses, s, MergeAll(rows, longer), T(i))
        BY <2>4, <3>2, <3>3, <3>5, <3>7
      <3> QED
        BY <2>1, <3>1, <3>3, <3>4, <3>5, <3>8
    <2> QED
      BY <2>5, <2>6
  <1>6. Changes!Advances(A, cs, n)
    <2> HIDE DEF A
    <2> QED
      BY <1>5 DEF Changes!Advances
  <1>7. FoldLeft(AddChange, <<>>, cs) \in A[n]
    <2> HIDE DEF A
    <2> QED
      BY <1>3, <1>4, <1>6, Changes!FoldAdvances, ChangesSame
  <1>8. CompactSenses(senses, patches) = FoldLeft(AddChange, <<>>, cs)
    BY <1>1, <1>2 DEF CompactSenses
  <1>9. SubSeq(patches, 1, n) = patches
    BY <1>1, SubSeqFacts
  <1>10. StandsAfter(senses, s, MergeAll(rows, CompactSenses(senses, patches)), T(n))
    <2> HIDE DEF T
    <2> QED
      BY <1>7, <1>8
  <1> QED
    BY <1>9, <1>10

LEMMA CompactSame ==
    ASSUME NEW c \in Compact, NEW d \in Compact, c.index = d.index, SameIdentity(c, d),
           c.relations = d.relations
    PROVE  c = d
  BY DEF Compact, SameIdentity

\* The rows are already merged.
LEMMA StandsMerged ==
    ASSUME NEW senses, NEW s \in Nat, NEW rows, NEW list, StandsAfter(senses, s, rows, list),
           senses \in Seq(RichSense), s = Len(senses)
    PROVE  rows \in Seq(Compact) /\ MergeAll(<<>>, rows) = rows
  <1>1. PICK at : Stands(senses, s, rows, Len(rows), list, Len(list), at)
    BY DEF StandsAfter
  <1>2. rows \in Seq(Compact) /\ list \in Seq(RichSense)
    BY <1>1 DEF Stands
  <1>3. PICK n \in Nat, m \in Nat : n = Len(rows) /\ m = Len(list) /\ DOMAIN rows = 1 .. n
    BY <1>2
  <1>4. Stands(senses, s, rows, n, list, m, at) /\ \A k \in 1 .. n : rows[k] \in Compact
    <2>1. \A k \in 1 .. n : rows[k] \in Compact
      BY <1>2, <1>3, ElementOfSeq
    <2> QED
      BY <1>1, <1>3, <2>1
  <1>5. ASSUME NEW k \in 1 .. n, NEW l \in 1 .. n, k < l PROVE ~SameRow(rows[k], rows[l])
    <2>1. /\ Placed(senses, s, rows[k], list, at[k]) /\ Placed(senses, s, rows[l], list, at[l])
          /\ at[k] \in 1 .. m /\ at[l] \in 1 .. m
          /\ at[k] # at[l] /\ (at[k] <= s \/ at[l] <= s \/ at[k] < at[l])
      BY <1>4, <1>5 DEF Stands
    <2>2. SUFFICES ASSUME SameRow(rows[k], rows[l]) PROVE FALSE
      OBVIOUS
    <2>3. rows[k].index = rows[l].index /\ (rows[l].index > 0 \/ Matches(rows[k], rows[l]))
      BY <2>2 DEF SameRow
    <2>4. /\ rows[k].index = IF at[k] <= s THEN at[k] ELSE 0
          /\ rows[l].index = IF at[l] <= s THEN at[l] ELSE 0
      BY <2>1 DEF Placed
    <2>5. ~(at[k] <= s) /\ ~(at[l] <= s) /\ rows[l].index = 0
      <3>1. PICK x \in 1 .. m, y \in 1 .. m : x = at[k] /\ y = at[l]
        BY <2>1
      <3>2. rows[k].index = rows[l].index /\ x # y
        BY <2>1, <2>3, <3>1
      <3>3. /\ rows[k].index = IF x <= s THEN x ELSE 0
            /\ rows[l].index = IF y <= s THEN y ELSE 0
        BY <2>4, <3>1
      <3>4. PICK r : r = rows[k].index /\ r = rows[l].index
        BY <3>2
      <3>5. r = (IF x <= s THEN x ELSE 0) /\ r = IF y <= s THEN y ELSE 0
        BY <3>3, <3>4
      <3>6. ~(x <= s) /\ ~(y <= s) /\ r = 0
        BY <3>2, <3>5
      <3> QED
        BY <3>1, <3>4, <3>6
    <2>6. Matches(rows[k], rows[l])
      BY <2>3, <2>5
    <2>7. at[k] \in 1 .. at[l] - 1
      BY <2>1, <2>5
    <2>8. ~Matches(list[at[k]], list[at[l]])
      BY <2>1, <2>7 DEF Placed
    <2> QED
      BY <2>1, <2>6, <2>8 DEF Placed, SameIdentity, Matches
  <1>6. ASSUME NEW k \in 1 .. n PROVE Extended(NoRelations, rows[k].relations) = rows[k].relations
    <2>1. PICK base : base = Base(senses, s, at[k]) /\ Clean(rows[k].relations, base)
      BY <1>4 DEF Stands, Placed
    <2>2. base \in Relation
      <3>1. at[k] \in 1 .. m
        BY <1>4 DEF Stands
      <3>2. at[k] <= s => senses[at[k]].relations \in Relation
        <4>1. ASSUME at[k] <= s PROVE senses[at[k]] \in RichSense
          BY <3>1, <4>1
        <4> QED
          BY <4>1 DEF RichSense
      <3>3. NoRelations \in Relation
        BY DEF NoRelations, Relation
      <3> QED
        BY <2>1, <3>2, <3>3 DEF Base
    <2> QED
      BY <2>1, <2>2, ExtendNothing
  <1> DEFINE A == [k \in 0 .. n |-> {SubSeq(rows, 1, k)}]
  <1>7. <<>> \in A[0]
    <2>1. SubSeq(rows, 1, 0) = <<>> /\ 0 \in 0 .. n
      BY <1>2, <1>3, SubSeqFacts
    <2> QED
      BY <2>1
  <1>8. ASSUME NEW i \in 1 .. n, NEW a \in A[i - 1] PROVE MergeCompact(a, rows[i]) \in A[i]
    <2>1. PICK j \in Nat : j = i - 1 /\ j + 1 = i /\ j \in 0 .. n /\ j < n /\ i \in 0 .. n /\ j <= n
      OBVIOUS
    <2>2. a = SubSeq(rows, 1, j)
      BY <2>1
    <2>3. /\ a \in Seq(Compact) /\ Len(a) = j /\ \A x \in 1 .. j : a[x] = rows[x]
      BY <1>2, <1>3, <2>1, <2>2, SubSeqFacts
    <2>4. PICK b \in Seq(Compact) : /\ b = SubSeq(rows, 1, i) /\ DOMAIN b = 1 .. (j + 1)
                                    /\ \A x \in 1 .. (j + 1) : b[x] = rows[x]
      <3>1. i \in Nat /\ i <= Len(rows)
        BY <1>3
      <3>2. /\ SubSeq(rows, 1, i) \in Seq(Compact) /\ DOMAIN SubSeq(rows, 1, i) = 1 .. i
            /\ \A x \in 1 .. i : SubSeq(rows, 1, i)[x] = rows[x]
        BY <1>2, <3>1, SubSeqFacts
      <3> QED
        BY <2>1, <3>2
    <2>5. PICK joined : joined = MergeCompact(a, rows[i])
      OBVIOUS
    <2>6. \A x \in 1 .. j : ~SameRow(a[x], rows[i])
      <3>1. TAKE x \in 1 .. j
      <3>2. x \in 1 .. n /\ x < i
        BY <2>1
      <3> QED
        BY <1>5, <2>3, <3>2
    <2>7. Follows(joined, a, j, rows[i])
      <3>1. rows[i] \in Compact
        BY <1>4
      <3>2. \/ \E x \in 1 .. j : SameRow(a[x], rows[i])
            \/ Follows(joined, a, j, rows[i])
        BY <2>1, <2>3, <2>5, <3>1, MergeCompactFacts
      <3> QED
        BY <2>6, <3>2
    <2>8. joined[j + 1] = rows[i]
      <3>1. joined \in Seq(Compact) /\ j + 1 \in DOMAIN joined
        BY <2>7 DEF Follows
      <3>2. joined[j + 1] \in Compact /\ rows[i] \in Compact
        BY <1>4, <3>1
      <3>3. /\ joined[j + 1].index = rows[i].index /\ SameIdentity(joined[j + 1], rows[i])
            /\ joined[j + 1].relations = rows[i].relations
        BY <1>6, <2>7 DEF Follows
      <3> QED
        BY <3>2, <3>3, CompactSame
    <2>9. joined = b
      <3>1. /\ joined \in Seq(Compact) /\ DOMAIN joined = 1 .. (j + 1)
            /\ \A x \in 1 .. j : joined[x] = a[x]
        BY <2>7 DEF Follows
      <3>2. \A x \in 1 .. (j + 1) : joined[x] = b[x]
        <4>1. TAKE x \in 1 .. (j + 1)
        <4>2. CASE x = j + 1
          BY <2>1, <2>4, <2>8, <4>2
        <4>3. CASE x # j + 1
          <5>1. x \in 1 .. j
            BY <4>3
          <5> QED
            BY <2>3, <2>4, <3>1, <5>1
        <4> QED
          BY <4>2, <4>3
      <3> QED
        BY <2>4, <3>1, <3>2, SameSequence
    <2> QED
      BY <2>1, <2>4, <2>5, <2>9
  <1>9. Compacts!Advances(A, rows, n)
    <2> HIDE DEF A
    <2> QED
      BY <1>8 DEF Compacts!Advances
  <1>10. FoldLeft(MergeCompact, <<>>, rows) \in A[n]
    <2> HIDE DEF A
    <2> QED
      BY <1>3, <1>7, <1>9, Compacts!FoldAdvances, CompactsSame
  <1>11. SubSeq(rows, 1, n) = rows
    BY <1>2, <1>3, SubSeqFacts
  <1> QED
    BY <1>2, <1>10, <1>11 DEF MergeAll

-----------------------------------------------------------------------------
(* Rows that stand for the same senses.                                    *)

LEMMA MergeAllConcat ==
    ASSUME NEW rows \in Seq(Compact), NEW more \in Seq(Compact), MergeAll(<<>>, rows) = rows
    PROVE  MergeAll(<<>>, rows \o more) = MergeAll(rows, more)
  <1>1. Compacts!FoldLeft(MergeCompact, <<>>, rows \o more)
            = Compacts!FoldLeft(MergeCompact, Compacts!FoldLeft(MergeCompact, <<>>, rows), more)
    BY Compacts!FoldConcat
  <1>2. Compacts!FoldLeft(MergeCompact, <<>>, rows) = rows
    BY CompactsSame DEF MergeAll
  <1>3. Compacts!FoldLeft(MergeCompact, <<>>, rows \o more) = MergeAll(<<>>, rows \o more)
    BY CompactsSame DEF MergeAll
  <1>4. Compacts!FoldLeft(MergeCompact, rows, more) = MergeAll(rows, more)
    BY CompactsSame DEF MergeAll
  <1> QED
    BY <1>1, <1>2, <1>3, <1>4, Zenon

\* The first rows joined to the canonical senses, with the senses they stand for.
Rowed(senses, s, k, list, m, at, x, l) ==
    /\ x \in Seq(RichSense) /\ l = Len(x) /\ l \in s .. m
    /\ \A j \in 1 .. l : SameIdentity(x[j], list[j])
    /\ \A i \in 1 .. k : at[i] <= l
    /\ \A j \in 1 .. l : \/ (\E i \in 1 .. k : at[i] = j) /\ x[j].relations = list[j].relations
                         \/ j <= s /\ x[j].relations = senses[j].relations
                              /\ \A i \in 1 .. k : at[i] # j

LEMMA RowedCanonical ==
    ASSUME NEW senses \in Seq(RichSense), NEW s \in Nat, s = Len(senses), NEW rows, NEW n \in Nat,
           NEW list, NEW m \in Nat, NEW at, Stands(senses, s, rows, n, list, m, at),
           NEW k \in Nat, k + 1 \in 1 .. n, NEW x, NEW l \in Nat, Rowed(senses, s, k, list, m, at, x, l),
           at[k + 1] <= s
    PROVE  Rowed(senses, s, k + 1, list, m, at, MergeSense(x, rows[k + 1]), l)
  <1>0. at[k + 1] \in 1 .. m /\ s <= l
    BY DEF Stands, Rowed
  <1>1. PICK j \in Nat : j = at[k + 1] /\ j \in 1 .. m /\ j <= s /\ j \in 1 .. s /\ j \in 1 .. l
    BY <1>0
  <1>2. PICK d \in Compact : d = rows[k + 1]
    <2>1. rows \in Seq(Compact) /\ n = Len(rows)
      BY DEF Stands
    <2> QED
      BY <2>1, ElementOfSeq
  <1>3. Placed(senses, s, d, list, j)
    BY <1>1, <1>2 DEF Stands
  <1>4. /\ SameIdentity(d, list[j]) /\ list[j].relations = Extended(senses[j].relations, d.relations)
        /\ \A i \in 1 .. j - 1 : ~Matches(list[i], list[j])
    BY <1>1, <1>3 DEF Placed, Base
  <1>5. x \in Seq(RichSense) /\ l = Len(x) /\ DOMAIN x = 1 .. l /\ \A i \in 1 .. l : SameIdentity(x[i], list[i])
    BY DEF Rowed
  <1>6. \A i \in 1 .. l : Matches(x[i], d) <=> Matches(list[i], list[j])
    BY <1>4, <1>5 DEF SameIdentity, Matches
  <1>7. Matches(list[j], list[j])
    BY DEF Matches
  <1>8. MatchOf(x, d) = j
    <2>1. Matches(x[j], d) /\ \A i \in 1 .. j - 1 : ~Matches(x[i], d)
      <3>1. \A i \in 1 .. j - 1 : i \in 1 .. l
        BY <1>1
      <3> QED
        BY <1>1, <1>4, <1>6, <1>7, <3>1
    <2>2. PICK f : f = MatchOf(x, d)
      OBVIOUS
    <2>3. \/ f \in 1 .. l /\ Matches(x[f], d) /\ \A i \in 1 .. l : Matches(x[i], d) => f <= i
          \/ f = 0 /\ \A i \in 1 .. l : ~Matches(x[i], d)
      BY <1>5, <2>2, MatchFacts
    <2>4. f \in 1 .. l /\ Matches(x[f], d) /\ f <= j
      BY <1>1, <2>1, <2>3
    <2>5. ~(f \in 1 .. j - 1)
      BY <2>1, <2>4
    <2> QED
      BY <1>1, <2>2, <2>4, <2>5
  <1>9. x[j].relations = senses[j].relations
    <2>1. \A i \in 1 .. k : at[i] # j
      <3>1. TAKE i \in 1 .. k
      <3>2. i \in 1 .. n /\ i < k + 1
        OBVIOUS
      <3> QED
        BY <1>1, <3>2 DEF Stands
    <2> QED
      BY <1>1, <2>1 DEF Rowed
  <1>10. PICK y : y = MergeSense(x, d)
    OBVIOUS
  <1>11. IsPatch(d)
    BY DEF Compact, IsPatch
  <1>12. /\ y \in Seq(RichSense) /\ DOMAIN y = 1 .. l /\ y[j] = Enriched(x[j], d)
         /\ \A i \in 1 .. l : i # j => y[i] = x[i]
         /\ \A i \in 1 .. l : SameIdentity(y[i], x[i])
    <2>1. j \in 1 .. l
      BY <1>1
    <2> QED
      BY <1>5, <1>8, <1>10, <1>11, <2>1, MergedAtMatch
  <1>13. y[j].relations = list[j].relations
    BY <1>4, <1>9, <1>12 DEF Enriched
  <1>14. \A i \in 1 .. l : SameIdentity(y[i], list[i])
    BY <1>5, <1>12 DEF SameIdentity
  <1>15. l = Len(y) /\ l \in s .. m
    <2>1. l = Len(y)
      BY <1>12
    <2> QED
      BY <2>1 DEF Rowed
  <1>16. \A i \in 1 .. (k + 1) : at[i] <= l
    <2>1. TAKE i \in 1 .. (k + 1)
    <2>2. i \in 1 .. k \/ i = k + 1
      OBVIOUS
    <2> QED
      BY <1>1, <2>2 DEF Rowed
  <1>17. ASSUME NEW i \in 1 .. l
         PROVE  \/ (\E h \in 1 .. (k + 1) : at[h] = i) /\ y[i].relations = list[i].relations
                \/ i <= s /\ y[i].relations = senses[i].relations /\ \A h \in 1 .. (k + 1) : at[h] # i
    <2>0. \A h \in 1 .. (k + 1) : h \in 1 .. k \/ h = k + 1
      OBVIOUS
    <2>1. CASE i = j
      BY <1>1, <1>13, <2>1
    <2>2. CASE i # j
      <3>1. y[i] = x[i]
        BY <1>12, <2>2
      <3>2. CASE (\E h \in 1 .. k : at[h] = i) /\ x[i].relations = list[i].relations
        <4>1. \A h \in 1 .. k : h \in 1 .. (k + 1)
          OBVIOUS
        <4> QED
          BY <3>1, <3>2, <4>1
      <3>3. CASE i <= s /\ x[i].relations = senses[i].relations /\ \A h \in 1 .. k : at[h] # i
        BY <1>1, <2>0, <2>2, <3>1, <3>3
      <3> QED
        BY <3>2, <3>3 DEF Rowed
    <2> QED
      BY <2>1, <2>2
  <1>18. Rowed(senses, s, k + 1, list, m, at, y, l)
    BY <1>12, <1>14, <1>15, <1>16, <1>17 DEF Rowed
  <1> QED
    BY <1>2, <1>10, <1>18

LEMMA RowedOwn ==
    ASSUME NEW senses \in Seq(RichSense), NEW s \in Nat, s = Len(senses), NEW rows, NEW n \in Nat,
           NEW list, NEW m \in Nat, NEW at, Stands(senses, s, rows, n, list, m, at),
           NEW k \in Nat, k + 1 \in 1 .. n, NEW x, NEW l \in Nat, Rowed(senses, s, k, list, m, at, x, l),
           ~(at[k + 1] <= s)
    PROVE  Rowed(senses, s, k + 1, list, m, at, MergeSense(x, rows[k + 1]), l + 1)
  <1>1. PICK j \in Nat : j = at[k + 1] /\ j \in 1 .. m /\ j > s
    BY DEF Stands
  <1>2. PICK d \in Compact : d = rows[k + 1]
    <2>1. rows \in Seq(Compact) /\ n = Len(rows)
      BY DEF Stands
    <2> QED
      BY <2>1, ElementOfSeq
  <1>3. Placed(senses, s, d, list, j)
    BY <1>1, <1>2 DEF Stands
  <1>4. /\ SameIdentity(d, list[j]) /\ list[j].relations = Extended(NoRelations, d.relations)
        /\ \A i \in 1 .. j - 1 : ~Matches(list[i], list[j])
    <2>1. Base(senses, s, j) = NoRelations
      BY <1>1 DEF Base
    <2> QED
      BY <1>3, <2>1 DEF Placed
  <1>5. /\ x \in Seq(RichSense) /\ l = Len(x) /\ DOMAIN x = 1 .. l /\ s <= l /\ l <= m
        /\ \A i \in 1 .. l : SameIdentity(x[i], list[i])
    BY DEF Rowed
  <1>6. \A i \in 1 .. k : i \in 1 .. n /\ at[i] # j /\ at[i] <= l
    <2>1. TAKE i \in 1 .. k
    <2>2. i \in 1 .. n /\ i < k + 1
      OBVIOUS
    <2> QED
      BY <1>1, <2>2 DEF Stands, Rowed
  <1>7. l < j
    <2>1. SUFFICES ASSUME j <= l PROVE FALSE
      BY <1>5
    <2>2. j \in 1 .. l /\ ~(j <= s)
      BY <1>1, <2>1
    <2> QED
      BY <1>6, <2>2 DEF Rowed
  <1>8. j = l + 1
    <2>1. SUFFICES ASSUME l + 1 < j PROVE FALSE
      BY <1>7
    <2>2. l + 1 \in 1 .. m /\ ~(l + 1 <= s)
      BY <1>1, <1>5, <2>1
    <2>3. PICK i \in 1 .. n : at[i] = l + 1
      BY <2>2 DEF Stands
    <2>4. i # k + 1 /\ ~(i \in 1 .. k)
      BY <1>1, <1>6, <2>1, <2>3
    <2>5. k + 1 < i
      BY <2>4
    <2>6. at[k + 1] <= s \/ at[i] <= s \/ at[k + 1] < at[i]
      BY <2>5 DEF Stands
    <2> QED
      BY <1>1, <2>1, <2>2, <2>3, <2>6
  <1>9. MatchOf(x, d) = 0
    <2>1. \A i \in 1 .. l : ~Matches(x[i], d)
      <3>1. TAKE i \in 1 .. l
      <3>2. i \in 1 .. j - 1
        BY <1>8
      <3>3. ~Matches(list[i], list[j]) /\ SameIdentity(x[i], list[i])
        BY <1>4, <1>5, <3>2
      <3> QED
        BY <1>4, <3>3 DEF SameIdentity, Matches
    <2> QED
      BY <1>5, <2>1, MatchFacts
  <1>10. PICK y : y = MergeSense(x, d)
    OBVIOUS
  <1>11. IsPatch(d)
    BY DEF Compact, IsPatch
  <1>12. /\ y \in Seq(RichSense) /\ DOMAIN y = 1 .. (l + 1) /\ y[l + 1] = Enriched(NewSense(d), d)
         /\ \A i \in 1 .. l : y[i] = x[i]
    BY <1>5, <1>9, <1>10, <1>11, MergeSenseFacts
  <1>13. y[j].relations = list[j].relations /\ SameIdentity(y[j], list[j])
    BY <1>4, <1>8, <1>12 DEF Enriched, NewSense, SameIdentity
  <1>0. \A i \in 1 .. (l + 1) : i = j \/ (i # j /\ i \in 1 .. l)
    BY <1>8
  <1>14. \A i \in 1 .. (l + 1) : SameIdentity(y[i], list[i])
    BY <1>0, <1>5, <1>12, <1>13
  <1>15. l + 1 = Len(y) /\ l + 1 \in s .. m
    <2>1. l + 1 = Len(y)
      BY <1>12
    <2> QED
      BY <1>1, <1>5, <1>8, <2>1
  <1>16. \A i \in 1 .. (k + 1) : at[i] <= l + 1
    <2>1. TAKE i \in 1 .. (k + 1)
    <2>2. CASE i = k + 1
      <3>1. at[i] = j
        BY <1>1, <2>2
      <3> QED
        BY <1>8, <3>1
    <2>3. CASE i # k + 1
      <3>1. i \in 1 .. k
        BY <2>3
      <3>2. at[i] \in 1 .. m /\ at[i] <= l
        BY <1>6, <3>1 DEF Stands
      <3> QED
        BY <3>2
    <2> QED
      BY <2>2, <2>3
  <1>17. ASSUME NEW i \in 1 .. (l + 1)
         PROVE  \/ (\E h \in 1 .. (k + 1) : at[h] = i) /\ y[i].relations = list[i].relations
                \/ i <= s /\ y[i].relations = senses[i].relations /\ \A h \in 1 .. (k + 1) : at[h] # i
    <2>0. \A h \in 1 .. (k + 1) : h \in 1 .. k \/ h = k + 1
      OBVIOUS
    <2>1. CASE i = j
      BY <1>1, <1>13, <2>1
    <2>2. CASE i # j
      <3>1. y[i] = x[i] /\ i \in 1 .. l
        BY <1>0, <1>12, <2>2
      <3>2. CASE (\E h \in 1 .. k : at[h] = i) /\ x[i].relations = list[i].relations
        <4>1. \A h \in 1 .. k : h \in 1 .. (k + 1)
          OBVIOUS
        <4> QED
          BY <3>1, <3>2, <4>1
      <3>3. CASE i <= s /\ x[i].relations = senses[i].relations /\ \A h \in 1 .. k : at[h] # i
        BY <1>1, <2>0, <2>2, <3>1, <3>3
      <3> QED
        BY <3>1, <3>2, <3>3 DEF Rowed
    <2> QED
      BY <2>1, <2>2
  <1>18. Rowed(senses, s, k + 1, list, m, at, y, l + 1)
    BY <1>12, <1>14, <1>15, <1>16, <1>17 DEF Rowed
  <1> QED
    BY <1>2, <1>10, <1>18

\* Joined to the canonical senses, the rows give what the senses relate to.
LEMMA StandsUnique ==
    ASSUME NEW senses \in Seq(RichSense), NEW s \in Nat, s = Len(senses), NEW rows, NEW list,
           StandsAfter(senses, s, rows, list)
    PROVE  Relations(MergeSenses(senses, rows)) = Relations(list)
  <1>1. PICK at : Stands(senses, s, rows, Len(rows), list, Len(list), at)
    BY DEF StandsAfter
  <1>2. rows \in Seq(Compact) /\ list \in Seq(RichSense) /\ s <= Len(list)
    BY <1>1 DEF Stands
  <1>3. PICK n \in Nat, m \in Nat : n = Len(rows) /\ m = Len(list) /\ DOMAIN rows = 1 .. n /\ DOMAIN list = 1 .. m
    BY <1>2
  <1>4. Stands(senses, s, rows, n, list, m, at)
    BY <1>1, <1>3
  <1> DEFINE A == [k \in 0 .. n |-> {x \in Seq(RichSense) :
                                        Rowed(senses, s, k, list, m, at, x, Len(x))}]
  <1>5. senses \in A[0]
    <2>1. \A j \in 1 .. s : SameIdentity(senses[j], list[j])
      BY <1>4 DEF Stands, SameIdentity
    <2>2. \A i \in 1 .. 0 : FALSE
      OBVIOUS
    <2>3. Len(senses) \in s .. m
      BY <1>2, <1>3
    <2>4. Rowed(senses, s, 0, list, m, at, senses, Len(senses))
      BY <2>1, <2>2, <2>3 DEF Rowed
    <2> QED
      BY <2>4
  <1>6. ASSUME NEW i \in 1 .. n, NEW x \in A[i - 1] PROVE MergeSense(x, rows[i]) \in A[i]
    <2>1. PICK k \in Nat : k = i - 1 /\ k + 1 = i /\ k \in 0 .. n /\ i \in 0 .. n /\ k + 1 \in 1 .. n
      OBVIOUS
    <2>2. x \in Seq(RichSense) /\ Rowed(senses, s, k, list, m, at, x, Len(x))
      BY <2>1
    <2>3. PICK l \in Nat : l = Len(x)
      BY <2>2
    <2>4. PICK y : y = MergeSense(x, rows[k + 1])
      OBVIOUS
    <2>5. \E o : Rowed(senses, s, k + 1, list, m, at, y, o)
      <3>1. Rowed(senses, s, k, list, m, at, x, l)
        BY <2>2, <2>3
      <3>2. CASE at[k + 1] <= s
        BY <1>4, <2>1, <2>4, <3>1, <3>2, RowedCanonical
      <3>3. CASE ~(at[k + 1] <= s)
        BY <1>4, <2>1, <2>4, <3>1, <3>3, RowedOwn
      <3> QED
        BY <3>2, <3>3
    <2>6. y \in Seq(RichSense) /\ Rowed(senses, s, k + 1, list, m, at, y, Len(y))
      BY <2>5 DEF Rowed
    <2> QED
      BY <2>1, <2>4, <2>6
  <1>7. Joins!Advances(A, rows, n)
    <2> HIDE DEF A
    <2> QED
      BY <1>6 DEF Joins!Advances
  <1>8. FoldLeft(MergeSense, senses, rows) \in A[n]
    <2> HIDE DEF A
    <2> QED
      BY <1>3, <1>5, <1>7, Joins!FoldAdvances, JoinsSame
  <1>9. PICK x : x = MergeSenses(senses, rows)
    OBVIOUS
  <1>10. x \in Seq(RichSense) /\ Rowed(senses, s, n, list, m, at, x, Len(x))
    BY <1>8, <1>9 DEF MergeSenses
  <1>11. PICK l \in Nat : l = Len(x) /\ DOMAIN x = 1 .. l
    BY <1>10
  <1>12. Rowed(senses, s, n, list, m, at, x, l)
    BY <1>10, <1>11
  <1>13. l = m
    <2>1. SUFFICES ASSUME l < m PROVE FALSE
      BY <1>12 DEF Rowed
    <2>2. m \in 1 .. m /\ s <= l /\ ~(m <= s)
      BY <1>12, <2>1 DEF Rowed
    <2>3. PICK i \in 1 .. n : at[i] = m
      BY <1>4, <2>2 DEF Stands
    <2>4. at[i] <= l
      BY <1>12, <2>3 DEF Rowed
    <2> QED
      BY <2>1, <2>3, <2>4
  <1>14. ASSUME NEW j \in 1 .. m PROVE [x[j] EXCEPT !.attributed = {}] = [list[j] EXCEPT !.attributed = {}]
    <2>1. x[j] \in RichSense /\ list[j] \in RichSense
      BY <1>2, <1>3, <1>10, <1>11, <1>13, ElementOfSeq
    <2>2. SameIdentity(x[j], list[j])
      BY <1>12, <1>13 DEF Rowed
    <2>3. x[j].relations = list[j].relations
      <3>1. CASE \E i \in 1 .. n : at[i] = j
        BY <1>12, <1>13, <3>1 DEF Rowed
      <3>2. CASE ~\E i \in 1 .. n : at[i] = j
        <4>1. x[j].relations = senses[j].relations
          BY <1>12, <1>13, <3>2 DEF Rowed
        <4>2. list[j].relations = senses[j].relations
          BY <1>4, <3>2 DEF Stands
        <4> QED
          BY <4>1, <4>2
      <3> QED
        BY <3>1, <3>2
    <2> QED
      BY <2>1, <2>2, <2>3 DEF RichSense, SameIdentity
  <1>15. Relations(x) = Relations(list)
    BY <1>3, <1>11, <1>13, <1>14 DEF Relations
  <1> QED
    BY <1>9, <1>15

-----------------------------------------------------------------------------
(* The words that are taken.                                               *)

\* What TakeAddition admits is told by the words added and the room: a word once
\* turned away stays so, and what it has seen need not be remembered.
Accumulator == [words : Seq(Lexeme), entries : Seq(RichEntry), added : Seq(Lexeme), room : Nat,
                seen : SUBSET Lexeme]
Barred(a, w) ==
    \/ w \notin Usable(a.entries) /\ w \in Named(a.entries)
    \/ Len(a.added) >= RoomLeft(a.words)
    \/ w \notin Usable(a.entries) /\ a.room = 0
Admits(a, w) == w \notin ToSet(a.words) /\ w \notin ToSet(a.added) /\ ~Barred(a, w)

Inner(a) == ToSet(a.added) \cap Usable(a.entries)
Outer(a) == ToSet(a.added) \ Usable(a.entries)
Counted(a) ==
    /\ IsFiniteSet(Inner(a)) /\ IsFiniteSet(Outer(a))
    /\ Cardinality(Inner(a)) + Cardinality(Outer(a)) = Len(a.added)
    /\ Cardinality(Outer(a)) + a.room = RoomLeft(a.entries)

Sound(a) ==
    /\ a \in Accumulator /\ Counted(a) /\ NoTwice(a.added) /\ Len(a.added) <= RoomLeft(a.words)
    /\ \A w \in ToSet(a.added) : /\ w \notin ToSet(a.words)
                                 /\ w \in Usable(a.entries) \/ w \notin Named(a.entries)
    /\ \A w \in a.seen : ~Admits(a, w)

SameAdded(a, b) == a.words = b.words /\ a.entries = b.entries /\ a.added = b.added /\ a.room = b.room

Took(a, w, b) ==
    /\ Sound(b) /\ b.words = a.words /\ b.entries = a.entries /\ ~Admits(b, w)
    /\ \A v : ~Admits(a, v) => ~Admits(b, v)
    /\ Admits(a, w) => /\ b.added = Append(a.added, w)
                       /\ b.room = IF w \in Usable(a.entries) THEN a.room ELSE a.room - 1
    /\ ~Admits(a, w) => SameAdded(a, b)

LEMMA SameAdmits ==
    ASSUME NEW a, NEW b, SameAdded(a, b)
    PROVE  \A w : Admits(a, w) <=> Admits(b, w)
  BY DEF SameAdded, Admits, Barred

LEMMA AdmittedSound ==
    ASSUME NEW a, Sound(a), NEW w \in Lexeme, Admits(a, w), NEW room,
           room = IF w \in Usable(a.entries) THEN a.room ELSE a.room - 1,
           NEW b, b = [a EXCEPT !.added = Append(a.added, w), !.room = room, !.seen = a.seen \cup {w}]
    PROVE  Took(a, w, b)
  <1>1. a \in Accumulator
    BY DEF Sound
  <1>2. /\ a.words \in Seq(Lexeme) /\ a.entries \in Seq(RichEntry) /\ a.added \in Seq(Lexeme)
        /\ a.room \in Nat /\ a.seen \in SUBSET Lexeme
    BY <1>1 DEF Accumulator
  <1>3. PICK more : more = Append(a.added, w)
    OBVIOUS
  <1>4. PICK n \in Nat : n = Len(a.added)
    BY <1>2
  <1>5. /\ more \in Seq(Lexeme) /\ Len(more) = n + 1 /\ ToSet(more) = ToSet(a.added) \cup {w}
        /\ (\A i \in 1 .. n : more[i] = a.added[i]) /\ more[n + 1] = w
    BY <1>2, <1>3, <1>4, AppendFacts
  <1>6. /\ w \notin ToSet(a.words) /\ w \notin ToSet(a.added) /\ n < RoomLeft(a.words)
        /\ w \in Usable(a.entries) \/ (w \notin Named(a.entries) /\ a.room # 0)
    <2>1. RoomLeft(a.words) \in Nat
      BY <1>2, DeltaConstants DEF RoomLeft, Larger
    <2> QED
      BY <1>4, <2>1 DEF Admits, Barred
  <1>7. room \in Nat
    BY <1>2, <1>6
  <1>8. /\ b.words = a.words /\ b.entries = a.entries /\ b.added = more /\ b.room = room
        /\ b.seen = a.seen \cup {w} /\ b \in Accumulator
    <2>1. a.seen \cup {w} \in SUBSET Lexeme
      BY <1>2
    <2> QED
      BY <1>1, <1>3, <1>5, <1>7, <2>1 DEF Accumulator
  <1>9. Counted(b)
    <2>1. PICK inner, outer : inner = Inner(a) /\ outer = Outer(a)
      OBVIOUS
    <2>2. /\ IsFiniteSet(inner) /\ IsFiniteSet(outer)
          /\ Cardinality(inner) + Cardinality(outer) = n
          /\ Cardinality(outer) + a.room = RoomLeft(a.entries)
          /\ Cardinality(inner) \in Nat /\ Cardinality(outer) \in Nat
      BY <1>4, <2>1, FS_CardinalityType DEF Sound, Counted
    <2>3. w \notin inner /\ w \notin outer
      BY <1>6, <2>1 DEF Inner, Outer
    <2>4. CASE w \in Usable(a.entries)
      <3>1. Inner(b) = inner \cup {w} /\ Outer(b) = outer
        BY <1>5, <1>8, <2>1, <2>4 DEF Inner, Outer
      <3>2. IsFiniteSet(inner \cup {w}) /\ Cardinality(inner \cup {w}) = Cardinality(inner) + 1
        BY <2>2, <2>3, FS_AddElement
      <3>3. b.room = a.room
        BY <1>8, <2>4
      <3>4. PICK x \in Nat, y \in Nat : x = Cardinality(inner) /\ y = Cardinality(outer) /\ x + y = n
        BY <2>2
      <3>5. Cardinality(Inner(b)) = x + 1 /\ Cardinality(Outer(b)) = y /\ Len(b.added) = n + 1
        BY <1>5, <1>8, <3>1, <3>2, <3>4
      <3>6. Cardinality(Inner(b)) + Cardinality(Outer(b)) = Len(b.added)
        BY <3>4, <3>5
      <3> QED
        BY <1>8, <2>2, <3>1, <3>2, <3>3, <3>6 DEF Counted
    <2>5. CASE w \notin Usable(a.entries)
      <3>1. Inner(b) = inner /\ Outer(b) = outer \cup {w}
        BY <1>5, <1>8, <2>1, <2>5 DEF Inner, Outer
      <3>2. IsFiniteSet(outer \cup {w}) /\ Cardinality(outer \cup {w}) = Cardinality(outer) + 1
        BY <2>2, <2>3, FS_AddElement
      <3>3. PICK k \in Nat : k = a.room /\ b.room = k - 1
        BY <1>2, <1>8, <2>5
      <3>5. PICK x \in Nat, y \in Nat : x = Cardinality(inner) /\ y = Cardinality(outer) /\ x + y = n
        BY <2>2
      <3>6. Cardinality(Inner(b)) = x /\ Cardinality(Outer(b)) = y + 1 /\ Len(b.added) = n + 1
        BY <1>5, <1>8, <3>1, <3>2, <3>5
      <3>4. /\ Cardinality(Inner(b)) + Cardinality(Outer(b)) = Len(b.added)
            /\ Cardinality(Outer(b)) + b.room = Cardinality(outer) + a.room
        BY <3>3, <3>5, <3>6
      <3> QED
        BY <1>8, <2>2, <3>1, <3>2, <3>4 DEF Counted
    <2> QED
      BY <2>4, <2>5
  <1>10. NoTwice(more)
    <2>1. SUFFICES ASSUME NEW i \in 1 .. (n + 1), NEW j \in 1 .. (n + 1), more[i] = more[j], i < j PROVE FALSE
      BY <1>5 DEF NoTwice
    <2>2. i \in 1 .. n
      BY <2>1
    <2>3. more[i] = a.added[i] /\ a.added[i] \in ToSet(a.added)
      BY <1>2, <1>4, <1>5, <2>2, MemberOf
    <2>4. j \in 1 .. n
      <3>1. j # n + 1
        BY <1>5, <1>6, <2>1, <2>3
      <3> QED
        BY <3>1
    <2>5. more[j] = a.added[j] /\ i \in DOMAIN a.added /\ j \in DOMAIN a.added
      BY <1>2, <1>4, <1>5, <2>2, <2>4
    <2> QED
      <3>1. NoTwice(a.added)
        BY DEF Sound
      <3>2. a.added[i] = a.added[j]
        BY <2>1, <2>3, <2>5, Zenon
      <3>3. i # j
        BY <2>1
      <3> QED
        BY <2>5, <3>1, <3>2, <3>3, Zenon DEF NoTwice
  <1>11. \A v : ~Admits(a, v) => ~Admits(b, v)
    <2>1. ASSUME NEW v, Barred(a, v) PROVE Barred(b, v)
      <3>1. Len(a.added) >= RoomLeft(a.words) => Len(b.added) >= RoomLeft(b.words)
        <4>1. PICK r \in Nat : r = RoomLeft(a.words) /\ r = RoomLeft(b.words)
          BY <1>2, <1>8, DeltaConstants DEF RoomLeft, Larger
        <4> QED
          BY <1>4, <1>5, <1>8, <4>1
      <3>2. v \notin Usable(a.entries) /\ a.room = 0 => b.room = 0
        BY <1>6, <1>8
      <3> QED
        BY <1>8, <2>1, <3>1, <3>2 DEF Barred
    <2> QED
      BY <1>5, <1>8, <2>1 DEF Admits
  <1>12. ~Admits(b, w)
    BY <1>5, <1>8 DEF Admits
  <1>13. Sound(b)
    <2>1. \A v \in b.seen : ~Admits(b, v)
      BY <1>8, <1>11, <1>12 DEF Sound
    <2>2. \A v \in ToSet(b.added) : /\ v \notin ToSet(b.words)
                                    /\ v \in Usable(b.entries) \/ v \notin Named(b.entries)
      BY <1>5, <1>6, <1>8 DEF Sound
    <2>3. Len(b.added) <= RoomLeft(b.words)
      <3>1. RoomLeft(a.words) \in Nat
        BY <1>2, DeltaConstants DEF RoomLeft, Larger
      <3> QED
        BY <1>5, <1>6, <1>8, <3>1
    <2> QED
      BY <1>8, <1>9, <1>10, <2>1, <2>2, <2>3 DEF Sound
  <1> QED
    BY <1>3, <1>8, <1>11, <1>12, <1>13 DEF Took

LEMMA TurnedAwaySound ==
    ASSUME NEW a, Sound(a), NEW w \in Lexeme, ~Admits(a, w),
           NEW b, b = a \/ b = [a EXCEPT !.seen = a.seen \cup {w}]
    PROVE  Took(a, w, b)
  <1>1. a \in Accumulator
    BY DEF Sound
  <1>2. SameAdded(a, b) /\ b \in Accumulator /\ b.seen \subseteq a.seen \cup {w}
    BY <1>1 DEF Accumulator, SameAdded
  <1>3. \A v : Admits(a, v) <=> Admits(b, v)
    BY <1>2, SameAdmits
  <1>4. Counted(b)
    BY <1>2 DEF Sound, Counted, Inner, Outer, SameAdded
  <1>5. Sound(b)
    BY <1>2, <1>3, <1>4 DEF Sound, SameAdded
  <1> QED
    BY <1>2, <1>3, <1>5 DEF Took, SameAdded

LEMMA TakeStep ==
    ASSUME NEW a, Sound(a), NEW w \in Lexeme PROVE Took(a, w, TakeAddition(a, w))
  <1>1. PICK b : b = TakeAddition(a, w)
    OBVIOUS
  <1> DEFINE needsEntry == w \notin Usable(a.entries) \cup ToSet(a.added)
             refused == \/ needsEntry /\ w \in Named(a.entries)
                        \/ Len(a.added) >= RoomLeft(a.words)
                        \/ needsEntry /\ a.room = 0
  <1>2. a \in Accumulator
    BY DEF Sound
  <1>3. b = IF w \in ToSet(a.words) \cup ToSet(a.added) \/ w \in a.seen THEN a
            ELSE [a EXCEPT !.added = IF refused THEN @ ELSE Append(@, w),
                           !.room = IF needsEntry /\ ~refused THEN @ - 1 ELSE @,
                           !.seen = @ \cup {w}]
    BY <1>1 DEF TakeAddition
  <1>4. CASE w \in ToSet(a.words) \cup ToSet(a.added) \/ w \in a.seen
    <2>1. ~Admits(a, w)
      BY <1>4 DEF Admits, Sound
    <2>2. b = a
      BY <1>3, <1>4
    <2>3. Took(a, w, b)
      BY <2>1, <2>2, TurnedAwaySound
    <2> QED
      BY <1>1, <2>3
  <1>5. CASE ~(w \in ToSet(a.words) \cup ToSet(a.added) \/ w \in a.seen)
    <2>1. needsEntry <=> w \notin Usable(a.entries)
      BY <1>5
    <2>2. refused <=> Barred(a, w)
      BY <2>1 DEF Barred
    <2>3. Admits(a, w) <=> ~refused
      BY <1>5, <2>2 DEF Admits
    <2>4. b = [a EXCEPT !.added = IF refused THEN @ ELSE Append(@, w),
                        !.room = IF needsEntry /\ ~refused THEN @ - 1 ELSE @,
                        !.seen = @ \cup {w}]
      BY <1>3, <1>5
    <2> HIDE DEF needsEntry, refused
    <2>5. CASE refused
      <3>1. b = [a EXCEPT !.seen = a.seen \cup {w}]
        BY <1>2, <2>4, <2>5 DEF Accumulator
      <3>2. Took(a, w, b)
        BY <2>3, <2>5, <3>1, TurnedAwaySound
      <3> QED
        BY <1>1, <3>2
    <2>6. CASE ~refused
      <3>1. PICK room : room = IF w \in Usable(a.entries) THEN a.room ELSE a.room - 1
        OBVIOUS
      <3>2. b = [a EXCEPT !.added = Append(a.added, w), !.room = room, !.seen = a.seen \cup {w}]
        BY <1>2, <2>1, <2>4, <2>6, <3>1 DEF Accumulator
      <3>3. Took(a, w, b)
        BY <2>3, <2>6, <3>1, <3>2, AdmittedSound
      <3> QED
        BY <1>1, <3>3
    <2> QED
      BY <2>5, <2>6
  <1> QED
    BY <1>4, <1>5

\* If all that one accumulator holds is settled in another, so is all it turns away.
LEMMA SettledClosed ==
    ASSUME NEW c, Sound(c), NEW b, Sound(b), b.words = c.words, b.entries = c.entries,
           \A v \in ToSet(c.added) : ~Admits(b, v), NEW w, ~Admits(c, w)
    PROVE  ~Admits(b, w)
  <1> SUFFICES ASSUME Admits(b, w) PROVE FALSE
    OBVIOUS
  <1>1. PICK r, q : r = RoomLeft(c.words) /\ q = RoomLeft(c.entries)
    OBVIOUS
  <1>2. /\ c.added \in Seq(Lexeme) /\ b.added \in Seq(Lexeme) /\ c.room \in Nat /\ b.room \in Nat
        /\ c.words \in Seq(Lexeme) /\ c.entries \in Seq(RichEntry)
    BY DEF Sound, Accumulator
  <1>3. r \in Nat /\ q \in Nat
    BY <1>1, <1>2, DeltaConstants DEF RoomLeft, Larger
  <1>4. /\ w \notin ToSet(b.words) /\ w \notin ToSet(b.added) /\ ~(Len(b.added) >= r)
        /\ w \in Usable(b.entries) \/ (w \notin Named(b.entries) /\ b.room # 0)
    BY <1>1 DEF Admits, Barred
  <1>5. w \notin ToSet(c.added)
    OBVIOUS
  <1>6. \/ Len(c.added) >= r
        \/ w \notin Usable(c.entries) /\ c.room = 0
    BY <1>1, <1>4, <1>5 DEF Admits, Barred
  <1>7. \A v \in ToSet(c.added) : v \in ToSet(b.added) \/ (v \notin Usable(b.entries) /\ b.room = 0)
    <2>1. TAKE v \in ToSet(c.added)
    <2>2. /\ ~Admits(b, v) /\ v \notin ToSet(b.words)
          /\ v \in Usable(b.entries) \/ v \notin Named(b.entries)
      BY DEF Sound
    <2> QED
      BY <1>1, <1>4, <2>2 DEF Admits, Barred
  <1>8. PICK ci, co, bi, bo : ci = Inner(c) /\ co = Outer(c) /\ bi = Inner(b) /\ bo = Outer(b)
    OBVIOUS
  <1>9. /\ IsFiniteSet(ci) /\ IsFiniteSet(co) /\ IsFiniteSet(bi) /\ IsFiniteSet(bo)
        /\ Cardinality(ci) + Cardinality(co) = Len(c.added) /\ Cardinality(co) + c.room = q
        /\ Cardinality(bi) + Cardinality(bo) = Len(b.added) /\ Cardinality(bo) + b.room = q
    BY <1>1, <1>8 DEF Sound, Counted
  <1>10. /\ Cardinality(ci) \in Nat /\ Cardinality(co) \in Nat
         /\ Cardinality(bi) \in Nat /\ Cardinality(bo) \in Nat
    BY <1>9, FS_CardinalityType
  <1>11. Cardinality(ci) <= Cardinality(bi)
    <2>1. ci \in SUBSET bi
      BY <1>7, <1>8 DEF Inner
    <2> QED
      BY <1>9, <2>1, FS_Subset
  <1>12. b.room = 0 \/ Cardinality(co) <= Cardinality(bo)
    <2>1. b.room # 0 => co \in SUBSET bo
      BY <1>7, <1>8 DEF Outer
    <2> QED
      BY <1>9, <2>1, FS_Subset
  <1>13. Cardinality(co) <= Cardinality(bo)
    BY <1>2, <1>3, <1>9, <1>10, <1>12
  <1>14. Len(c.added) \in Nat /\ Len(b.added) \in Nat
    BY <1>2
  <1>15. ~(Len(c.added) >= r)
    BY <1>3, <1>4, <1>9, <1>10, <1>11, <1>13, <1>14
  <1>16. w \notin Usable(c.entries) /\ c.room = 0 /\ b.room # 0
    BY <1>4, <1>6, <1>15
  <1> QED
    BY <1>2, <1>3, <1>9, <1>10, <1>13, <1>16

-----------------------------------------------------------------------------
(* Words that are taken again from those taken.                            *)

AddStart(words, entries) ==
    [words |-> words, entries |-> entries, added |-> <<>>, room |-> RoomLeft(entries), seen |-> {}]
AddAll(acc, list) == FoldLeft(TakeAddition, acc, list)

LEMMA PairedIs ==
    ASSUME NEW words, NEW entries, NEW list
    PROVE  PairedDelta(words, entries, list) = AddAll(AddStart(words, entries), list).added
  BY DEF PairedDelta, AddAll, AddStart

LEMMA AddAllLast ==
    ASSUME NEW base, NEW n \in Nat, NEW s, NEW longer, DOMAIN s = 1 .. n, DOMAIN longer = 1 .. (n + 1),
           \A i \in 1 .. n : longer[i] = s[i]
    PROVE  AddAll(base, longer) = TakeAddition(AddAll(base, s), longer[n + 1])
  <1>1. Additions!FoldLeft(TakeAddition, base, longer) = FoldLeft(TakeAddition, base, longer)
    BY AdditionsSame
  <1>2. Additions!FoldLeft(TakeAddition, base, s) = FoldLeft(TakeAddition, base, s)
    BY AdditionsSame
  <1>3. Additions!FoldLeft(TakeAddition, base, longer)
            = TakeAddition(Additions!FoldLeft(TakeAddition, base, s), longer[n + 1])
    BY Additions!FoldLast, Zenon DEF Additions!FoldLeft
  <1> QED
    BY <1>1, <1>2, <1>3, Zenon DEF AddAll

LEMMA AddAllOne ==
    ASSUME NEW base, NEW list \in Seq(Lexeme), NEW w \in Lexeme
    PROVE  AddAll(base, Append(list, w)) = TakeAddition(AddAll(base, list), w)
  <1>1. PICK k \in Nat : k = Len(list) /\ DOMAIN list = 1 .. k
    OBVIOUS
  <1>2. PICK longer : longer = Append(list, w)
    OBVIOUS
  <1>3. /\ longer \in Seq(Lexeme) /\ longer[k + 1] = w /\ Len(longer) = k + 1
        /\ \A x \in 1 .. k : longer[x] = list[x]
    BY <1>1, <1>2, AppendFacts
  <1>4. DOMAIN list = 1 .. k /\ DOMAIN longer = 1 .. (k + 1) /\ \A x \in 1 .. k : longer[x] = list[x]
    BY <1>1, <1>3
  <1>5. AddAll(base, longer) = TakeAddition(AddAll(base, list), longer[k + 1])
    BY <1>4, AddAllLast
  <1> QED
    BY <1>2, <1>3, <1>5

LEMMA AddAllConcat ==
    ASSUME NEW base, NEW list \in Seq(Lexeme), NEW more \in Seq(Lexeme)
    PROVE  AddAll(base, list \o more) = AddAll(AddAll(base, list), more)
  <1>1. Additions!FoldLeft(TakeAddition, base, list \o more)
            = Additions!FoldLeft(TakeAddition, Additions!FoldLeft(TakeAddition, base, list), more)
    BY Additions!FoldConcat
  <1>2. \A acc, seq : Additions!FoldLeft(TakeAddition, acc, seq) = AddAll(acc, seq)
    BY AdditionsSame DEF AddAll
  <1> QED
    BY <1>1, <1>2, Zenon

LEMMA AddAllNone == ASSUME NEW base PROVE AddAll(base, <<>>) = base
  BY Additions!FoldEmpty, AdditionsSame DEF AddAll

LEMMA StartSound ==
    ASSUME NEW words \in Seq(Lexeme), NEW entries \in Seq(RichEntry)
    PROVE  Sound(AddStart(words, entries))
  <1>1. PICK a : a = AddStart(words, entries)
    OBVIOUS
  <1>2. RoomLeft(entries) \in Nat /\ RoomLeft(words) \in Nat
    BY DeltaConstants DEF RoomLeft, Larger
  <1>3. <<>> \in Seq(Lexeme) /\ ToSet(<<>>) = {} /\ Len(<<>>) = 0 /\ NoTwice(<<>>)
    BY DEF ToSet, NoTwice
  <1>4. /\ a \in Accumulator /\ a.words = words /\ a.entries = entries /\ a.added = <<>>
        /\ a.room = RoomLeft(entries) /\ a.seen = {}
    BY <1>1, <1>2, <1>3 DEF AddStart, Accumulator
  <1>5. Counted(a)
    <2>1. Inner(a) = {} /\ Outer(a) = {}
      BY <1>3, <1>4 DEF Inner, Outer
    <2> QED
      BY <1>2, <1>3, <1>4, <2>1, FS_EmptySet DEF Counted
  <1> QED
    BY <1>1, <1>2, <1>3, <1>4, <1>5 DEF Sound

LEMMA SameTake ==
    ASSUME NEW a, Sound(a), NEW b, Sound(b), SameAdded(a, b), NEW w \in Lexeme
    PROVE  SameAdded(TakeAddition(a, w), TakeAddition(b, w))
  <1>1. PICK c, d : c = TakeAddition(a, w) /\ d = TakeAddition(b, w)
    OBVIOUS
  <1>2. Took(a, w, c) /\ Took(b, w, d)
    BY <1>1, TakeStep
  <1>3. Admits(a, w) <=> Admits(b, w)
    BY SameAdmits
  <1>4. SameAdded(c, d)
    <2>1. CASE Admits(a, w)
      BY <1>2, <1>3, <2>1 DEF Took, SameAdded
    <2>2. CASE ~Admits(a, w)
      BY <1>2, <1>3, <2>2 DEF Took, SameAdded
    <2> QED
      BY <2>1, <2>2
  <1> QED
    BY <1>1, <1>4

\* What a fold of additions keeps.
LEMMA AddAllSound ==
    ASSUME NEW a, Sound(a), NEW list \in Seq(Lexeme), NEW b, b = AddAll(a, list)
    PROVE  Sound(b) /\ b.words = a.words /\ b.entries = a.entries /\ Len(b.added) >= Len(a.added)
  <1>1. PICK n \in Nat : n = Len(list) /\ DOMAIN list = 1 .. n /\ \A i \in 1 .. n : list[i] \in Lexeme
    BY ElementOfSeq, LenProperties
  <1> DEFINE A == {x \in Accumulator : /\ Sound(x) /\ x.words = a.words /\ x.entries = a.entries
                                       /\ Len(x.added) >= Len(a.added)}
  <1>2. a \in A
    BY DEF Sound, Accumulator
  <1>3. ASSUME NEW x \in A, NEW i \in 1 .. n PROVE TakeAddition(x, list[i]) \in A
    <2>1. PICK w \in Lexeme : w = list[i]
      BY <1>1
    <2>2. PICK y : y = TakeAddition(x, w)
      OBVIOUS
    <2>3. Took(x, w, y)
      BY <2>2, TakeStep
    <2>4. Len(y.added) >= Len(x.added) /\ Len(y.added) \in Nat /\ Len(x.added) \in Nat
      <3>1. x.added \in Seq(Lexeme)
        BY DEF Accumulator
      <3>2. Len(Append(x.added, w)) = Len(x.added) + 1 /\ Len(x.added) \in Nat
        BY <3>1
      <3>3. y.added = Append(x.added, w) \/ y.added = x.added
        BY <2>3 DEF Took, SameAdded
      <3> QED
        BY <3>2, <3>3
    <2>5. Len(a.added) \in Nat
      BY DEF Sound, Accumulator
    <2>6. Sound(y) /\ y.words = a.words /\ y.entries = a.entries /\ Len(y.added) >= Len(a.added)
      BY <2>3, <2>4, <2>5 DEF Took
    <2> QED
      BY <2>1, <2>2, <2>6 DEF Sound
  <1>4. Additions!Keeps(A, list, n)
    <2> HIDE DEF A
    <2> QED
      BY <1>3 DEF Additions!Keeps
  <1>5. FoldLeft(TakeAddition, a, list) \in A
    <2> HIDE DEF A
    <2> QED
      BY <1>1, <1>2, <1>4, Additions!FoldWithin, AdditionsSame
  <1> QED
    BY <1>5 DEF AddAll

\* The words added, taken again, leave the same.
LEMMA Replayed ==
    ASSUME NEW words \in Seq(Lexeme), NEW entries \in Seq(RichEntry), NEW list \in Seq(Lexeme),
           NEW start, start = AddStart(words, entries)
    PROVE  SameAdded(AddAll(start, list), AddAll(start, AddAll(start, list).added))
  <1>1. PICK n \in Nat : n = Len(list) /\ DOMAIN list = 1 .. n /\ \A i \in 1 .. n : list[i] \in Lexeme
    BY ElementOfSeq, LenProperties
  <1>2. Sound(start)
    BY StartSound
  <1> DEFINE A == {x \in Accumulator : Sound(x) /\ SameAdded(x, AddAll(start, x.added))}
  <1>3. start \in A
    <2>1. start.added = <<>>
      BY DEF AddStart
    <2>2. SameAdded(start, AddAll(start, start.added))
      BY <2>1, AddAllNone DEF SameAdded
    <2> QED
      BY <1>2, <2>2 DEF Sound
  <1>4. ASSUME NEW x \in A, NEW i \in 1 .. n PROVE TakeAddition(x, list[i]) \in A
    <2>1. PICK w \in Lexeme : w = list[i]
      BY <1>1
    <2>2. PICK y : y = TakeAddition(x, w)
      OBVIOUS
    <2>3. Took(x, w, y)
      BY <2>2, TakeStep
    <2>4. PICK b : b = AddAll(start, x.added)
      OBVIOUS
    <2>5. x.added \in Seq(Lexeme) /\ SameAdded(x, b)
      BY <2>4 DEF Accumulator
    <2>6. Sound(b)
      BY <1>2, <2>4, <2>5, AddAllSound
    <2>7. SameAdded(y, AddAll(start, y.added))
      <3>1. CASE Admits(x, w)
        <4>1. y.added = Append(x.added, w)
          BY <2>3, <3>1 DEF Took
        <4>2. AddAll(start, y.added) = TakeAddition(b, w)
          BY <2>4, <2>5, <4>1, AddAllOne
        <4>3. SameAdded(y, TakeAddition(b, w))
          BY <2>2, <2>5, <2>6, SameTake
        <4> QED
          BY <4>2, <4>3
      <3>2. CASE ~Admits(x, w)
        <4>1. SameAdded(x, y)
          BY <2>3, <3>2 DEF Took
        <4> QED
          BY <2>4, <2>5, <4>1 DEF SameAdded
      <3> QED
        BY <3>1, <3>2
    <2> QED
      BY <2>1, <2>2, <2>3, <2>7 DEF Took, Sound
  <1>5. Additions!Keeps(A, list, n)
    <2> HIDE DEF A
    <2> QED
      BY <1>4 DEF Additions!Keeps
  <1>6. FoldLeft(TakeAddition, start, list) \in A
    <2> HIDE DEF A
    <2> QED
      BY <1>1, <1>3, <1>5, Additions!FoldWithin, AdditionsSame
  <1> QED
    BY <1>6 DEF AddAll

\* What an accumulator takes of a list, it takes of the words the list adds on its own.
Tracks(c, b, d) ==
    /\ Sound(c) /\ Sound(b) /\ Sound(d) /\ SameAdded(b, d)
    /\ b.words = c.words /\ b.entries = c.entries
    /\ \A v \in ToSet(c.added) : ~Admits(d, v)

LEMMA TracksStep ==
    ASSUME NEW c, NEW b, NEW a, Sound(a), Tracks(c, b, AddAll(a, c.added)), NEW w \in Lexeme,
           NEW e, e = TakeAddition(c, w)
    PROVE  Tracks(e, TakeAddition(b, w), AddAll(a, e.added))
  <1>1. PICK d : d = AddAll(a, c.added)
    OBVIOUS
  <1>2. /\ Sound(c) /\ Sound(b) /\ Sound(d) /\ SameAdded(b, d)
        /\ b.words = c.words /\ b.entries = c.entries
        /\ \A v \in ToSet(c.added) : ~Admits(d, v)
    BY <1>1 DEF Tracks
  <1>3. c.added \in Seq(Lexeme)
    BY <1>2 DEF Sound, Accumulator
  <1>4. PICK f, g : f = TakeAddition(b, w) /\ g = TakeAddition(d, w)
    OBVIOUS
  <1>5. Took(c, w, e) /\ Took(b, w, f) /\ Took(d, w, g)
    BY <1>2, <1>4, TakeStep
  <1>6. Sound(e) /\ Sound(f) /\ Sound(g) /\ f.words = e.words /\ f.entries = e.entries
    BY <1>2, <1>5 DEF Took
  <1>7. CASE Admits(c, w)
    <2>1. e.added = Append(c.added, w)
      BY <1>5, <1>7 DEF Took
    <2>2. AddAll(a, e.added) = g
      BY <1>1, <1>3, <1>4, <2>1, AddAllOne
    <2>3. SameAdded(f, g)
      BY <1>2, <1>4, SameTake
    <2>4. ToSet(e.added) = ToSet(c.added) \cup {w}
      BY <1>3, <2>1, AppendFacts
    <2>5. \A v \in ToSet(e.added) : ~Admits(g, v)
      BY <1>2, <1>5, <2>4 DEF Took
    <2> QED
      BY <1>4, <1>6, <2>2, <2>3, <2>5 DEF Tracks
  <1>8. CASE ~Admits(c, w)
    <2>1. SameAdded(c, e)
      BY <1>5, <1>8 DEF Took
    <2>2. AddAll(a, e.added) = d
      BY <1>1, <2>1 DEF SameAdded
    <2>3. ~Admits(d, w)
      <3>1. d.words = c.words /\ d.entries = c.entries
        BY <1>2 DEF SameAdded
      <3> QED
        BY <1>2, <1>8, <3>1, SettledClosed
    <2>4. SameAdded(f, d)
      <3>1. ~Admits(b, w)
        BY <1>2, <2>3, SameAdmits
      <3> QED
        BY <1>2, <1>5, <3>1 DEF Took, SameAdded
    <2>5. \A v \in ToSet(e.added) : ~Admits(d, v)
      BY <1>2, <2>1 DEF SameAdded
    <2> QED
      BY <1>2, <1>4, <1>6, <2>2, <2>4, <2>5 DEF Tracks
  <1> QED
    BY <1>7, <1>8

LEMMA TakenAlone ==
    ASSUME NEW words \in Seq(Lexeme), NEW entries \in Seq(RichEntry), NEW list \in Seq(Lexeme),
           NEW start, start = AddStart(words, entries), NEW a, Sound(a), NEW b, Sound(b),
           SameAdded(b, a), b.words = words, b.entries = entries
    PROVE  SameAdded(AddAll(b, list), AddAll(a, AddAll(start, list).added))
  <1>1. PICK n \in Nat : n = Len(list) /\ DOMAIN list = 1 .. n /\ \A i \in 1 .. n : list[i] \in Lexeme
    BY ElementOfSeq, LenProperties
  <1>2. Sound(start) /\ start.words = words /\ start.entries = entries /\ start.added = <<>>
    BY StartSound DEF AddStart
  <1> DEFINE T(i) == AddAll(b, SubSeq(list, 1, i))
             A == [i \in 0 .. n |-> {c \in Accumulator : Tracks(c, T(i), AddAll(a, c.added))}]
  <1>3. start \in A[0]
    <2>1. T(0) = b
      <3>1. SubSeq(list, 1, 0) = <<>>
        BY <1>1, SubSeqFacts
      <3> QED
        BY <3>1, AddAllNone
    <2>2. AddAll(a, start.added) = a
      BY <1>2, AddAllNone
    <2>3. ToSet(<<>>) = {}
      BY DEF ToSet
    <2>4. Tracks(start, b, a)
      BY <1>2, <2>3 DEF Tracks
    <2> HIDE DEF T
    <2>5. Tracks(start, T(0), AddAll(a, start.added)) /\ start \in Accumulator /\ 0 \in 0 .. n
      BY <1>2, <2>1, <2>2, <2>4 DEF Sound
    <2> QED
      BY <2>5
  <1>4. ASSUME NEW i \in 1 .. n, NEW c \in A[i - 1] PROVE TakeAddition(c, list[i]) \in A[i]
    <2>1. PICK j \in 0 .. n : j = i - 1 /\ j + 1 = i /\ j \in Nat /\ j < n /\ i \in 0 .. n
      OBVIOUS
    <2>2. c \in Accumulator /\ Tracks(c, T(j), AddAll(a, c.added))
      <3> HIDE DEF T
      <3> QED
        BY <2>1
    <2>3. PICK w \in Lexeme : w = list[i]
      BY <1>1
    <2>4. T(i) = TakeAddition(T(j), w)
      <3>1. SubSeq(list, 1, i) = Append(SubSeq(list, 1, j), w) /\ SubSeq(list, 1, j) \in Seq(Lexeme)
        BY <1>1, <2>1, <2>3, SubSeqFacts
      <3> QED
        BY <3>1, AddAllOne
    <2>5. PICK t, e : t = T(j) /\ e = TakeAddition(c, w)
      OBVIOUS
    <2>6. Tracks(e, TakeAddition(t, w), AddAll(a, e.added))
      <3>1. Tracks(c, t, AddAll(a, c.added))
        BY <2>2, <2>5
      <3> QED
        BY <2>5, <3>1, TracksStep
    <2> HIDE DEF T
    <2>7. Tracks(e, T(i), AddAll(a, e.added)) /\ e \in Accumulator
      BY <2>4, <2>5, <2>6 DEF Tracks, Sound
    <2> QED
      BY <2>1, <2>3, <2>5, <2>7
  <1>5. Additions!Advances(A, list, n)
    <2> HIDE DEF A
    <2> QED
      BY <1>4 DEF Additions!Advances
  <1>6. FoldLeft(TakeAddition, start, list) \in A[n]
    <2> HIDE DEF A
    <2> QED
      BY <1>1, <1>3, <1>5, Additions!FoldAdvances, AdditionsSame
  <1>7. PICK c : c = AddAll(start, list)
    OBVIOUS
  <1>8. SubSeq(list, 1, n) = list
    BY <1>1, SubSeqFacts
  <1>9. Tracks(c, T(n), AddAll(a, c.added))
    <2>1. c \in A[n] /\ n \in 0 .. n
      BY <1>6, <1>7 DEF AddAll
    <2> HIDE DEF T
    <2> QED
      BY <2>1
  <1> QED
    BY <1>7, <1>8, <1>9 DEF Tracks

\* Words found in two steps are those found in one.
LEMMA PairedTwice ==
    ASSUME NEW words \in Seq(Lexeme), NEW entries \in Seq(RichEntry),
           NEW list \in Seq(Lexeme), NEW more \in Seq(Lexeme),
           NEW p, p = PairedDelta(words, entries, list), NEW q, q = PairedDelta(words, entries, more)
    PROVE  PairedDelta(words, entries, p \o q) = PairedDelta(words, entries, list \o more)
  <1>1. PICK start : start = AddStart(words, entries)
    OBVIOUS
  <1>2. p = AddAll(start, list).added /\ q = AddAll(start, more).added
    BY <1>1, PairedIs
  <1>3. PICK b, a : b = AddAll(start, list) /\ a = AddAll(start, p)
    OBVIOUS
  <1>4. Sound(start) /\ start.words = words /\ start.entries = entries
    BY <1>1, StartSound DEF AddStart
  <1>5. Sound(b) /\ b.words = words /\ b.entries = entries
    BY <1>3, <1>4, AddAllSound
  <1>6. p \in Seq(Lexeme) /\ q \in Seq(Lexeme)
    <2>1. Sound(AddAll(start, more))
      BY <1>4, AddAllSound
    <2> QED
      BY <1>2, <1>3, <1>5, <2>1 DEF Sound, Accumulator
  <1>7. SameAdded(b, a) /\ Sound(a)
    BY <1>1, <1>2, <1>3, <1>4, <1>6, Replayed, AddAllSound
  <1>8. SameAdded(AddAll(b, more), AddAll(a, q))
    BY <1>1, <1>2, <1>5, <1>7, TakenAlone
  <1>9. AddAll(b, more) = AddAll(start, list \o more) /\ AddAll(a, q) = AddAll(start, p \o q)
    BY <1>3, <1>6, AddAllConcat
  <1>10. /\ PairedDelta(words, entries, p \o q) = AddAll(start, p \o q).added
         /\ PairedDelta(words, entries, list \o more) = AddAll(start, list \o more).added
    BY <1>1, PairedIs
  <1> QED
    BY <1>8, <1>9, <1>10 DEF SameAdded

LEMMA PairedGrows ==
    ASSUME NEW words \in Seq(Lexeme), NEW entries \in Seq(RichEntry),
           NEW list \in Seq(Lexeme), NEW more \in Seq(Lexeme),
           PairedDelta(words, entries, list \o more) = <<>>
    PROVE  PairedDelta(words, entries, list) = <<>>
  <1>1. PICK start : start = AddStart(words, entries)
    OBVIOUS
  <1>2. PICK a, b : a = AddAll(start, list) /\ b = AddAll(a, more)
    OBVIOUS
  <1>3. Sound(a) /\ Len(b.added) >= Len(a.added)
    BY <1>1, <1>2, StartSound, AddAllSound
  <1>4. b = AddAll(start, list \o more)
    BY <1>2, AddAllConcat
  <1>5. b.added = <<>>
    BY <1>1, <1>4, PairedIs
  <1>6. a.added \in Seq(Lexeme)
    BY <1>3 DEF Sound, Accumulator
  <1>7. a.added = <<>>
    BY <1>3, <1>5, <1>6
  <1> QED
    BY <1>1, <1>2, <1>7, PairedIs

-----------------------------------------------------------------------------
(* Words that are merged into their row.                                   *)

LEMMA ConcatFacts ==
    ASSUME NEW V, NEW s \in Seq(V), NEW t \in Seq(V), NEW v \in V
    PROVE  /\ s \o t \in Seq(V) /\ Len(s \o t) = Len(s) + Len(t)
           /\ s \o Append(t, v) = Append(s \o t, v)
           /\ \A x : x \in ToSet(s \o t) <=> x \in ToSet(s) \/ x \in ToSet(t)
  <1>1. PICK n \in Nat, m \in Nat : n = Len(s) /\ m = Len(t)
    OBVIOUS
  <1>2. PICK both : both = s \o t
    OBVIOUS
  <1>3. /\ both \in Seq(V) /\ Len(both) = n + m
        /\ \A i \in 1 .. n : both[i] = s[i]
        /\ \A i \in 1 .. m : both[n + i] = t[i]
    BY <1>1, <1>2
  <1>4. ASSUME NEW x PROVE x \in ToSet(both) <=> x \in ToSet(s) \/ x \in ToSet(t)
    <2>1. ASSUME x \in ToSet(both) PROVE x \in ToSet(s) \/ x \in ToSet(t)
      <3>1. PICK i \in 1 .. (n + m) : both[i] = x
        BY <1>3, <2>1, MemberOf
      <3>2. CASE i <= n
        <4>1. i \in 1 .. n
          BY <3>2
        <4> QED
          BY <1>1, <1>3, <3>1, <4>1, MemberOf
      <3>3. CASE i > n
        <4>1. PICK j \in 1 .. m : i = n + j
          <5>1. i - n \in 1 .. m /\ i = n + (i - n)
            BY <3>3
          <5> QED
            BY <5>1
        <4>2. t[j] = x
          BY <1>3, <3>1, <4>1
        <4> QED
          BY <1>1, <4>1, <4>2, MemberOf
      <3> QED
        BY <3>2, <3>3
    <2>2. ASSUME x \in ToSet(s) PROVE x \in ToSet(both)
      <3>1. PICK i \in 1 .. n : s[i] = x
        BY <1>1, <2>2, MemberOf
      <3>2. i \in 1 .. (n + m) /\ both[i] = x
        BY <1>3, <3>1
      <3> QED
        BY <1>3, <3>2, MemberOf
    <2>3. ASSUME x \in ToSet(t) PROVE x \in ToSet(both)
      <3>1. PICK i \in 1 .. m : t[i] = x
        BY <1>1, <2>3, MemberOf
      <3>2. n + i \in 1 .. (n + m) /\ both[n + i] = x
        BY <1>3, <3>1
      <3> QED
        BY <1>3, <3>2, MemberOf
    <2> QED
      BY <2>1, <2>2, <2>3
  <1>5. s \o Append(t, v) = Append(s \o t, v)
    OBVIOUS
  <1> QED
    BY <1>1, <1>2, <1>3, <1>4, <1>5

\* A row takes the words that were found for it, with their entries.
Holds(words, entries, a, t) ==
    /\ t \in Columns /\ t.words = words \o a.added
    /\ \A v : v \in Usable(t.entries) <=> v \in Usable(entries) \/ v \in ToSet(a.added)
    /\ \A v : v \in Named(t.entries) <=> v \in Named(entries) \/ v \in ToSet(a.added)
    /\ Len(t.entries) + a.room = Len(entries) + RoomLeft(entries)

LEMMA HoldsNext ==
    ASSUME NEW words \in Seq(Lexeme), NEW entries \in Seq(RichEntry), NEW a, Sound(a),
           a.words = words, a.entries = entries, NEW t, Holds(words, entries, a, t),
           NEW w \in Lexeme, Admits(a, w), NEW b, Took(a, w, b)
    PROVE  Holds(words, entries, b, TakePair(t, w))
  <1>1. PICK l \in Nat, k \in Nat, n \in Nat, e \in Nat, r \in Nat, q \in Nat :
          /\ l = Len(words) /\ k = Len(a.added) /\ n = Len(entries) /\ e = Len(t.entries)
          /\ r = a.room /\ q = RoomLeft(entries)
    <2>1. a.added \in Seq(Lexeme) /\ a.room \in Nat /\ t.entries \in Seq(RichEntry)
      BY DEF Sound, Accumulator, Holds, Columns
    <2>2. RoomLeft(entries) \in Nat
      BY DeltaConstants DEF RoomLeft, Larger
    <2>3. /\ Len(words) \in Nat /\ Len(entries) \in Nat
          /\ Len(a.added) \in Nat /\ Len(t.entries) \in Nat
      BY <2>1
    <2> QED
      BY <2>1, <2>2, <2>3
  <1>2. a.added \in Seq(Lexeme) /\ t.words \in Seq(Lexeme) /\ t.entries \in Seq(RichEntry)
    BY DEF Sound, Accumulator, Holds, Columns
  <1>3. /\ t.words = words \o a.added /\ e + r = n + q
        /\ \A v : v \in Usable(t.entries) <=> v \in Usable(entries) \/ v \in ToSet(a.added)
        /\ \A v : v \in Named(t.entries) <=> v \in Named(entries) \/ v \in ToSet(a.added)
        /\ t = [words |-> t.words, entries |-> t.entries]
    BY <1>1 DEF Holds, Columns
  <1>4. /\ b.added = Append(a.added, w)
        /\ b.room = IF w \in Usable(entries) THEN r ELSE r - 1
    BY <1>1 DEF Took
  <1>5. /\ w \notin ToSet(words) /\ w \notin ToSet(a.added) /\ ~(k >= RoomLeft(words))
        /\ w \in Usable(entries) \/ (w \notin Named(entries) /\ r # 0)
    BY <1>1 DEF Admits, Barred
  <1>6. w \notin ToSet(t.words) /\ Len(t.words) < Capacity
    <2>1. /\ \A x : x \in ToSet(t.words) <=> x \in ToSet(words) \/ x \in ToSet(a.added)
          /\ Len(t.words) = l + k
      BY <1>1, <1>2, <1>3, ConcatFacts
    <2>2. RoomLeft(words) = IF Capacity > l THEN Capacity - l ELSE 0
      BY <1>1, DeltaConstants DEF RoomLeft, Larger
    <2> QED
      BY <1>5, <2>1, <2>2, DeltaConstants
  <1>7. w \in Usable(t.entries) <=> w \in Usable(entries)
    BY <1>3, <1>5
  <1>8. w \notin Usable(entries) => w \notin Named(t.entries) /\ e < Capacity
    <2>1. q = IF Capacity > n THEN Capacity - n ELSE 0
      BY <1>1, DeltaConstants DEF RoomLeft, Larger
    <2>2. q >= r
      BY <1>1, FS_CardinalityType DEF Sound, Counted
    <2> QED
      BY <1>3, <1>5, <2>1, <2>2, DeltaConstants
  <1>9. PICK tw, te : tw = Append(t.words, w) /\ te = Append(t.entries, Rich(w))
    OBVIOUS
  <1>10. /\ tw \in Seq(Lexeme) /\ tw = words \o b.added /\ ToSet(b.added) = ToSet(a.added) \cup {w}
    <2>1. words \o Append(a.added, w) = Append(words \o a.added, w)
      BY <1>2, ConcatFacts
    <2>2. tw \in Seq(Lexeme)
      BY <1>2, <1>9, AppendFacts
    <2>3. ToSet(Append(a.added, w)) = ToSet(a.added) \cup {w}
      BY <1>2, AppendFacts
    <2> QED
      BY <1>3, <1>4, <1>9, <2>1, <2>2, <2>3
  <1>11. /\ te \in Seq(RichEntry) /\ Len(te) = e + 1
         /\ Usable(te) = Usable(t.entries) \cup {w} /\ Named(te) = Named(t.entries) \cup {w}
    BY <1>1, <1>2, <1>9, RichAppended
  <1>12. TakePair(t, w) = [words |-> tw,
                           entries |-> IF w \notin Usable(entries) THEN te ELSE t.entries]
    <2>1. e = Len(t.entries) /\ Capacity \in Nat /\ Len(t.words) \in Nat
      BY <1>1, <1>2, DeltaConstants
    <2>2. ~(Len(t.words) >= Capacity) /\ (w \notin Usable(entries) => ~(Len(t.entries) >= Capacity))
      BY <1>1, <1>6, <1>8, <2>1
    <2> QED
      BY <1>6, <1>7, <1>8, <1>9, <2>2 DEF TakePair, Rich
  <1>13. PICK u : u = TakePair(t, w)
    OBVIOUS
  <1>14. CASE w \notin Usable(entries)
    <2>1. u.words = tw /\ u.entries = te /\ u \in Columns
      BY <1>10, <1>11, <1>12, <1>13, <1>14 DEF Columns
    <2>2. Len(u.entries) + b.room = Len(entries) + RoomLeft(entries)
      <3>1. b.room = r - 1 /\ Len(u.entries) = e + 1
        BY <1>4, <1>11, <1>14, <2>1
      <3>2. e + r = n + q
        BY <1>3
      <3>3. (e + 1) + (r - 1) = n + q
        BY <3>2
      <3> QED
        BY <1>1, <3>1, <3>3, Zenon
    <2>3. /\ \A v : v \in Usable(u.entries) <=> v \in Usable(entries) \/ v \in ToSet(b.added)
          /\ \A v : v \in Named(u.entries) <=> v \in Named(entries) \/ v \in ToSet(b.added)
      BY <1>3, <1>10, <1>11, <2>1
    <2> QED
      BY <1>10, <1>13, <2>1, <2>2, <2>3 DEF Holds
  <1>15. CASE w \in Usable(entries)
    <2>1. u.words = tw /\ u.entries = t.entries /\ u \in Columns
      BY <1>2, <1>10, <1>12, <1>13, <1>15 DEF Columns
    <2>2. Len(u.entries) + b.room = Len(entries) + RoomLeft(entries)
      BY <1>1, <1>3, <1>4, <1>15, <2>1
    <2>4. w \in Named(entries)
      BY <1>15 DEF Usable, Named
    <2>3. /\ \A v : v \in Usable(u.entries) <=> v \in Usable(entries) \/ v \in ToSet(b.added)
          /\ \A v : v \in Named(u.entries) <=> v \in Named(entries) \/ v \in ToSet(b.added)
      BY <1>3, <1>10, <1>15, <2>1, <2>4
    <2> QED
      BY <1>10, <1>13, <2>1, <2>2, <2>3 DEF Holds
  <1> QED
    BY <1>14, <1>15

LEMMA MergePairOne ==
    ASSUME NEW words, NEW entries, NEW list \in Seq(Lexeme), NEW w \in Lexeme
    PROVE  MergePair(words, entries, Append(list, w)) = TakePair(MergePair(words, entries, list), w)
  <1>1. PICK k \in Nat : k = Len(list) /\ DOMAIN list = 1 .. k
    OBVIOUS
  <1>2. PICK longer : longer = Append(list, w)
    OBVIOUS
  <1>3. /\ longer \in Seq(Lexeme) /\ longer[k + 1] = w /\ Len(longer) = k + 1
        /\ \A x \in 1 .. k : longer[x] = list[x]
    BY <1>1, <1>2, AppendFacts
  <1>4. DOMAIN list = 1 .. k /\ DOMAIN longer = 1 .. (k + 1) /\ \A x \in 1 .. k : longer[x] = list[x]
    BY <1>1, <1>3
  <1>5. PICK base : base = [words |-> words, entries |-> entries]
    OBVIOUS
  <1>6. Pairs!FoldLeft(TakePair, base, longer) = TakePair(Pairs!FoldLeft(TakePair, base, list), longer[k + 1])
    BY <1>4, Pairs!FoldLast, Zenon DEF Pairs!FoldLeft
  <1>7. Pairs!FoldLeft(TakePair, base, longer) = FoldLeft(TakePair, base, longer)
    BY PairsSame
  <1>8. Pairs!FoldLeft(TakePair, base, list) = FoldLeft(TakePair, base, list)
    BY PairsSame
  <1> QED
    BY <1>2, <1>3, <1>5, <1>6, <1>7, <1>8, Zenon DEF MergePair

LEMMA PairedMerged ==
    ASSUME NEW words \in Seq(Lexeme), NEW entries \in Seq(RichEntry), NEW list \in Seq(Lexeme),
           NEW p, p = PairedDelta(words, entries, list)
    PROVE  MergePair(words, entries, p).words = words \o p
  <1>1. PICK n \in Nat : n = Len(list) /\ DOMAIN list = 1 .. n /\ \A i \in 1 .. n : list[i] \in Lexeme
    BY ElementOfSeq, LenProperties
  <1>2. PICK start : start = AddStart(words, entries)
    OBVIOUS
  <1> DEFINE M(a) == MergePair(words, entries, a.added)
             A == {a \in Accumulator : /\ Sound(a) /\ a.words = words /\ a.entries = entries
                                       /\ Holds(words, entries, a, M(a))}
  <1>3. start \in A
    <2>1. /\ Sound(start) /\ start.words = words /\ start.entries = entries
          /\ start.added = <<>> /\ start.room = RoomLeft(entries)
      BY <1>2, StartSound DEF AddStart
    <2>2. PICK t : t = M(start)
      OBVIOUS
    <2>3. t = [words |-> words, entries |-> entries]
      BY <2>1, <2>2, Pairs!FoldEmpty, PairsSame DEF MergePair
    <2>4. words \o <<>> = words /\ ToSet(<<>>) = {}
      BY DEF ToSet
    <2>5. Holds(words, entries, start, t)
      BY <2>1, <2>3, <2>4 DEF Holds, Columns
    <2> HIDE DEF M
    <2> QED
      BY <2>1, <2>2, <2>5 DEF Sound
  <1>4. ASSUME NEW a \in A, NEW i \in 1 .. n PROVE TakeAddition(a, list[i]) \in A
    <2>1. PICK w \in Lexeme : w = list[i]
      BY <1>1
    <2>2. PICK b, t : b = TakeAddition(a, w) /\ t = M(a)
      OBVIOUS
    <2>3. Took(a, w, b)
      BY <2>2, TakeStep
    <2>4. Sound(b) /\ b.words = words /\ b.entries = entries
      BY <2>3 DEF Took
    <2>5. Sound(a) /\ a.words = words /\ a.entries = entries /\ Holds(words, entries, a, t) /\ a.added \in Seq(Lexeme)
      <3> HIDE DEF M
      <3> QED
        BY <2>2 DEF Accumulator
    <2>6. Holds(words, entries, b, M(b))
      <3>1. CASE Admits(a, w)
        <4>1. M(b) = TakePair(t, w)
          <5>1. b.added = Append(a.added, w)
            BY <2>3, <3>1 DEF Took
          <5> QED
            BY <2>2, <2>5, <5>1, MergePairOne
        <4> HIDE DEF M
        <4> QED
          BY <2>3, <2>5, <3>1, <4>1, HoldsNext
      <3>2. CASE ~Admits(a, w)
        <4>1. b.added = a.added /\ b.room = a.room
          BY <2>3, <3>2 DEF Took, SameAdded
        <4>2. M(b) = t
          BY <2>2, <4>1
        <4> HIDE DEF M
        <4> QED
          BY <2>5, <4>1, <4>2 DEF Holds
      <3> QED
        BY <3>1, <3>2
    <2> HIDE DEF M
    <2>7. b \in A
      BY <2>4, <2>6 DEF Sound
    <2> QED
      BY <2>1, <2>2, <2>7
  <1>5. Additions!Keeps(A, list, n)
    <2> HIDE DEF A
    <2> QED
      BY <1>4 DEF Additions!Keeps
  <1>6. FoldLeft(TakeAddition, start, list) \in A
    <2> HIDE DEF A
    <2> QED
      BY <1>1, <1>3, <1>5, Additions!FoldWithin, AdditionsSame
  <1>7. PICK a : a = AddAll(start, list)
    OBVIOUS
  <1>8. Holds(words, entries, a, M(a)) /\ p = a.added
    <2>1. a \in A
      BY <1>6, <1>7 DEF AddAll
    <2> HIDE DEF M
    <2> QED
      BY <1>2, <1>7, <2>1, PairedIs
  <1> QED
    BY <1>8 DEF Holds

-----------------------------------------------------------------------------
(* A row of the delta and what it represents.                              *)

\* A row of the delta stands for the patches of a dump, and for the words found in them.
NoDelta == [pairs |-> [c \in Column |-> <<>>], senses |-> <<>>]
PriorOf(d) == IF d = NoRow THEN NoDelta ELSE d
Relating == {p \in Patch : Relates(p)}
Finds == [Column -> Seq(Lexeme)]

Represents(row, d, patches, found) ==
    /\ PriorOf(d) \in DeltaRow
    /\ StandsAfter(row.senses, Len(row.senses), PriorOf(d).senses, MergeSenses(row.senses, patches))
    /\ \A c \in Column : PriorOf(d).pairs[c] = PairedDelta(row.words[c], row.entries[c], found[c])

LEMMA RelatingSeq ==
    ASSUME NEW patches \in Seq(Relating)
    PROVE  patches \in Seq(Patch) /\ \A k \in DOMAIN patches : Relates(patches[k])
  <1>1. PICK n \in Nat : n = Len(patches) /\ DOMAIN patches = 1 .. n /\ \A i \in 1 .. n : patches[i] \in Relating
    BY ElementOfSeq, LenProperties
  <1>2. \A i \in 1 .. n : patches[i] \in Patch /\ Relates(patches[i])
    BY <1>1 DEF Relating
  <1>3. patches \in [1 .. n -> Patch]
    <2>1. patches = [i \in 1 .. n |-> patches[i]]
      BY <1>1
    <2> QED
      BY <1>2, <2>1
  <1> QED
    BY <1>1, <1>2, <1>3

LEMMA MergeSensesConcat ==
    ASSUME NEW senses, NEW patches \in Seq(Relating), NEW more \in Seq(Relating)
    PROVE  MergeSenses(senses, patches \o more) = MergeSenses(MergeSenses(senses, patches), more)
  <1>1. Joins!FoldLeft(MergeSense, senses, patches \o more)
            = Joins!FoldLeft(MergeSense, Joins!FoldLeft(MergeSense, senses, patches), more)
    BY Joins!FoldConcat
  <1>2. \A base, seq : Joins!FoldLeft(MergeSense, base, seq) = MergeSenses(base, seq)
    BY JoinsSame DEF MergeSenses
  <1> QED
    BY <1>1, <1>2, Zenon

LEMMA MergeSensesNone == ASSUME NEW senses PROVE MergeSenses(senses, <<>>) = senses
  BY Joins!FoldEmpty, JoinsSame DEF MergeSenses

LEMMA NothingFound ==
    ASSUME NEW words, NEW entries PROVE PairedDelta(words, entries, <<>>) = <<>>
  <1>1. AddStart(words, entries).added = <<>>
    BY DEF AddStart
  <1> QED
    BY <1>1, PairedIs, AddAllNone

LEMMA StandsForNothing ==
    ASSUME NEW row \in EntryRow, NEW found, \A c \in Column : found[c] = <<>>
    PROVE  Represents(row, NoRow, <<>>, found)
  <1>1. row.senses \in Seq(RichSense) /\ Len(row.senses) \in Nat
    BY DEF EntryRow
  <1>2. StandsAfter(row.senses, Len(row.senses), <<>>, row.senses)
    BY <1>1, StandsNone
  <1>3. /\ [c \in Column |-> <<>>] \in [Column -> Seq(Lexeme)] /\ <<>> \in Seq(Compact)
    OBVIOUS
  <1>4. PriorOf(NoRow) = NoDelta /\ NoDelta.senses = <<>> /\ NoDelta.pairs = [c \in Column |-> <<>>]
    BY DEF PriorOf, NoDelta
  <1>5. NoDelta \in DeltaRow
    BY <1>3, Zenon DEF DeltaRow, NoDelta
  <1>6. \A c \in Column : NoDelta.pairs[c] = PairedDelta(row.words[c], row.entries[c], found[c])
    BY <1>4, NothingFound
  <1> QED
    BY <1>2, <1>4, <1>5, <1>6, MergeSensesNone DEF Represents

LEMMA MergeAllGrows ==
    ASSUME NEW rows \in Seq(Compact), NEW more \in Seq(Compact), MergeAll(rows, more) = <<>>
    PROVE  rows = <<>>
  <1>1. PICK n \in Nat : n = Len(more) /\ DOMAIN more = 1 .. n /\ \A i \in 1 .. n : more[i] \in Compact
    BY ElementOfSeq, LenProperties
  <1>2. PICK k \in Nat : k = Len(rows)
    OBVIOUS
  <1> DEFINE A == {x \in Seq(Compact) : Len(x) >= k}
  <1>3. ASSUME NEW x \in A, NEW i \in 1 .. n PROVE MergeCompact(x, more[i]) \in A
    <2>1. PICK c \in Compact : c = more[i]
      BY <1>1
    <2>0. PICK l \in Nat : l = Len(x) /\ l >= k
      <3>1. Len(x) \in Nat /\ Len(x) >= k
        OBVIOUS
      <3> QED
        BY <3>1
    <2>2. PICK y : y = MergeCompact(x, c) /\ l = Len(x) /\ l >= k
      BY <2>0
    <2>3. x \in Seq(Compact)
      OBVIOUS
    <2>4. \/ \E j \in 1 .. l : Joins1(y, x, l, j, c)
          \/ Follows(y, x, l, c)
      BY <2>2, <2>3, MergeCompactFacts
    <2>5. y \in Seq(Compact) /\ (DOMAIN y = 1 .. l \/ DOMAIN y = 1 .. (l + 1))
      BY <2>4 DEF Joins1, Follows
    <2>6. Len(y) = l \/ Len(y) = l + 1
      BY <2>5
    <2> QED
      BY <2>1, <2>2, <2>5, <2>6
  <1>4. Compacts!Keeps(A, more, n)
    <2> HIDE DEF A
    <2> QED
      BY <1>3 DEF Compacts!Keeps
  <1>5. rows \in A
    BY <1>2
  <1>6. FoldLeft(MergeCompact, rows, more) \in A
    <2> HIDE DEF A
    <2> QED
      BY <1>1, <1>4, <1>5, Compacts!FoldWithin, CompactsSame
  <1>7. Len(<<>>) >= k
    BY <1>6 DEF MergeAll
  <1>8. Len(rows) = 0
    BY <1>2, <1>7
  <1> QED
    BY <1>8

\* A chunk flushed: what is staged stands for its patches as well.
LEMMA FlushStands ==
    ASSUME NEW row \in EntryRow, AsImported(row.senses), NEW staged, NEW patches \in Seq(Relating),
           NEW found \in Finds, Represents(row, staged, patches, found), NEW more \in Seq(Relating),
           NEW e, e = MergeDelta(row, staged, ChunkDelta(row, more)),
           NEW x, x = IF HasChanges(row, e) THEN e ELSE staged,
           NEW all \in Finds, \A c \in Column : all[c] = found[c] \o FlatCandidates(more)[c]
    PROVE  Represents(row, x, patches \o more, all)
  <1>1. PICK senses \in Seq(RichSense), s \in Nat : senses = row.senses /\ s = Len(senses)
    <2>1. row.senses \in Seq(RichSense) /\ Len(row.senses) \in Nat
      BY DEF EntryRow
    <2> QED
      BY <2>1
  <1>2. PICK prior \in DeltaRow : prior = PriorOf(staged)
    BY DEF Represents
  <1>3. PICK rows \in Seq(Compact) : rows = prior.senses
    BY DEF DeltaRow
  <1>4. more \in Seq(Patch) /\ \A k \in DOMAIN more : Relates(more[k])
    BY RelatingSeq
  <1>5. PICK cs \in Seq(Compact) : cs = CompactSenses(senses, more)
    BY <1>1, <1>4, CompactsType
  <1>6. StandsAfter(senses, s, rows, MergeSenses(senses, patches))
    BY <1>1, <1>2, <1>3 DEF Represents
  <1>7. StandsAfter(senses, s, MergeAll(rows, cs), MergeSenses(senses, patches \o more))
    <2>1. StandsAfter(senses, s, MergeAll(rows, cs), MergeSenses(MergeSenses(senses, patches), more))
      BY <1>1, <1>4, <1>5, <1>6, StandsChunk
    <2> QED
      BY <2>1, MergeSensesConcat
  <1>8. MergeAll(<<>>, rows \o cs) = MergeAll(rows, cs)
    BY <1>1, <1>6, StandsMerged, MergeAllConcat
  <1>9. e = [pairs |-> [c \in Column |->
                 PairedDelta(row.words[c], row.entries[c],
                             prior.pairs[c] \o PairedDelta(row.words[c], row.entries[c], FlatCandidates(more)[c]))],
             senses |-> MergeAll(rows, cs)]
    BY <1>1, <1>2, <1>3, <1>5, <1>8 DEF MergeDelta, ChunkDelta, PriorOf, NoDelta, MergeAll
  <1>10. e \in DeltaRow
    <2>1. IsDeltaRow(staged)
      BY <1>2 DEF IsDeltaRow, PriorOf
    <2> QED
      BY <1>4, <2>1, DeltaRowType DEF IsDeltaRow
  <1>11. \A c \in Column : /\ row.words[c] \in Seq(Lexeme) /\ row.entries[c] \in Seq(RichEntry)
                           /\ found[c] \in Seq(Lexeme) /\ FlatCandidates(more)[c] \in Seq(Lexeme)
    BY <1>4, CandidatesType DEF EntryRow, RichEntry, Finds
  <1>12. \A c \in Column : prior.pairs[c] = PairedDelta(row.words[c], row.entries[c], found[c])
    BY <1>2 DEF Represents
  <1>13. \A c \in Column : e.pairs[c] = PairedDelta(row.words[c], row.entries[c], all[c])
    <2>1. TAKE c \in Column
    <2>2. e.pairs[c] = PairedDelta(row.words[c], row.entries[c],
                             prior.pairs[c] \o PairedDelta(row.words[c], row.entries[c], FlatCandidates(more)[c]))
      BY <1>9
    <2>3. PICK w, n : w = row.words[c] /\ n = row.entries[c]
      OBVIOUS
    <2>4. PICK f, g : f = found[c] /\ g = FlatCandidates(more)[c]
      OBVIOUS
    <2>5. w \in Seq(Lexeme) /\ n \in Seq(RichEntry) /\ f \in Seq(Lexeme) /\ g \in Seq(Lexeme)
      BY <1>11, <2>3, <2>4
    <2>6. PICK p, q : p = PairedDelta(w, n, f) /\ q = PairedDelta(w, n, g)
      OBVIOUS
    <2>7. PairedDelta(w, n, p \o q) = PairedDelta(w, n, f \o g)
      BY <2>5, <2>6, PairedTwice
    <2>8. prior.pairs[c] = p
      BY <1>12, <2>3, <2>4, <2>6
    <2>9. all[c] = f \o g
      BY <2>4
    <2> QED
      BY <2>2, <2>3, <2>4, <2>6, <2>7, <2>8, <2>9
  <1>14. e.senses = MergeAll(rows, cs)
    BY <1>9
  <1>15. StandsAfter(senses, s, e.senses, MergeSenses(senses, patches \o more))
    BY <1>7, <1>14
  <1>16. CASE HasChanges(row, e)
    <2>1. x = e
      BY <1>16
    <2>2. PriorOf(e) = e
      BY <1>10, DeltaTypes DEF PriorOf
    <2> QED
      BY <1>1, <1>10, <1>13, <1>15, <2>1, <2>2 DEF Represents
  <1>17. CASE ~HasChanges(row, e)
    <2>1. x = staged /\ e.senses = <<>> /\ \A c \in Column : e.pairs[c] = <<>>
      BY <1>17 DEF HasChanges
    <2>2. rows = <<>>
      BY <1>14, <2>1, MergeAllGrows
    <2>3. \A c \in Column : prior.pairs[c] = e.pairs[c]
      <3>1. TAKE c \in Column
      <3>2. PairedDelta(row.words[c], row.entries[c], found[c] \o FlatCandidates(more)[c]) = <<>>
        BY <1>13, <2>1
      <3>3. PairedDelta(row.words[c], row.entries[c], found[c]) = <<>>
        BY <1>11, <3>2, PairedGrows
      <3> QED
        BY <1>12, <2>1, <3>3
    <2>4. prior.senses = e.senses
      BY <1>3, <2>1, <2>2
    <2> QED
      BY <1>1, <1>2, <1>13, <1>15, <2>1, <2>3, <2>4 DEF Represents
  <1> QED
    BY <1>16, <1>17

\* A row with the senses that the patches give and the words that were found.
Yields(row, result, patches, found) ==
    /\ Relations(result.senses) = Relations(MergeSenses(row.senses, patches))
    /\ \A c \in Column : result.words[c] = row.words[c] \o
                            PairedDelta(row.words[c], row.entries[c], found[c])

\* Joined to its canonical row, it gives what the patches do.
LEMMA RowReproduces ==
    ASSUME NEW row \in EntryRow, NEW d, NEW patches, NEW found \in Finds,
           Represents(row, d, patches, found), NEW digest,
           NEW result, result = IF d = NoRow THEN row ELSE MergePatch(row, d, digest)
    PROVE  Yields(row, result, patches, found)
  <1>1. row.senses \in Seq(RichSense) /\ Len(row.senses) \in Nat
    BY DEF EntryRow
  <1>2. PICK prior \in DeltaRow : prior = PriorOf(d)
    BY DEF Represents
  <1>3. Relations(MergeSenses(row.senses, prior.senses)) = Relations(MergeSenses(row.senses, patches))
    BY <1>1, <1>2, StandsUnique DEF Represents
  <1>4. \A c \in Column : prior.pairs[c] = PairedDelta(row.words[c], row.entries[c], found[c])
    BY <1>2 DEF Represents
  <1>5. \A c \in Column : /\ row.words[c] \in Seq(Lexeme) /\ row.entries[c] \in Seq(RichEntry)
                          /\ found[c] \in Seq(Lexeme)
    BY DEF EntryRow, RichEntry, Finds
  <1>6. CASE d = NoRow
    <2>1. prior = NoDelta /\ result = row
      BY <1>2, <1>6 DEF PriorOf
    <2>2. prior.senses = <<>> /\ \A c \in Column : prior.pairs[c] = <<>>
      BY <2>1 DEF NoDelta
    <2>3. \A s \in Seq(Lexeme) : s \o <<>> = s
      OBVIOUS
    <2>4. \A c \in Column : result.words[c] = row.words[c] \o prior.pairs[c]
      BY <1>5, <2>1, <2>2, <2>3
    <2> QED
      BY <1>3, <1>4, <2>1, <2>2, <2>4, MergeSensesNone DEF Yields
  <1>7. CASE d # NoRow
    <2>1. prior = d /\ result = MergePatch(row, d, digest)
      BY <1>2, <1>7 DEF PriorOf
    <2>2. result.senses = MergeSenses(row.senses, d.senses)
      BY <2>1 DEF MergePatch
    <2>3. \A c \in Column : result.words[c] = MergePair(row.words[c], row.entries[c], d.pairs[c]).words
      BY <2>1 DEF MergePatch
    <2>4. \A c \in Column : MergePair(row.words[c], row.entries[c], d.pairs[c]).words
                              = row.words[c] \o d.pairs[c]
      <3>1. TAKE c \in Column
      <3>2. PICK w, n : w = row.words[c] /\ n = row.entries[c]
        OBVIOUS
      <3>3. PICK f, p : f = found[c] /\ p = d.pairs[c]
        OBVIOUS
      <3>4. w \in Seq(Lexeme) /\ n \in Seq(RichEntry) /\ f \in Seq(Lexeme) /\ p = PairedDelta(w, n, f)
        BY <1>4, <1>5, <2>1, <3>2, <3>3
      <3>5. MergePair(w, n, p).words = w \o p
        BY <3>4, PairedMerged
      <3> QED
        BY <3>2, <3>3, <3>5
    <2> QED
      BY <1>3, <1>4, <2>1, <2>2, <2>3, <2>4 DEF Yields
  <1> QED
    BY <1>6, <1>7

-----------------------------------------------------------------------------
(* What the records of a dump say of an entry.                             *)

LEMMA FlattenNone == FlattenSeq(<<>>) = <<>>
  <1>1. <<>> \in Seq(Seq({}))
    OBVIOUS
  <1>2. FlattenSeq(<<>>) \in Seq({})
    BY <1>1, FlattenType
  <1> QED
    BY <1>2

LEMMA FlattenNothing ==
    ASSUME NEW s, NEW n \in Nat, DOMAIN s = 1 .. n, s = [i \in 1 .. n |-> s[i]],
           \A i \in 1 .. n : s[i] = <<>>
    PROVE  FlattenSeq(s) = <<>>
  <1>1. s \in Seq(Seq({}))
    <2>1. <<>> \in Seq({})
      OBVIOUS
    <2>2. s \in [1 .. n -> Seq({})]
      BY <2>1
    <2> QED
      BY <2>2
  <1>2. FlattenSeq(s) \in Seq({})
    BY <1>1, FlattenType
  <1> QED
    BY <1>2

\* The flattening of one list more.
LEMMA FlattenMore ==
    ASSUME NEW V, NEW n \in Nat, NEW s, DOMAIN s = 1 .. n, s \in Seq(Seq(V)),
           NEW longer \in Seq(Seq(V)), DOMAIN longer = 1 .. (n + 1), \A i \in 1 .. n : longer[i] = s[i]
    PROVE  FlattenSeq(longer) = FlattenSeq(s) \o longer[n + 1]
  <1>1. Len(s) = n /\ Len(longer) = n + 1 /\ longer[n + 1] \in Seq(V)
    OBVIOUS
  <1>2. PICK k \in Nat \ {0} : k = n + 1 /\ k - 1 = n
    OBVIOUS
  <1>3. FlattenSeq(longer) = IF k = 1 THEN longer[1] ELSE FlattenSeq(s) \o longer[k]
    <2>1. longer \in Seq(Seq(V)) /\ k = Len(longer) /\ Len(s) = k - 1
      BY <1>1, <1>2
    <2>2. \A i \in 1 .. k - 1 : s[i] = longer[i]
      BY <1>2
    <2> QED
      BY <2>1, <2>2, FlattenStep
  <1>4. CASE n = 0
    <2>1. s = <<>>
      BY <1>1, <1>4
    <2>2. FlattenSeq(s) = <<>>
      BY <2>1, FlattenNone
    <2>3. FlattenSeq(longer) = longer[1]
      BY <1>2, <1>3, <1>4
    <2>4. \A x \in Seq(V) : <<>> \o x = x
      OBVIOUS
    <2> QED
      BY <1>1, <1>4, <2>2, <2>3, <2>4
  <1>5. CASE n # 0
    BY <1>2, <1>3, <1>5
  <1> QED
    BY <1>4, <1>5

\* What the records of a dump say of one entry.
Said(r, e) == IF r.key = e THEN r.patches ELSE <<>>

LEMMA SaidType ==
    ASSUME NEW r \in Records, NEW e PROVE Said(r, e) \in Seq(Relating) /\ r.patches \in Seq(Relating)
  <1>1. r.patches \in Seq(Patch) /\ \A n \in DOMAIN r.patches : Relates(r.patches[n])
    BY DeltaTypes, PatchesRelate DEF Relates
  <1>2. PICK p \in Seq(Patch) : p = r.patches
    BY <1>1
  <1>3. PICK n \in Nat : n = Len(p) /\ DOMAIN p = 1 .. n /\ \A i \in 1 .. n : p[i] \in Patch
    BY ElementOfSeq, LenProperties
  <1>4. \A i \in 1 .. n : p[i] \in Relating
    BY <1>1, <1>2, <1>3 DEF Relating
  <1>5. p = [i \in 1 .. n |-> p[i]]
    BY <1>3
  <1>6. p \in Seq(Relating)
    BY <1>4, <1>5
  <1>7. <<>> \in Seq(Relating)
    OBVIOUS
  <1> QED
    BY <1>2, <1>6, <1>7 DEF Said

LEMMA RecordsOfType ==
    ASSUME NEW records \in Seq(Records), NEW e PROVE RecordsOf(records, e) \in Seq(Relating)
  <1>1. PICK n \in Nat : n = Len(records) /\ DOMAIN records = 1 .. n /\ \A i \in 1 .. n : records[i] \in Records
    BY ElementOfSeq, LenProperties
  <1>2. PICK s : s = [i \in 1 .. n |-> Said(records[i], e)]
    OBVIOUS
  <1>3. s \in Seq(Seq(Relating))
    BY <1>1, <1>2, SaidType
  <1>4. RecordsOf(records, e) = FlattenSeq(s)
    BY <1>1, <1>2 DEF RecordsOf, Said
  <1> QED
    BY <1>3, <1>4, FlattenType

LEMMA RecordsOfNone == ASSUME NEW e PROVE RecordsOf(<<>>, e) = <<>>
  <1>1. PICK s : s = [n \in DOMAIN <<>> |-> IF <<>>[n].key = e THEN <<>>[n].patches ELSE <<>>]
    OBVIOUS
  <1>2. DOMAIN <<>> = 1 .. 0
    OBVIOUS
  <1>3. s = <<>>
    BY <1>1, <1>2
  <1>4. RecordsOf(<<>>, e) = FlattenSeq(s)
    BY <1>1 DEF RecordsOf
  <1> QED
    BY <1>3, <1>4, FlattenNone

LEMMA RecordsOfMore ==
    ASSUME NEW records \in Seq(Records), NEW r \in Records, NEW e
    PROVE  RecordsOf(Append(records, r), e) = RecordsOf(records, e) \o Said(r, e)
  <1>1. PICK n \in Nat : n = Len(records) /\ DOMAIN records = 1 .. n /\ \A i \in 1 .. n : records[i] \in Records
    BY ElementOfSeq, LenProperties
  <1>2. PICK more : more = Append(records, r)
    OBVIOUS
  <1>3. /\ more \in Seq(Records) /\ DOMAIN more = 1 .. (n + 1) /\ more[n + 1] = r
        /\ \A i \in 1 .. n : more[i] = records[i]
    <2>1. /\ more \in Seq(Records) /\ Len(more) = n + 1 /\ more[n + 1] = r
          /\ \A i \in 1 .. n : more[i] = records[i]
      BY <1>1, <1>2, AppendFacts
    <2> QED
      BY <2>1
  <1>4. PICK s, t : /\ s = [i \in 1 .. n |-> Said(records[i], e)]
                    /\ t = [i \in 1 .. (n + 1) |-> Said(more[i], e)]
    OBVIOUS
  <1>5. RecordsOf(records, e) = FlattenSeq(s) /\ RecordsOf(more, e) = FlattenSeq(t)
    BY <1>1, <1>3, <1>4 DEF RecordsOf, Said
  <1>6. \A i \in 1 .. (n + 1) : more[i] \in Records
    BY <1>3, ElementOfSeq
  <1>7. s \in Seq(Seq(Relating)) /\ DOMAIN s = 1 .. n
    BY <1>1, <1>4, SaidType
  <1>8. t \in Seq(Seq(Relating)) /\ DOMAIN t = 1 .. (n + 1)
    <2>1. PICK k \in Nat : k = n + 1 /\ t = [i \in 1 .. k |-> Said(more[i], e)]
      BY <1>4
    <2>2. \A i \in 1 .. k : Said(more[i], e) \in Seq(Relating)
      BY <1>6, <2>1, SaidType
    <2>3. t \in Seq(Seq(Relating)) /\ DOMAIN t = 1 .. k
      BY <2>1, <2>2
    <2> QED
      BY <2>1, <2>3
  <1>9. (\A i \in 1 .. n : t[i] = s[i]) /\ t[n + 1] = Said(r, e)
    BY <1>3, <1>4
  <1>10. FlattenSeq(t) = FlattenSeq(s) \o t[n + 1]
    BY <1>7, <1>8, <1>9, FlattenMore
  <1> QED
    BY <1>2, <1>5, <1>9, <1>10

\* A run without patches yields no words.
LEMMA NoCandidates == \A c \in Column : FlatCandidates(<<>>)[c] = <<>>
  <1>1. PICK n \in Nat : /\ n = Len(SemanticFields) /\ DOMAIN SemanticFields = 1 .. n
                         /\ \A i \in 1 .. n : SemanticFields[i] \in RelationField
    BY DeltaTypes, ElementOfSeq, LenProperties
  <1>2. \A f : WordsOf(<<>>, f) = <<>>
    <2>1. TAKE f
    <2>2. PICK s : s = [n2 \in DOMAIN <<>> |-> <<>>[n2].relations[f]]
      OBVIOUS
    <2>3. DOMAIN <<>> = 1 .. 0
      OBVIOUS
    <2>4. s = <<>>
      BY <2>2, <2>3
    <2>5. WordsOf(<<>>, f) = FlattenSeq(s)
      BY <2>2 DEF WordsOf
    <2> QED
      BY <2>4, <2>5, FlattenNone
  <1>3. PICK lists : lists = [i \in 1 .. n |-> WordsOf(<<>>, SemanticFields[i])]
    OBVIOUS
  <1>4. DOMAIN lists = 1 .. n /\ lists = [i \in 1 .. n |-> lists[i]] /\ \A i \in 1 .. n : lists[i] = <<>>
    BY <1>2, <1>3
  <1>5. FlattenSeq(lists) = <<>>
    BY <1>4, FlattenNothing
  <1>6. RelatedWords(<<>>) = FoldLeft(AddDefined, <<>>, <<>>)
    BY <1>1, <1>3, <1>5 DEF RelatedWords
  <1>7. RelatedWords(<<>>) = <<>>
    BY <1>6, Defs!FoldEmpty, DefsSame
  <1>8. FoldLeft(AddPhrase, <<>>, <<>>) = <<>>
    BY Phrases!FoldEmpty, PhrasesSame
  <1> QED
    BY <1>7, <1>8 DEF FlatCandidates

-----------------------------------------------------------------------------
\* The words of a dump, run by run.
PieceOf(records, e, c, n) ==
    IF records[n].key = e /\ n \in RunEnds(records)
    THEN FlatCandidates(RecordsOf(RunTo(records, n), e))[c] ELSE <<>>
FoundTo(records, e, n) ==
    [c \in Column |-> FlattenSeq([i \in 1 .. n |-> PieceOf(records, e, c, i)])]

LEMMA RunToType ==
    ASSUME NEW records \in Seq(Records), NEW n \in 1 .. Len(records)
    PROVE  RunTo(records, n) \in Seq(Records)
  <1> DEFINE within == {m \in 1 .. n : \A k \in m .. n : records[k].key = records[n].key}
  <1>1. within \subseteq Nat /\ n \in within
    <2>1. \A k \in n .. n : k = n
      OBVIOUS
    <2> QED
      BY <2>1
  <1>2. PICK m \in within : \A k \in within : m <= k
    <2> HIDE DEF within
    <2> QED
      BY <1>1, LeastNumber
  <1>3. Min(within) \in within
    <2> HIDE DEF within
    <2>1. \A x \in within : x \in Nat
      BY <1>1
    <2> QED
      BY <1>2, <2>1 DEF Min
  <1>4. RunTo(records, n) = SubSeq(records, Min(within), n)
    BY DEF RunTo
  <1>5. PICK k : k = Min(within)
    OBVIOUS
  <1>6. k \in 1 .. n
    BY <1>3, <1>5
  <1>7. SubSeq(records, k, n) \in Seq(Records)
    BY <1>6
  <1> QED
    BY <1>4, <1>5, <1>7

LEMMA PieceType ==
    ASSUME NEW records \in Seq(Records), NEW n \in 1 .. Len(records), NEW e, NEW c \in Column
    PROVE  PieceOf(records, e, c, n) \in Seq(Lexeme)
  <1>1. RecordsOf(RunTo(records, n), e) \in Seq(Patch)
    BY RunToType, RecordsOfType, RelatingSeq
  <1>2. <<>> \in Seq(Lexeme)
    OBVIOUS
  <1> QED
    BY <1>1, <1>2, CandidatesType DEF PieceOf

LEMMA FoundNext ==
    ASSUME NEW records \in Seq(Records), NEW n \in Nat, n + 1 <= Len(records), NEW e
    PROVE  /\ FoundTo(records, e, n) \in Finds /\ FoundTo(records, e, n + 1) \in Finds
           /\ \A c \in Column : FoundTo(records, e, n + 1)[c]
                                  = FoundTo(records, e, n)[c] \o PieceOf(records, e, c, n + 1)
  <1>1. ASSUME NEW c \in Column
        PROVE  /\ FoundTo(records, e, n)[c] \in Seq(Lexeme) /\ FoundTo(records, e, n + 1)[c] \in Seq(Lexeme)
               /\ FoundTo(records, e, n + 1)[c] = FoundTo(records, e, n)[c] \o PieceOf(records, e, c, n + 1)
    <2>1. PICK s, t : /\ s = [i \in 1 .. n |-> PieceOf(records, e, c, i)]
                      /\ t = [i \in 1 .. (n + 1) |-> PieceOf(records, e, c, i)]
      OBVIOUS
    <2>2. \A i \in 1 .. (n + 1) : PieceOf(records, e, c, i) \in Seq(Lexeme)
      <3>1. TAKE i \in 1 .. (n + 1)
      <3>2. i \in 1 .. Len(records)
        OBVIOUS
      <3> QED
        BY <3>2, PieceType
    <2>3. s \in Seq(Seq(Lexeme)) /\ DOMAIN s = 1 .. n
      <3>1. \A i \in 1 .. n : i \in 1 .. (n + 1)
        OBVIOUS
      <3> QED
        BY <2>1, <2>2, <3>1
    <2>4. t \in Seq(Seq(Lexeme)) /\ DOMAIN t = 1 .. (n + 1)
      BY <2>1, <2>2
    <2>5. (\A i \in 1 .. n : t[i] = s[i]) /\ t[n + 1] = PieceOf(records, e, c, n + 1)
      BY <2>1
    <2>6. FlattenSeq(t) = FlattenSeq(s) \o t[n + 1]
      BY <2>3, <2>4, <2>5, FlattenMore
    <2>7. FlattenSeq(s) \in Seq(Lexeme) /\ FlattenSeq(t) \in Seq(Lexeme)
      BY <2>3, <2>4, FlattenType
    <2>8. FoundTo(records, e, n)[c] = FlattenSeq(s) /\ FoundTo(records, e, n + 1)[c] = FlattenSeq(t)
      BY <2>1 DEF FoundTo
    <2> QED
      BY <2>5, <2>6, <2>7, <2>8
  <1>2. \A m : FoundTo(records, e, m) = [c \in Column |-> FoundTo(records, e, m)[c]]
    BY DEF FoundTo
  <1> QED
    BY <1>1, <1>2 DEF Finds

LEMMA FoundNone ==
    ASSUME NEW records, NEW e
    PROVE  FoundTo(records, e, 0) \in Finds /\ \A c \in Column : FoundTo(records, e, 0)[c] = <<>>
  <1>1. ASSUME NEW c \in Column PROVE FoundTo(records, e, 0)[c] = <<>>
    <2>1. PICK s : s = [i \in 1 .. 0 |-> PieceOf(records, e, c, i)]
      OBVIOUS
    <2>2. s = <<>>
      BY <2>1
    <2>3. FoundTo(records, e, 0)[c] = FlattenSeq(s)
      BY <2>1 DEF FoundTo
    <2> QED
      BY <2>2, <2>3, FlattenNone
  <1>2. FoundTo(records, e, 0) = [c \in Column |-> FoundTo(records, e, 0)[c]]
    BY DEF FoundTo
  <1>3. <<>> \in Seq(Lexeme)
    OBVIOUS
  <1> QED
    BY <1>1, <1>2, <1>3 DEF Finds

LEMMA FoundAll ==
    ASSUME NEW records \in Seq(Records), NEW e
    PROVE  \A c \in Column : FoundTo(records, e, Len(records))[c] = CandidatesOf(records, e, c)
  <1>1. DOMAIN records = 1 .. Len(records)
    OBVIOUS
  <1> QED
    BY <1>1 DEF FoundTo, CandidatesOf, PieceOf

\* The run that ends with a record, when the record before it is of another entry.
LEMMA RunFrom ==
    ASSUME NEW records \in Seq(Records), NEW n \in 1 .. Len(records), NEW m \in Nat, m < n,
           m > 0 => records[m + 1].key # records[m].key,
           NEW key, \A k \in m + 1 .. n : records[k].key = key
    PROVE  RunTo(records, n) = SubSeq(records, m + 1, n)
  <1> DEFINE within == {l \in 1 .. n : \A k \in l .. n : records[k].key = records[n].key}
  <1>1. m + 1 \in within
    <2>1. n \in m + 1 .. n /\ m + 1 \in 1 .. n
      OBVIOUS
    <2> QED
      BY <2>1
  <1>2. \A l \in within : m + 1 <= l
    <2>1. SUFFICES ASSUME NEW l \in within, l <= m PROVE FALSE
      OBVIOUS
    <2>2. m > 0 /\ m \in l .. n /\ m + 1 \in m + 1 .. n /\ n \in m + 1 .. n
      BY <2>1
    <2>3. records[m].key = records[n].key
      BY <2>1, <2>2
    <2> QED
      BY <2>2, <2>3
  <1>3. Min(within) = m + 1
    <2>1. \A l \in within : l \in Nat
      OBVIOUS
    <2> HIDE DEF within
    <2> QED
      BY <1>1, <1>2, <2>1 DEF Min
  <1> QED
    BY <1>3 DEF RunTo

-----------------------------------------------------------------------------
(* What the builder has staged.                                            *)

PatchesTo(records, e, n) == RecordsOf(SubSeq(records, 1, n), e)

\* The builder has read the records before its line.  Those after the m-th are of the
\* term it is at; what the others gave is staged.
ScannedTo(rows, records, b, m, l) ==
    /\ l \in Nat /\ b.line = l + 1 /\ l <= Len(records) /\ m \in Nat
    /\ (l = 0 /\ m = 0) \/ m < l
    /\ m > 0 => records[m + 1].key # records[m].key
    /\ \A k \in m + 1 .. l : records[k].key = b.key
    /\ b.patches = RecordsOf(SubSeq(records, m + 1, l), b.key) /\ b.patches \in Seq(Relating)
    /\ \A e : PatchesTo(records, e, l) = PatchesTo(records, e, m) \o (IF e = b.key THEN b.patches ELSE <<>>)
    /\ l > 0 => \A e : FoundTo(records, e, l - 1) = FoundTo(records, e, m)
    /\ \A e \in b.range \cap DOMAIN rows :
          Represents(rows[e], b.staged[e], PatchesTo(records, e, m), FoundTo(records, e, m))

Imported(rows) == \A e \in DOMAIN rows : rows[e] \in EntryRow /\ AsImported(rows[e].senses)

LEMMA RepresentsSame ==
    ASSUME NEW row, NEW d, NEW patches, NEW found, NEW other, Represents(row, d, patches, found),
           \A c \in Column : other[c] = found[c]
    PROVE  Represents(row, d, patches, other)
  BY DEF Represents

LEMMA SubSeqMore ==
    ASSUME NEW records \in Seq(Records), NEW m \in Nat, NEW l \in Nat, m <= l, l < Len(records)
    PROVE  /\ SubSeq(records, m + 1, l) \in Seq(Records) /\ records[l + 1] \in Records
           /\ SubSeq(records, m + 1, l + 1) = Append(SubSeq(records, m + 1, l), records[l + 1])
  <1>1. SubSeq(records, m + 1, l) \in Seq(Records) /\ records[l + 1] \in Records
    OBVIOUS
  <1>2. SubSeq(records, m + 1, l + 1) = Append(SubSeq(records, m + 1, l), records[l + 1])
    OBVIOUS
  <1> QED
    BY <1>1, <1>2

LEMMA SaidUpTo ==
    ASSUME NEW records \in Seq(Records), NEW m \in Nat, NEW l \in Nat, m <= l, l < Len(records), NEW e
    PROVE  /\ RecordsOf(SubSeq(records, m + 1, l + 1), e)
                = RecordsOf(SubSeq(records, m + 1, l), e) \o Said(records[l + 1], e)
           /\ RecordsOf(SubSeq(records, m + 1, l), e) \in Seq(Relating)
           /\ Said(records[l + 1], e) \in Seq(Relating)
  <1>1. PICK front : front = SubSeq(records, m + 1, l)
    OBVIOUS
  <1>2. PICK r : r = records[l + 1]
    OBVIOUS
  <1>3. /\ front \in Seq(Records) /\ r \in Records
        /\ SubSeq(records, m + 1, l + 1) = Append(front, r)
    BY <1>1, <1>2, SubSeqMore
  <1>4. RecordsOf(Append(front, r), e) = RecordsOf(front, e) \o Said(r, e)
    BY <1>3, RecordsOfMore
  <1> QED
    BY <1>1, <1>2, <1>3, <1>4, RecordsOfType, SaidType

\* What is found by the l-th record, where the run after the m-th ends.
FoundThrough(records, b, m, l, e) ==
    /\ FoundTo(records, e, l) \in Finds /\ FoundTo(records, e, m) \in Finds
    /\ \A c \in Column : FoundTo(records, e, l)[c] = FoundTo(records, e, m)[c] \o
                             (IF e = b.key THEN FlatCandidates(b.patches)[c] ELSE <<>>)

Ends(records, b, l) == l = Len(records) \/ records[l + 1].key # b.key

\* The run that has ended.
LEMMA RunEnded ==
    ASSUME NEW rows, NEW records \in Seq(Records), NEW b, NEW m, NEW l,
           ScannedTo(rows, records, b, m, l), l > 0,
           Ends(records, b, l), NEW e
    PROVE  FoundThrough(records, b, m, l, e)
  <1>1. /\ l \in Nat /\ m \in Nat /\ m < l /\ l <= Len(records) /\ l \in 1 .. Len(records)
        /\ m > 0 => records[m + 1].key # records[m].key
        /\ \A k \in m + 1 .. l : records[k].key = b.key
        /\ b.patches = RecordsOf(SubSeq(records, m + 1, l), b.key)
        /\ FoundTo(records, e, l - 1) = FoundTo(records, e, m)
    BY DEF ScannedTo
  <1>2. records[l].key = b.key
    <2>1. l \in m + 1 .. l
      BY <1>1
    <2> QED
      BY <1>1, <2>1
  <1>3. l \in RunEnds(records)
    <2>1. l \in DOMAIN records
      BY <1>1
    <2> QED
      BY <1>2, <2>1 DEF RunEnds, Ends
  <1>4. RunTo(records, l) = SubSeq(records, m + 1, l)
    BY <1>1, RunFrom
  <1>5. \A c \in Column : PieceOf(records, e, c, l) = IF e = b.key THEN FlatCandidates(b.patches)[c] ELSE <<>>
    BY <1>1, <1>2, <1>3, <1>4 DEF PieceOf
  <1>6. PICK k \in Nat : k = l - 1 /\ k + 1 = l
    BY <1>1
  <1>7. /\ FoundTo(records, e, k) \in Finds /\ FoundTo(records, e, l) \in Finds
        /\ \A c \in Column : FoundTo(records, e, l)[c] = FoundTo(records, e, k)[c] \o PieceOf(records, e, c, l)
    BY <1>1, <1>6, FoundNext
  <1>8. FoundTo(records, e, k) = FoundTo(records, e, m)
    BY <1>1, <1>6
  <1> QED
    BY <1>5, <1>7, <1>8 DEF FoundThrough

Flushes(rows, b, f) ==
    /\ f.patches = <<>> /\ f.line = b.line /\ f.key = b.key /\ f.range = b.range /\ DOMAIN f = DOMAIN b
    /\ DOMAIN f.staged = DOMAIN rows
    /\ \A e \in DOMAIN rows :
          LET d == MergeDelta(rows[e], b.staged[e], ChunkDelta(rows[e], b.patches))
          IN f.staged[e] = IF e = b.key /\ e \in b.range /\ b.patches # <<>> /\ HasChanges(rows[e], d)
                           THEN d ELSE b.staged[e]

LEMMA FlushedFacts ==
    ASSUME NEW b, DOMAIN b = {"pc", "line", "key", "patches", "staged", "range", "identity"},
           DOMAIN b.staged = DOMAIN canonical,
           NEW f, f = Flushed(b)
    PROVE  Flushes(canonical, b, f)
  <1>1. CASE b.key \notin b.range \cap DOMAIN canonical \/ b.patches = <<>>
    BY <1>1 DEF Flushed, Flushes
  <1>2. CASE b.key \in b.range \cap DOMAIN canonical /\ b.patches # <<>>
    <2>1. PICK d : d = MergeDelta(canonical[b.key], b.staged[b.key], ChunkDelta(canonical[b.key], b.patches))
      OBVIOUS
    <2>2. PICK x : x = IF HasChanges(canonical[b.key], d) THEN d ELSE b.staged[b.key]
      OBVIOUS
    <2>3. f = [b EXCEPT !.patches = <<>>, !.staged[b.key] = x]
      BY <1>2, <2>1, <2>2 DEF Flushed
    <2>4. /\ f.patches = <<>> /\ f.line = b.line /\ f.key = b.key /\ f.range = b.range /\ DOMAIN f = DOMAIN b
          /\ f.staged = [b.staged EXCEPT ![b.key] = x]
      BY <2>3
    <2>5. /\ DOMAIN f.staged = DOMAIN canonical
          /\ \A e \in DOMAIN canonical : f.staged[e] = IF e = b.key THEN x ELSE b.staged[e]
      BY <1>2, <2>4
    <2> QED
      BY <1>2, <2>1, <2>2, <2>4, <2>5 DEF Flushes
  <1> QED
    BY <1>1, <1>2

\* Flushed, the staged rows stand for all that was read.
LEMMA FlushedScan ==
    ASSUME NEW rows, Imported(rows), NEW records \in Seq(Records), NEW b, NEW m, NEW l, ScannedTo(rows, records, b, m, l),
           Ends(records, b, l), NEW f, Flushes(rows, b, f)
    PROVE  \A e \in b.range \cap DOMAIN rows :
              Represents(rows[e], f.staged[e], PatchesTo(records, e, l), FoundTo(records, e, l))
  <1> TAKE e \in b.range \cap DOMAIN rows
  <1>1. PICK row \in EntryRow : row = rows[e] /\ AsImported(row.senses)
    BY DEF Imported
  <1>2. Represents(row, b.staged[e], PatchesTo(records, e, m), FoundTo(records, e, m))
    BY <1>1 DEF ScannedTo
  <1>3. b.patches \in Seq(Relating) /\ l \in Nat /\ m \in Nat /\ m <= l /\ l <= Len(records)
    BY DEF ScannedTo
  <1>4. PatchesTo(records, e, m) \in Seq(Relating)
    <2>1. SubSeq(records, 1, m) \in Seq(Records)
      BY <1>3, SubSeqFacts
    <2> QED
      BY <2>1, RecordsOfType DEF PatchesTo
  <1>5. CASE l = 0
    <2>1. m = l
      BY <1>5 DEF ScannedTo
    <2>2. b.patches = <<>>
      <3>1. SubSeq(records, m + 1, l) = <<>>
        BY <1>5, <2>1
      <3> QED
        BY <3>1, RecordsOfNone DEF ScannedTo
    <2>3. f.staged[e] = b.staged[e]
      BY <2>2 DEF Flushes
    <2> QED
      BY <1>1, <1>2, <2>1, <2>3
  <1>6. CASE l # 0
    <2>1. /\ FoundTo(records, e, l) \in Finds /\ FoundTo(records, e, m) \in Finds
          /\ \A c \in Column : FoundTo(records, e, l)[c] = FoundTo(records, e, m)[c] \o
                                  (IF e = b.key THEN FlatCandidates(b.patches)[c] ELSE <<>>)
      <3>1. l > 0
        BY <1>3, <1>6
      <3>2. FoundThrough(records, b, m, l, e)
        BY <3>1, RunEnded
      <3> QED
        BY <3>2 DEF FoundThrough
    <2>2. PatchesTo(records, e, l) = PatchesTo(records, e, m) \o (IF e = b.key THEN b.patches ELSE <<>>)
      BY DEF ScannedTo
    <2>3. CASE e = b.key /\ b.patches # <<>>
      <3>1. PICK d : d = MergeDelta(row, b.staged[e], ChunkDelta(row, b.patches))
        OBVIOUS
      <3>2. f.staged[e] = IF HasChanges(row, d) THEN d ELSE b.staged[e]
        BY <1>1, <2>3, <3>1 DEF Flushes
      <3>3. \A c \in Column : FoundTo(records, e, l)[c] = FoundTo(records, e, m)[c] \o FlatCandidates(b.patches)[c]
        BY <2>1, <2>3
      <3>4. PatchesTo(records, e, l) = PatchesTo(records, e, m) \o b.patches
        BY <2>2, <2>3
      <3>5. PICK x : x = f.staged[e]
        OBVIOUS
      <3>6. Represents(row, x, PatchesTo(records, e, m) \o b.patches, FoundTo(records, e, l))
        BY <1>1, <1>2, <1>3, <1>4, <2>1, <3>1, <3>2, <3>3, <3>5, FlushStands
      <3> QED
        BY <1>1, <3>4, <3>5, <3>6
    <2>4. CASE e # b.key \/ b.patches = <<>>
      <3>1. f.staged[e] = b.staged[e]
        BY <2>4 DEF Flushes
      <3>2. \A x \in Seq(Relating) : x \o <<>> = x
        OBVIOUS
      <3>3. \A x \in Seq(Lexeme) : x \o <<>> = x
        OBVIOUS
      <3>4. PatchesTo(records, e, l) = PatchesTo(records, e, m)
        BY <1>4, <2>2, <2>4, <3>2
      <3>5. \A c \in Column : FoundTo(records, e, l)[c] = FoundTo(records, e, m)[c]
        <4>1. TAKE c \in Column
        <4>2. FoundTo(records, e, l)[c] = FoundTo(records, e, m)[c] \o <<>>
          BY <2>1, <2>4, NoCandidates
        <4>3. FoundTo(records, e, m)[c] \in Seq(Lexeme)
          BY <2>1 DEF Finds
        <4> QED
          BY <3>3, <4>2, <4>3
      <3>6. Represents(row, b.staged[e], PatchesTo(records, e, m), FoundTo(records, e, l))
        BY <1>2, <3>5, RepresentsSame
      <3> QED
        BY <1>1, <3>1, <3>4, <3>6
    <2> QED
      BY <2>3, <2>4
  <1> QED
    BY <1>5, <1>6

-----------------------------------------------------------------------------
(* The builder reads on.                                                   *)

\* A term that goes on has not ended its run.
LEMMA RunGoesOn ==
    ASSUME NEW records \in Seq(Records), NEW l \in Nat \ {0}, l < Len(records),
           records[l + 1].key = records[l].key, NEW e
    PROVE  FoundTo(records, e, l) = FoundTo(records, e, l - 1)
  <1>1. PICK k \in Nat : k = l - 1 /\ k + 1 = l
    OBVIOUS
  <1>2. k + 1 <= Len(records)
    BY <1>1
  <1>3. /\ FoundTo(records, e, k) \in Finds /\ FoundTo(records, e, l) \in Finds
        /\ \A c \in Column : FoundTo(records, e, l)[c] = FoundTo(records, e, k)[c] \o PieceOf(records, e, c, l)
    BY <1>1, <1>2, FoundNext
  <1>4. l \notin RunEnds(records)
    BY DEF RunEnds
  <1>5. \A c \in Column : PieceOf(records, e, c, l) = <<>>
    BY <1>4 DEF PieceOf
  <1>6. \A x \in Seq(Lexeme) : x \o <<>> = x
    OBVIOUS
  <1>7. \A c \in Column : FoundTo(records, e, l)[c] = FoundTo(records, e, k)[c]
    BY <1>3, <1>5, <1>6 DEF Finds
  <1> QED
    BY <1>1, <1>3, <1>7 DEF Finds

LEMMA PatchesNext ==
    ASSUME NEW records \in Seq(Records), NEW l \in Nat, l < Len(records), NEW e
    PROVE  /\ PatchesTo(records, e, l + 1) = PatchesTo(records, e, l) \o Said(records[l + 1], e)
           /\ PatchesTo(records, e, l) \in Seq(Relating)
  <1>1. PICK z \in Nat : z = 0 /\ z + 1 = 1 /\ z <= l
    OBVIOUS
  <1>2. /\ RecordsOf(SubSeq(records, z + 1, l + 1), e)
             = RecordsOf(SubSeq(records, z + 1, l), e) \o Said(records[l + 1], e)
        /\ RecordsOf(SubSeq(records, z + 1, l), e) \in Seq(Relating)
    BY <1>1, SaidUpTo
  <1> QED
    BY <1>1, <1>2 DEF PatchesTo

\* Another record of the term the builder is at.
LEMMA ReadOn ==
    ASSUME NEW rows, NEW records \in Seq(Records), NEW b, NEW m, NEW l, ScannedTo(rows, records, b, m, l),
           l < Len(records), records[l + 1].key = b.key,
           NEW c, c.line = b.line + 1, c.range = b.range, c.key = b.key, c.staged = b.staged,
           c.patches = b.patches \o records[l + 1].patches
    PROVE  ScannedTo(rows, records, c, m, l + 1)
  <1>1. PICK r : r = records[l + 1]
    OBVIOUS
  <1>2. PICK n \in Nat : n = l + 1
    BY DEF ScannedTo
  <1>3. /\ l \in Nat /\ m \in Nat /\ b.line = l + 1 /\ ((l = 0 /\ m = 0) \/ m < l)
        /\ m > 0 => records[m + 1].key # records[m].key
        /\ \A k \in m + 1 .. l : records[k].key = b.key
        /\ b.patches = RecordsOf(SubSeq(records, m + 1, l), b.key) /\ b.patches \in Seq(Relating)
        /\ \A e : PatchesTo(records, e, l) = PatchesTo(records, e, m) \o (IF e = b.key THEN b.patches ELSE <<>>)
        /\ l > 0 => \A e : FoundTo(records, e, l - 1) = FoundTo(records, e, m)
        /\ \A e \in b.range \cap DOMAIN rows :
              Represents(rows[e], b.staged[e], PatchesTo(records, e, m), FoundTo(records, e, m))
    BY DEF ScannedTo
  <1>4. r \in Records /\ r.patches \in Seq(Relating) /\ r.key = b.key
    <2>1. l + 1 \in 1 .. Len(records)
      BY <1>3
    <2>2. r \in Records
      BY <1>1, <2>1
    <2> QED
      BY <1>1, <2>2, SaidType
  <1>5. n <= Len(records) /\ c.line = n + 1 /\ m < n
    BY <1>2, <1>3
  <1>6. \A k \in m + 1 .. n : records[k].key = c.key
    <2>1. TAKE k \in m + 1 .. n
    <2>2. k \in m + 1 .. l \/ k = l + 1
      BY <1>2, <1>3
    <2> QED
      BY <1>1, <1>3, <1>4, <2>2
  <1>7. c.patches = RecordsOf(SubSeq(records, m + 1, n), c.key) /\ c.patches \in Seq(Relating)
    <2>1. m <= l
      BY <1>3
    <2>2. RecordsOf(SubSeq(records, m + 1, l + 1), b.key)
             = RecordsOf(SubSeq(records, m + 1, l), b.key) \o Said(records[l + 1], b.key)
      BY <1>3, <2>1, SaidUpTo
    <2>3. Said(records[l + 1], b.key) = r.patches
      BY <1>1, <1>4 DEF Said
    <2>4. \A x, y \in Seq(Relating) : x \o y \in Seq(Relating)
      OBVIOUS
    <2>5. c.patches = b.patches \o r.patches /\ c.key = b.key
      BY <1>1
    <2>6. c.patches \in Seq(Relating)
      BY <1>3, <1>4, <2>4, <2>5
    <2>7. SubSeq(records, m + 1, n) = SubSeq(records, m + 1, l + 1)
      BY <1>2
    <2> QED
      BY <1>3, <2>2, <2>3, <2>5, <2>6, <2>7
  <1>8. \A e : PatchesTo(records, e, n) = PatchesTo(records, e, m) \o (IF e = c.key THEN c.patches ELSE <<>>)
    <2>1. TAKE e
    <2>2. PatchesTo(records, e, n) = PatchesTo(records, e, l) \o Said(r, e)
      BY <1>1, <1>2, <1>3, PatchesNext
    <2>3. PICK x \in Seq(Relating) : x = PatchesTo(records, e, m)
      <3>1. m < Len(records)
        BY <1>3
      <3> QED
        BY <1>3, <3>1, PatchesNext
    <2>4. PatchesTo(records, e, l) = x \o (IF e = b.key THEN b.patches ELSE <<>>)
      BY <1>3, <2>3
    <2>5. CASE e = b.key
      <3>1. Said(r, e) = r.patches
        BY <1>4, <2>5 DEF Said
      <3>2. PICK y \in Seq(Relating), z \in Seq(Relating) : y = b.patches /\ z = r.patches
        BY <1>3, <1>4
      <3>3. (x \o y) \o z = x \o (y \o z)
        OBVIOUS
      <3> QED
        BY <1>1, <2>2, <2>3, <2>4, <2>5, <3>1, <3>2, <3>3
    <2>6. CASE e # b.key
      <3>1. Said(r, e) = <<>>
        BY <1>4, <2>6 DEF Said
      <3>2. x \o <<>> = x
        OBVIOUS
      <3> QED
        BY <2>2, <2>3, <2>4, <2>6, <3>1, <3>2
    <2> QED
      BY <2>5, <2>6
  <1>9. \A e : FoundTo(records, e, n - 1) = FoundTo(records, e, m)
    <2>1. TAKE e
    <2>2. n - 1 = l
      BY <1>2, <1>3
    <2>3. CASE l = 0
      BY <1>3, <2>2, <2>3
    <2>4. CASE l # 0
      <3>1. l \in Nat \ {0} /\ l > 0 /\ l \in m + 1 .. l
        BY <1>3, <2>4
      <3>2. records[l + 1].key = records[l].key
        BY <1>3, <3>1
      <3>3. FoundTo(records, e, l) = FoundTo(records, e, l - 1)
        BY <3>1, <3>2, RunGoesOn
      <3> QED
        BY <1>3, <2>2, <3>1, <3>3
    <2> QED
      BY <2>3, <2>4
  <1>10. \A e \in c.range \cap DOMAIN rows :
            Represents(rows[e], c.staged[e], PatchesTo(records, e, m), FoundTo(records, e, m))
    BY <1>3
  <1> QED
    BY <1>2, <1>3, <1>5, <1>6, <1>7, <1>8, <1>9, <1>10 DEF ScannedTo

\* The first record of the next term.
LEMMA ReadNext ==
    ASSUME NEW rows, Imported(rows), NEW records \in Seq(Records), NEW b, NEW m, NEW l,
           ScannedTo(rows, records, b, m, l), l < Len(records), records[l + 1].key # b.key,
           NEW f, Flushes(rows, b, f),
           NEW c, c.line = b.line + 1, c.range = b.range, c.key = records[l + 1].key,
           c.staged = f.staged, c.patches = records[l + 1].patches
    PROVE  ScannedTo(rows, records, c, l, l + 1)
  <1>1. PICK r : r = records[l + 1]
    OBVIOUS
  <1>2. PICK n \in Nat : n = l + 1
    BY DEF ScannedTo
  <1>3. /\ l \in Nat /\ m \in Nat /\ b.line = l + 1 /\ ((l = 0 /\ m = 0) \/ m < l)
        /\ \A k \in m + 1 .. l : records[k].key = b.key
    BY DEF ScannedTo
  <1>4. r \in Records /\ r.patches \in Seq(Relating) /\ r.key = c.key
    <2>1. l + 1 \in 1 .. Len(records)
      BY <1>3
    <2>2. r \in Records
      BY <1>1, <2>1
    <2> QED
      BY <1>1, <2>2, SaidType
  <1>5. n <= Len(records) /\ c.line = n + 1 /\ l < n /\ n - 1 = l
    BY <1>2, <1>3
  <1>6. l > 0 => records[l + 1].key # records[l].key
    <2>1. l > 0 => l \in m + 1 .. l
      BY <1>3
    <2> QED
      BY <1>3, <2>1
  <1>7. \A k \in l + 1 .. n : records[k].key = c.key
    <2>1. \A k \in l + 1 .. n : k = l + 1
      BY <1>2, <1>3
    <2> QED
      BY <2>1
  <1>8. c.patches = RecordsOf(SubSeq(records, l + 1, n), c.key) /\ c.patches \in Seq(Relating)
    <2>1. l <= l
      BY <1>3
    <2>2. RecordsOf(SubSeq(records, l + 1, l + 1), c.key)
             = RecordsOf(SubSeq(records, l + 1, l), c.key) \o Said(records[l + 1], c.key)
      BY <1>3, <2>1, SaidUpTo
    <2>3. SubSeq(records, l + 1, l) = <<>>
      BY <1>3
    <2>4. RecordsOf(SubSeq(records, l + 1, l), c.key) = <<>>
      BY <2>3, RecordsOfNone
    <2>5. Said(records[l + 1], c.key) = r.patches
      BY <1>1, <1>4 DEF Said
    <2>6. \A x \in Seq(Relating) : <<>> \o x = x
      OBVIOUS
    <2> QED
      BY <1>1, <1>2, <1>4, <2>2, <2>4, <2>5, <2>6
  <1>9. \A e : PatchesTo(records, e, n) = PatchesTo(records, e, l) \o (IF e = c.key THEN c.patches ELSE <<>>)
    <2>1. TAKE e
    <2>2. PatchesTo(records, e, n) = PatchesTo(records, e, l) \o Said(r, e)
      BY <1>1, <1>2, <1>3, PatchesNext
    <2>3. Said(r, e) = IF e = c.key THEN c.patches ELSE <<>>
      BY <1>1, <1>4 DEF Said
    <2> QED
      BY <2>2, <2>3
  <1>10. \A e \in c.range \cap DOMAIN rows :
            Represents(rows[e], c.staged[e], PatchesTo(records, e, l), FoundTo(records, e, l))
    <2>1. Ends(records, b, l)
      BY DEF Ends
    <2>2. \A e \in b.range \cap DOMAIN rows :
            Represents(rows[e], f.staged[e], PatchesTo(records, e, l), FoundTo(records, e, l))
      BY <2>1, FlushedScan
    <2> QED
      BY <2>2
  <1> QED
    BY <1>2, <1>3, <1>5, <1>6, <1>7, <1>8, <1>9, <1>10 DEF ScannedTo

\* Nothing read.
LEMMA ReadNone ==
    ASSUME NEW rows, Imported(rows), NEW records \in Seq(Records),
           NEW b, b.line = 1, b.patches = <<>>, \A e \in DOMAIN rows : b.staged[e] = NoRow
    PROVE  ScannedTo(rows, records, b, 0, 0)
  <1>1. \A e : PatchesTo(records, e, 0) = <<>>
    <2>1. SubSeq(records, 1, 0) = <<>>
      OBVIOUS
    <2> QED
      BY <2>1, RecordsOfNone DEF PatchesTo
  <1>2. b.patches = RecordsOf(SubSeq(records, 0 + 1, 0), b.key) /\ b.patches \in Seq(Relating)
    <2>1. SubSeq(records, 0 + 1, 0) = <<>>
      OBVIOUS
    <2>2. <<>> \in Seq(Relating)
      OBVIOUS
    <2> QED
      BY <2>1, <2>2, RecordsOfNone
  <1>3. \A e \in b.range \cap DOMAIN rows :
            Represents(rows[e], b.staged[e], PatchesTo(records, e, 0), FoundTo(records, e, 0))
    <2>1. TAKE e \in b.range \cap DOMAIN rows
    <2>2. rows[e] \in EntryRow /\ b.staged[e] = NoRow
      BY DEF Imported
    <2>3. \A c \in Column : FoundTo(records, e, 0)[c] = <<>>
      BY FoundNone
    <2>4. Represents(rows[e], NoRow, <<>>, FoundTo(records, e, 0))
      BY <2>2, <2>3, StandsForNothing
    <2> QED
      BY <1>1, <2>2, <2>4
  <1>4. <<>> \o <<>> = <<>>
    OBVIOUS
  <1>5. \A e : PatchesTo(records, e, 0) = PatchesTo(records, e, 0) \o (IF e = b.key THEN b.patches ELSE <<>>)
    BY <1>1, <1>4
  <1>6. Len(records) \in Nat
    OBVIOUS
  <1> QED
    BY <1>2, <1>3, <1>5, <1>6 DEF ScannedTo

-----------------------------------------------------------------------------
\* The row of the delta that the records of a dump give for an entry.
Reproduces(row, d, records, e, digest) ==
    LET result == IF d = NoRow THEN row ELSE MergePatch(row, d, digest)
    IN /\ Relations(result.senses) = Relations(MergeSenses(row.senses, RecordsOf(records, e)))
       /\ \A c \in Column : result.words[c] = row.words[c] \o
                               PairedDelta(row.words[c], row.entries[c], CandidatesOf(records, e, c))

\* All records read, the rows that are flushed are those of the dump.
LEMMA AllRead ==
    ASSUME NEW rows, Imported(rows), NEW records \in Seq(Records), NEW b, NEW m, NEW l,
           ScannedTo(rows, records, b, m, l), l = Len(records), NEW f, Flushes(rows, b, f),
           NEW e \in b.range \cap DOMAIN rows, NEW digest
    PROVE  Reproduces(rows[e], f.staged[e], records, e, digest)
  <1>1. PICK row, d : row = rows[e] /\ d = f.staged[e]
    OBVIOUS
  <1>2. row \in EntryRow
    BY <1>1 DEF Imported
  <1>3. Represents(row, d, PatchesTo(records, e, l), FoundTo(records, e, l))
    <2>1. Ends(records, b, l)
      BY DEF Ends
    <2>2. \A x \in b.range \cap DOMAIN rows :
            Represents(rows[x], f.staged[x], PatchesTo(records, x, l), FoundTo(records, x, l))
      BY <2>1, FlushedScan
    <2> QED
      BY <1>1, <2>2
  <1>4. PatchesTo(records, e, l) = RecordsOf(records, e)
    <2>1. SubSeq(records, 1, l) = records
      OBVIOUS
    <2> QED
      BY <2>1 DEF PatchesTo
  <1>5. FoundTo(records, e, l) \in Finds
    <2>1. l \in Nat
      OBVIOUS
    <2>2. CASE l = 0
      BY <2>2, FoundNone
    <2>3. CASE l # 0
      <3>1. PICK k \in Nat : k = l - 1 /\ k + 1 = l
        BY <2>1, <2>3
      <3>2. k + 1 <= Len(records)
        BY <2>1, <3>1
      <3>3. FoundTo(records, e, k + 1) \in Finds
        BY <3>2, FoundNext
      <3> QED
        BY <3>1, <3>3
    <2> QED
      BY <2>2, <2>3
  <1>6. \A c \in Column : FoundTo(records, e, l)[c] = CandidatesOf(records, e, c)
    BY FoundAll
  <1>7. PICK result : result = IF d = NoRow THEN row ELSE MergePatch(row, d, digest)
    OBVIOUS
  <1>8. PICK patches, found : patches = PatchesTo(records, e, l) /\ found = FoundTo(records, e, l)
    OBVIOUS
  <1>9. found \in Finds /\ Represents(row, d, patches, found)
    BY <1>3, <1>5, <1>8
  <1>10. Yields(row, result, patches, found)
    BY <1>2, <1>7, <1>9, RowReproduces
  <1> QED
    BY <1>1, <1>4, <1>6, <1>7, <1>8, <1>10 DEF Reproduces, Yields

-----------------------------------------------------------------------------
(* What a builder has staged stands for what it has read of the dump it hashed, if  *)
(* that dump is still there; what it published stands for all of it.                *)

Scanning ==
    build.pc = "scan" =>
        /\ build.identity \in 1 .. Len(dumps)
        /\ build.identity = Len(dumps) => \E m, l : ScannedTo(canonical, Dump, build, m, l)

Delivered ==
    IsDelta =>
        /\ delta.digest \in 1 .. Len(dumps)
        /\ \A e \in delta.range \cap DOMAIN canonical :
              Reproduces(canonical[e], delta.rows[e], dumps[delta.digest], e, delta.digest)

CInv == Imported(canonical) /\ Scanning /\ Delivered

LEMMA InitScan == DeltaInit => CInv
  <1> SUFFICES ASSUME DeltaInit PROVE CInv
    OBVIOUS
  <1>1. PICK s \in Starts : canonical = s.canonical /\ target = s.shard
    BY DEF DeltaInit
  <1>2. Imported(canonical)
    BY <1>1, DeltaTypes, CanonicalAsImported DEF Imported
  <1>3. build.pc = "idle" /\ ~IsDelta
    BY DEF DeltaInit, NoBuild, IsDelta
  <1> QED
    BY <1>2, <1>3 DEF CInv, Scanning, Delivered

LEMMA DumpType == ASSUME Typed PROVE Dump \in Seq(Records) /\ Len(dumps) \in Nat \ {0}
  <1>1. /\ dumps \in Seq(Seq(Records)) /\ Len(dumps) > 0
    BY DEF Typed
  <1>2. Len(dumps) \in 1 .. Len(dumps)
    BY <1>1
  <1> QED
    BY <1>1, <1>2 DEF Dump

LEMMA StartScan ==
    ASSUME AInv, CInv, NEW range \in Ranges, StartBuild(range)
    PROVE  CInv'
  <1>1. /\ UNCHANGED <<canonical, dumps, delta>>
        /\ build' = [NoBuild EXCEPT !.pc = "scan", !.range = range, !.identity = Len(dumps),
                                    !.staged = [e \in DOMAIN canonical |-> NoRow]]
    BY DEF StartBuild
  <1>2. /\ build'.identity = Len(dumps) /\ build'.line = 1 /\ build'.patches = <<>>
        /\ build'.staged = [e \in DOMAIN canonical |-> NoRow]
    BY <1>1 DEF NoBuild
  <1>3. Dump \in Seq(Records) /\ Len(dumps) \in Nat \ {0}
    BY DumpType DEF AInv
  <1>4. PICK b : b = build'
    OBVIOUS
  <1>5. PICK records \in Seq(Records) : records = Dump
    BY <1>3
  <1>5a. PICK rows : rows = canonical
    OBVIOUS
  <1>6. ScannedTo(rows, records, b, 0, 0)
    <2>1. Imported(rows)
      BY <1>5, <1>5a DEF CInv
    <2>2. b.line = 1 /\ b.patches = <<>> /\ \A e \in DOMAIN rows : b.staged[e] = NoRow
      BY <1>2, <1>4, <1>5, <1>5a
    <2> QED
      BY <2>1, <2>2, ReadNone
  <1>7. records = Dump' /\ rows = canonical'
    BY <1>1, <1>5, <1>5a DEF Dump
  <1>8. \E m, l : ScannedTo(canonical', Dump', build', m, l)
    BY <1>4, <1>6, <1>7
  <1>9. Scanning'
    BY <1>1, <1>2, <1>3, <1>8 DEF Scanning
  <1>10. Delivered' /\ Imported(canonical)'
    BY <1>1 DEF CInv, Delivered, IsDelta
  <1> QED
    BY <1>9, <1>10 DEF CInv

LEMMA ReadScan ==
    ASSUME AInv, CInv, ReadRecord
    PROVE  CInv'
  <1>1. /\ build.pc = "scan" /\ build.line <= Len(Dump)
        /\ UNCHANGED <<canonical, dumps, delta>>
    BY DEF ReadRecord
  <1>2. Dump \in Seq(Records) /\ Len(dumps) \in Nat \ {0}
    BY DumpType DEF AInv
  <1>3. PICK records \in Seq(Records) : records = Dump
    BY <1>2
  <1>3a. PICK rows, old : rows = canonical /\ old = build
    OBVIOUS
  <1>4. PICK f : f = Flushed(build)
    OBVIOUS
  <1>5. /\ DOMAIN old = {"pc", "line", "key", "patches", "staged", "range", "identity"}
        /\ DOMAIN old.staged = DOMAIN rows
    BY <1>1, <1>3, <1>3a DEF AInv, DInv, Shapes, SameEntries
  <1>6. Flushes(rows, old, f)
    BY <1>3, <1>3a, <1>4, <1>5, FlushedFacts
  <1>7. f.identity = old.identity /\ f.pc = "scan"
    <2>1. CASE old.key \notin old.range \cap DOMAIN rows \/ old.patches = <<>>
      BY <1>1, <1>3, <1>3a, <1>4, <1>5, <2>1 DEF Flushed
    <2>2. CASE old.key \in old.range \cap DOMAIN rows /\ old.patches # <<>>
      BY <1>1, <1>3, <1>3a, <1>4, <1>5, <2>2 DEF Flushed
    <2> QED
      BY <2>1, <2>2
  <1>8. PICK r : r = records[old.line]
    OBVIOUS
  <1>9. PICK b : b = IF r.key = old.key THEN old ELSE [f EXCEPT !.key = r.key]
    OBVIOUS
  <1>10. PICK c : c = build'
    OBVIOUS
  <1>11. c = [b EXCEPT !.patches = @ \o r.patches, !.line = @ + 1]
    BY <1>3, <1>3a, <1>4, <1>8, <1>9, <1>10 DEF ReadRecord
  <1>12. /\ DOMAIN f = DOMAIN old /\ f.patches = <<>> /\ f.line = old.line /\ f.range = old.range
    BY <1>6 DEF Flushes
  <1>13. /\ DOMAIN b = DOMAIN old /\ b.line = old.line /\ b.range = old.range
         /\ b.identity = old.identity /\ b.key = r.key
         /\ r.key = old.key => b.staged = old.staged /\ b.patches = old.patches
         /\ r.key # old.key => b.staged = f.staged /\ b.patches = <<>>
    <2>1. CASE r.key = old.key
      BY <1>9, <2>1
    <2>2. CASE r.key # old.key
      BY <1>5, <1>7, <1>9, <1>12, <2>2
    <2> QED
      BY <2>1, <2>2
  <1>14. /\ c.line = old.line + 1 /\ c.range = old.range /\ c.identity = old.identity /\ c.key = r.key
         /\ c.staged = b.staged /\ c.patches = b.patches \o r.patches
    BY <1>5, <1>11, <1>13
  <1>15. ASSUME NEW m, NEW l, ScannedTo(rows, records, old, m, l)
         PROVE  \E m2, l2 : ScannedTo(rows, records, c, m2, l2)
    <2>1. l \in Nat /\ old.line = l + 1 /\ r = records[l + 1]
      BY <1>8, <1>15 DEF ScannedTo
    <2>2. l < Len(records)
      BY <1>1, <1>3, <1>3a, <2>1
    <2>3. CASE r.key = old.key
      <3>1. /\ c.key = old.key /\ c.staged = old.staged /\ c.patches = old.patches \o records[l + 1].patches
            /\ records[l + 1].key = old.key
        BY <1>13, <1>14, <2>1, <2>3
      <3>2. ScannedTo(rows, records, c, m, l + 1)
        BY <1>14, <1>15, <2>2, <3>1, ReadOn
      <3> QED
        BY <3>2
    <2>4. CASE r.key # old.key
      <3>1. r.patches \in Seq(Patch)
        <4>1. l + 1 \in 1 .. Len(records)
          BY <2>1, <2>2
        <4>2. r \in Records
          BY <2>1, <4>1
        <4> QED
          BY <4>2, DeltaTypes
      <3>2. \A x \in Seq(Patch) : <<>> \o x = x
        OBVIOUS
      <3>3. /\ c.key = records[l + 1].key /\ c.staged = f.staged /\ c.patches = records[l + 1].patches
            /\ records[l + 1].key # old.key
        BY <1>13, <1>14, <2>1, <2>4, <3>1, <3>2
      <3>4. Imported(rows)
        BY <1>3, <1>3a DEF CInv
      <3>5. ScannedTo(rows, records, c, l, l + 1)
        BY <1>6, <1>14, <1>15, <2>2, <3>3, <3>4, ReadNext
      <3> QED
        BY <3>5
    <2> QED
      BY <2>3, <2>4
  <1>16. records = Dump' /\ rows = canonical'
    BY <1>1, <1>3, <1>3a DEF Dump
  <1>17. old.identity \in 1 .. Len(dumps)
    BY <1>1, <1>3, <1>3a DEF CInv, Scanning
  <1>18. old.identity = Len(dumps) => \E m, l : ScannedTo(rows, records, old, m, l)
    BY <1>1, <1>3, <1>3a DEF CInv, Scanning
  <1>19. c.identity = Len(dumps) => \E m2, l2 : ScannedTo(rows, records, c, m2, l2)
    BY <1>14, <1>15, <1>18
  <1>20. Scanning'
    BY <1>1, <1>10, <1>14, <1>16, <1>17, <1>19 DEF Scanning
  <1>21. Delivered' /\ Imported(canonical)'
    BY <1>1 DEF CInv, Delivered, IsDelta
  <1> QED
    BY <1>20, <1>21 DEF CInv

LEMMA PublishScan ==
    ASSUME AInv, CInv, Publish
    PROVE  CInv'
  <1>1. /\ build.pc = "scan" /\ build.line > Len(Dump) /\ build' = NoBuild
        /\ UNCHANGED <<canonical, dumps>>
    BY DEF Publish
  <1>2. Scanning' /\ Imported(canonical)'
    BY <1>1 DEF CInv, Scanning, NoBuild
  <1>3. CASE delta' = delta
    BY <1>1, <1>2, <1>3 DEF CInv, Delivered, IsDelta
  <1>4. CASE delta' # delta
    <2>1. /\ Len(dumps) = build.identity
          /\ delta' = [rows |-> Flushed(build).staged, digest |-> build.identity, range |-> build.range]
      BY <1>4 DEF Publish
    <2>2. Dump \in Seq(Records) /\ Len(dumps) \in Nat \ {0}
      BY DumpType DEF AInv
    <2>3. PICK records \in Seq(Records) : records = Dump
      BY <2>2
    <2>3a. PICK rows, old : rows = canonical /\ old = build
      OBVIOUS
    <2>4. PICK f : f = Flushed(build)
      OBVIOUS
    <2>5. /\ DOMAIN old = {"pc", "line", "key", "patches", "staged", "range", "identity"}
          /\ DOMAIN old.staged = DOMAIN rows
      BY <1>1, <2>3, <2>3a DEF AInv, DInv, Shapes, SameEntries
    <2>6. Flushes(rows, old, f)
      BY <2>3, <2>3a, <2>4, <2>5, FlushedFacts
    <2>7. PICK m, l : ScannedTo(rows, records, old, m, l)
      BY <1>1, <2>1, <2>3, <2>3a DEF CInv, Scanning
    <2>8. l = Len(records)
      BY <1>1, <2>3, <2>3a, <2>7 DEF ScannedTo
    <2>9. ASSUME NEW e \in old.range \cap DOMAIN rows
          PROVE  Reproduces(rows[e], f.staged[e], records, e, Len(dumps))
      <3>1. Imported(rows)
        BY <2>3, <2>3a DEF CInv
      <3> QED
        BY <2>6, <2>7, <2>8, <3>1, AllRead
    <2>10. /\ delta'.rows = f.staged /\ delta'.digest = Len(dumps) /\ delta'.range = old.range
           /\ dumps'[delta'.digest] = records
      BY <1>1, <2>1, <2>3, <2>3a, <2>4 DEF Dump
    <2>11. Delivered'
      BY <1>1, <2>2, <2>3, <2>3a, <2>9, <2>10 DEF Delivered
    <2> QED
      BY <1>2, <2>11 DEF CInv
  <1> QED
    BY <1>3, <1>4

LEMMA ReplaceScan ==
    ASSUME AInv, CInv, NEW r \in Records, DumpReplaced(r)
    PROVE  CInv'
  <1>1. UNCHANGED <<canonical, build, delta>>
    BY DEF DumpReplaced
  <1>2. PICK new : dumps' = Append(dumps, new)
    BY DEF DumpReplaced
  <1>3. PICK n \in Nat : n = Len(dumps)
    BY DumpType DEF AInv
  <1>4. Len(dumps') = n + 1 /\ \A i \in 1 .. n : dumps'[i] = dumps[i]
    <2>1. dumps \in Seq(Seq(Records))
      BY DEF AInv, Typed
    <2> QED
      BY <1>2, <1>3, <2>1
  <1>5. Scanning'
    <2>1. build.pc = "scan" => build.identity \in 1 .. n
      BY <1>3 DEF CInv, Scanning
    <2>2. build.pc = "scan" => build.identity \in 1 .. n + 1 /\ build.identity # n + 1
      BY <2>1
    <2> QED
      BY <1>1, <1>4, <2>2 DEF Scanning
  <1>6. Delivered'
    <2>1. ASSUME IsDelta'
          PROVE  /\ delta'.digest \in 1 .. Len(dumps') /\ dumps'[delta'.digest] = dumps[delta.digest]
      <3>1. delta.digest \in 1 .. n
        BY <1>1, <1>3, <2>1 DEF CInv, Delivered, IsDelta
      <3>2. delta.digest \in 1 .. n + 1
        BY <3>1
      <3> QED
        BY <1>1, <1>4, <3>1, <3>2
    <2> QED
      BY <1>1, <2>1 DEF CInv, Delivered, IsDelta
  <1> QED
    BY <1>1, <1>5, <1>6 DEF CInv

\* The other steps build nothing and publish nothing.
LEMMA OtherScan ==
    ASSUME CInv, BuilderDies \/ OutputTaken \/ UNCHANGED <<canonical, dumps, build, delta>>
    PROVE  CInv'
  <1>1. UNCHANGED <<canonical, dumps>>
    BY DEF BuilderDies, OutputTaken
  <1>2. build' = build \/ build' = NoBuild
    BY DEF BuilderDies, OutputTaken
  <1>3. Scanning'
    <2>1. CASE build' = build
      BY <1>1, <2>1 DEF CInv, Scanning, Dump
    <2>2. CASE build' = NoBuild
      BY <2>2 DEF NoBuild, Scanning
    <2> QED
      BY <1>2, <2>1, <2>2
  <1>4. delta' = delta \/ delta' = Foreign
    BY DEF BuilderDies, OutputTaken
  <1>5. Delivered'
    BY <1>1, <1>4 DEF CInv, Delivered, IsDelta
  <1> QED
    BY <1>1, <1>3, <1>5 DEF CInv

(* The invariant of the builder and of what it has published. *)
THEOREM BuildsInvariant == DeltaSpec => [](AInv /\ CInv)
  <1>1. DeltaInit => CInv
    BY InitScan
  <1>2. AInv /\ CInv /\ [DeltaNext]_deltaVars => CInv'
    <2> SUFFICES ASSUME AInv, CInv, [DeltaNext]_deltaVars PROVE CInv'
      OBVIOUS
    <2>1. CASE \E range \in Ranges : StartBuild(range)
      BY <2>1, StartScan
    <2>2. CASE ReadRecord \/ Publish
      BY <2>2, ReadScan, PublishScan
    <2>3. CASE \E r \in Records : DumpReplaced(r)
      BY <2>3, ReplaceScan
    <2>4. CASE BuilderDies \/ OutputTaken
      BY <2>4, OtherScan
    <2>5. CASE \/ \E range \in Ranges : StartApply(range)
               \/ Preflight \/ ApplyBatch \/ FinishApply \/ ApplierDies \/ UNCHANGED deltaVars
      <3>1. UNCHANGED <<canonical, dumps, build, delta>>
        BY <2>5 DEF StartApply, Preflight, ApplyBatch, FinishApply, ApplierDies, deltaVars
      <3> QED
        BY <3>1, OtherScan
    <2> QED
      BY <2>1, <2>2, <2>3, <2>4, <2>5 DEF DeltaNext
  <1> QED
    BY <1>1, <1>2, RowsInvariant, PTL DEF DeltaSpec

(* A published delta, merged into the dataset it was built from, gives every entry the
   senses and the words that all records of the dump it names give it, in however many
   runs they lie there and whatever was exchanged, cut and repeated meanwhile
   (merge_delta_record, merge_compact_sense_patches). *)
THEOREM DeltasReproduceDumps == DeltaSpec => []DeltaReproducesDump
  <1>1. CInv => DeltaReproducesDump
    BY DEF CInv, Delivered, IsDelta, Reproduces, DeltaReproducesDump
  <1> QED
    BY <1>1, BuildsInvariant, PTL
===============================================================================
