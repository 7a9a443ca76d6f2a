--------------------------- MODULE MapReduceProofs ---------------------------
(***************************************************************************)
(* Proofs about MapReduce, for any jobs, texts and faults.                 *)
(***************************************************************************)
EXTENDS MapReduce, FiniteSetTheorems, TLAPS

\* Arithmetic of splitter.py: the parts follow each other without gap or
\* overlap and the last one ends where the text ends, whatever its length.
LEMMA Bounds ==
    ASSUME NEW n \in Nat
    PROVE  /\ ChunkSize(n) \in Nat
           /\ \A i \in Parts : From(n, i) \in Nat /\ To(n, i) \in Nat
           /\ From(n, 1) = 1 /\ To(n, 3) = n
           /\ \/ From(n, 2) = To(n, 1) + 1
              \/ To(n, 1) = n /\ From(n, 2) > n
           /\ \/ From(n, 3) = To(n, 2) + 1
              \/ To(n, 2) = n /\ From(n, 3) > n
           /\ To(n, 1) <= n /\ To(n, 2) <= n
           /\ To(n, 1) <= To(n, 2)
           /\ From(n, 2) >= 1 /\ From(n, 3) >= From(n, 2)
<1> DEFINE c == ChunkSize(n)
<1>1. c \in Nat /\ 3 * c >= n
  BY DEF ChunkSize
<1> HIDE DEF c
<1>2. /\ From(n, 1) = 1 /\ From(n, 2) = c + 1 /\ From(n, 3) = 2 * c + 1
      /\ To(n, 1) = (IF c > n THEN n ELSE c)
      /\ To(n, 2) = (IF 2 * c > n THEN n ELSE 2 * c)
      /\ To(n, 3) = n
  BY <1>1 DEF From, To, c
<1>3. \A i \in Parts : i = 1 \/ i = 2 \/ i = 3
  BY DEF Parts
<1> QED
  BY <1>1, <1>2, <1>3 DEF c

\* Every line is in exactly one part: what the splitter cuts is put together
\* again without loss or repetition.
THEOREM PartsPartition ==
    ASSUME NEW n \in Nat, NEW p \in 1..n
    PROVE  \E i \in Parts : /\ p \in From(n, i)..To(n, i)
                            /\ \A k \in Parts : p \in From(n, k)..To(n, k) => k = i
<1> DEFINE f2 == From(n, 2)
           f3 == From(n, 3)
           t1 == To(n, 1)
           t2 == To(n, 2)
<1>1. /\ From(n, 1) = 1 /\ To(n, 3) = n
      /\ f2 \in Nat /\ f3 \in Nat /\ t1 \in Nat /\ t2 \in Nat
      /\ f2 = t1 + 1 \/ (t1 = n /\ f2 > n)
      /\ f3 = t2 + 1 \/ (t2 = n /\ f3 > n)
      /\ t1 <= t2 /\ t2 <= n
  BY Bounds DEF Parts
<1> HIDE DEF f2, f3, t1, t2
<1>2. \E i \in Parts : \A k \in Parts : p \in From(n, k)..To(n, k) <=> k = i
  <2>1. SUFFICES \E i \in Parts : /\ (1 <= p /\ p <= t1) <=> i = 1
                                  /\ (f2 <= p /\ p <= t2) <=> i = 2
                                  /\ (f3 <= p /\ p <= n) <=> i = 3
    BY <1>1 DEF Parts, f2, f3, t1, t2
  <2> QED
    BY <1>1 DEF Parts
<1> QED
  BY <1>2

-----------------------------------------------------------------------------
(* Counts *)

\* The lines of an interval that hold a word.
Lines(j, from, to, w) == {p \in from..to : Text[j][p] = w}

\* An interval has finitely many lines of any word: counting gives a number.
LEMMA LinesFinite ==
    ASSUME NEW j, NEW from \in Nat, NEW to \in Nat, NEW w
    PROVE  IsFiniteSet(Lines(j, from, to, w)) /\ Cardinality(Lines(j, from, to, w)) \in Nat
<1>1. IsFiniteSet(from..to)
  BY FS_Interval
<1>2. Lines(j, from, to, w) \subseteq from..to
  BY DEF Lines
<1> QED
  BY <1>1, <1>2, FS_Subset, FS_CardinalityType

\* What the mapper returns for a part is a count of words.
LEMMA CountsType ==
    ASSUME NEW part \in Part
    PROVE  CountOf(part) \in Counts
<1>1. part.from \in Nat /\ part.to \in Nat
  BY DEF Part
<1>2. \A w \in Words : Cardinality(Lines(part.job, part.from, part.to, w)) \in Nat
  BY <1>1, LinesFinite
<1>3. CountOf(part) = [w \in Words |-> Cardinality(Lines(part.job, part.from, part.to, w))]
  BY DEF CountOf, WordCount, Lines
<1> QED
  BY <1>2, <1>3 DEF Counts

\* The part that the splitter uploads.
LEMMA PartType ==
    ASSUME NEW j \in Jobs, NEW i \in Parts
    PROVE  PartOf(j, i) \in Part
<1>1. Len(Text[j]) \in Nat
  BY TextAssumption
<1> QED
  BY <1>1, Bounds DEF PartOf, Part

\* Sums of counts are counts.
LEMMA PlusType ==
    ASSUME NEW c \in Counts, NEW d \in Counts
    PROVE  Plus(c, d) \in Counts
BY DEF Plus, Counts

\* The final result of a job whose parts are those of three jobs.
Mix(a, b, c) == Plus(Plus(CountOf(PartOf(a, 1)), CountOf(PartOf(b, 2))), CountOf(PartOf(c, 3)))

\* Adding up the counts of a text's parts gives the counts of the text.
LEMMA PartsAddUp ==
    ASSUME NEW j \in Jobs
    PROVE  Mix(j, j, j) = WordCount(j, 1, Len(Text[j]))
<1> DEFINE n == Len(Text[j])
           L(i, w) == Lines(j, From(n, i), To(n, i), w)
<1>0. n \in Nat
  BY TextAssumption
<1>1. 1 \in Parts /\ 2 \in Parts /\ 3 \in Parts
  BY DEF Parts
<1>2. ASSUME NEW w \in Words
      PROVE  Cardinality(Lines(j, 1, n, w)) =
                (Cardinality(L(1, w)) + Cardinality(L(2, w))) + Cardinality(L(3, w))
  <2> HIDE DEF n
  <2>1. \A i \in Parts : /\ L(i, w) \subseteq Lines(j, 1, n, w)
                          /\ IsFiniteSet(L(i, w)) /\ Cardinality(L(i, w)) \in Nat
    <3>1. \A i \in Parts : From(n, i) \in Nat /\ To(n, i) \in Nat /\ From(n, i) >= 1 /\ To(n, i) <= n
      BY <1>0, Bounds DEF Parts
    <3>2. \A i \in Parts : L(i, w) \subseteq Lines(j, 1, n, w)
      BY <1>0, <3>1 DEF Lines
    <3> QED
      BY <3>1, <3>2, LinesFinite
  <2>2. Lines(j, 1, n, w) = (L(1, w) \cup L(2, w)) \cup L(3, w)
    <3>1. \A p \in 1..n : \E i \in Parts : p \in From(n, i)..To(n, i)
      BY <1>0, PartsPartition
    <3>2. Lines(j, 1, n, w) \subseteq (L(1, w) \cup L(2, w)) \cup L(3, w)
      BY <3>1 DEF Lines, Parts
    <3> QED
      BY <3>2, <2>1, <1>1
  <2>3. L(1, w) \cap L(2, w) = {} /\ (L(1, w) \cup L(2, w)) \cap L(3, w) = {}
    <3>1. \A p \in Lines(j, 1, n, w) : \A i, k \in Parts : p \in L(i, w) /\ p \in L(k, w) => i = k
      BY <1>0, PartsPartition DEF Lines
    <3> QED
      BY <3>1, <2>1, <1>1
  <2>4. Cardinality(L(1, w) \cup L(2, w)) = Cardinality(L(1, w)) + Cardinality(L(2, w))
    <3> HIDE DEF L
    <3>1. Cardinality(L(1, w) \cap L(2, w)) = 0
      BY <2>3, FS_EmptySet
    <3> DEFINE a == Cardinality(L(1, w))
               b == Cardinality(L(2, w))
    <3>2. Cardinality(L(1, w) \cup L(2, w)) = a + b - Cardinality(L(1, w) \cap L(2, w))
      BY <2>1, <1>1, FS_Union
    <3>3. a \in Nat /\ b \in Nat
      BY <2>1, <1>1
    <3> HIDE DEF a, b
    <3>4. Cardinality(L(1, w) \cup L(2, w)) = a + b
      BY <3>1, <3>2, <3>3
    <3> QED
      BY <3>4 DEF a, b
  <2>5. Cardinality((L(1, w) \cup L(2, w)) \cup L(3, w)) =
           Cardinality(L(1, w) \cup L(2, w)) + Cardinality(L(3, w))
    <3> HIDE DEF L
    <3>1. Cardinality((L(1, w) \cup L(2, w)) \cap L(3, w)) = 0
      BY <2>3, FS_EmptySet
    <3>2. IsFiniteSet(L(1, w) \cup L(2, w))
      BY <2>1, <1>1, FS_Union
    <3>3. Cardinality(L(1, w) \cup L(2, w)) \in Nat
      BY <3>2, FS_CardinalityType
    <3> DEFINE a == Cardinality(L(1, w) \cup L(2, w))
               b == Cardinality(L(3, w))
    <3>4. Cardinality((L(1, w) \cup L(2, w)) \cup L(3, w)) =
             a + b - Cardinality((L(1, w) \cup L(2, w)) \cap L(3, w))
      BY <3>2, <2>1, <1>1, FS_Union
    <3>5. b \in Nat
      BY <2>1, <1>1
    <3> HIDE DEF a, b
    <3>6. a \in Nat
      BY <3>3 DEF a
    <3>7. Cardinality((L(1, w) \cup L(2, w)) \cup L(3, w)) = a + b
      BY <3>1, <3>4, <3>5, <3>6
    <3> QED
      BY <3>7 DEF a, b
  <2> QED
    BY <2>2, <2>4, <2>5
<1>3. \A i \in Parts : CountOf(PartOf(j, i)) = [w \in Words |-> Cardinality(L(i, w))]
  BY DEF CountOf, PartOf, WordCount, Lines
<1>4. WordCount(j, 1, n) = [w \in Words |-> Cardinality(Lines(j, 1, n, w))]
  BY DEF WordCount, Lines
<1>5. Mix(j, j, j) =
        [w \in Words |-> (Cardinality(L(1, w)) + Cardinality(L(2, w))) + Cardinality(L(3, w))]
  BY <1>1, <1>3 DEF Mix, Plus
<1> QED
  BY <1>2, <1>4, <1>5

-----------------------------------------------------------------------------
(* The inductive invariant *)

\* Objects, and what mappers hold, are parts of some job's text and their counts.
Objects ==
    /\ \A i \in Parts : split[i] # None => \E a \in Jobs : split[i] = PartOf(a, i)
    /\ \A i \in Parts : result[i] # None => \E a \in Jobs : result[i] = CountOf(PartOf(a, i))
    /\ \A j \in Jobs, i \in Parts : held[j][i] # None => \E a \in Jobs : held[j][i] = PartOf(a, i)

\* What a call reads has been uploaded, and calls run in their phase only.
Ready ==
    \A j \in Jobs :
        /\ pc[j] \notin {"split", "reduce"} => next[j] = 1
        /\ pc[j] # "reduce" => total[j] = NoWords
        /\ pc[j] = "map" => \A i \in Parts : split[i] # None
        /\ pc[j] = "reduce" => \A i \in Parts : mapper[j][i] = "done"
        /\ \A i \in Parts : /\ pc[j] = "split" /\ i < next[j] => split[i] # None
                            /\ pc[j] \in {"start", "split"} => mapper[j][i] = "idle"
                            /\ mapper[j][i] = "counting" => pc[j] = "map"
                            /\ mapper[j][i] = "done" => result[i] # None

\* A reducer has added up whole parts, one after the other.
Sums ==
    \A j \in Jobs : pc[j] = "reduce" =>
        /\ next[j] = 1 => total[j] = NoWords
        /\ next[j] = 2 => \E a \in Jobs : total[j] = CountOf(PartOf(a, 1))
        /\ next[j] = 3 => \E a, b \in Jobs :
                total[j] = Plus(CountOf(PartOf(a, 1)), CountOf(PartOf(b, 2)))
        /\ next[j] = 4 => \E a, b, c \in Jobs : total[j] = Mix(a, b, c)

\* A job that none has overlapped is the only one that runs,
Alone == \A j \in Active \ overlapped, k \in Active : k = j

\* and what it has put, read and added up is its own.
Own ==
    \A j \in Active \ overlapped :
        /\ \A i \in Parts :
            /\ (pc[j] # "split" \/ i < next[j]) => split[i] = PartOf(j, i)
            /\ mapper[j][i] = "counting" => held[j][i] = PartOf(j, i)
            /\ mapper[j][i] = "done" => result[i] = CountOf(PartOf(j, i))
        /\ pc[j] = "reduce" =>
            /\ next[j] = 2 => total[j] = CountOf(PartOf(j, 1))
            /\ next[j] = 3 => total[j] = Plus(CountOf(PartOf(j, 1)), CountOf(PartOf(j, 2)))
            /\ next[j] = 4 => total[j] = Mix(j, j, j)

IInv == TypeOK /\ Objects /\ Ready /\ Sums /\ Alone /\ Own /\ FinalExact /\ FinalOfWholeParts

\* What is stored is what was there or what was put.
LEMMA PutEither ==
    ASSUME NEW object, NEW value, NEW outcome
    PROVE  /\ Put(object, value, outcome) = object \/ Put(object, value, outcome) = value
           /\ outcome = "ok" => Put(object, value, outcome) = value
BY DEF Put

\* A first addition to empty counts.
LEMMA PlusNothing ==
    ASSUME NEW c \in Counts
    PROVE  Plus(NoWords, c) = c
BY DEF Plus, NoWords, Counts

\* Counts of parts, and the counts a reducer begins with, are counts.
LEMMA PartCounts ==
    /\ NoWords \in Counts
    /\ \A j \in Jobs, i \in Parts : PartOf(j, i) \in Part /\ CountOf(PartOf(j, i)) \in Counts
BY PartType, CountsType DEF NoWords, Counts

\* The invariant holds at the start.
LEMMA InvInit == Init => IInv
BY PartCounts, NoneAssumption, FaultsAssumption
   DEF Init, IInv, TypeOK, Objects, Ready, Sums, Alone, Own, FinalExact, FinalOfWholeParts,
       Active, Parts, Counts, NoWords

\* Every step keeps the types.
LEMMA Types ==
    ASSUME IInv, [Next]_vars
    PROVE  TypeOK'
<1>1. ASSUME NEW j \in Jobs, Begin(j)
      PROVE  TypeOK'
  <2>1. pc' \in [Jobs -> {"start", "split", "map", "reduce", "done", "gone"}]
    BY <1>1 DEF IInv, TypeOK, Begin
  <2>2. \A k \in Jobs : (pc'[k] = "split" => next[k] \in Parts) /\ (pc'[k] = "reduce" => pc[k] = "reduce")
    BY <1>1 DEF IInv, TypeOK, Ready, Begin, Parts
  <2>3. overlapped' \subseteq Jobs
    BY <1>1 DEF IInv, TypeOK, Begin, Active
  <2> QED
    BY <1>1, <2>1, <2>2, <2>3 DEF IInv, TypeOK, Begin, bucketVars, callVars
<1>2. ASSUME NEW j \in Jobs, PutSplit(j)
      PROVE  TypeOK'
  BY <1>2, PartCounts, PutEither
     DEF IInv, TypeOK, Objects, Ready, bucketVars, callVars, historyVars, Parts, PutSplit, Outcomes
<1>3. ASSUME NEW j \in Jobs, CallReduce(j)
      PROVE  TypeOK'
  BY <1>3, PartCounts, PutEither
     DEF IInv, TypeOK, Objects, Ready, bucketVars, callVars, historyVars, Parts, CallReduce
<1>4. ASSUME NEW j \in Jobs, AddResult(j)
      PROVE  TypeOK'
  <2>1. result[next[j]] \in Counts /\ next[j] \in Parts
    BY <1>4 DEF IInv, TypeOK, Ready, AddResult, Parts
  <2>2. Plus(total[j], result[next[j]]) \in Counts
    BY <1>4, <2>1, PlusType DEF IInv, TypeOK
  <2>3. total' \in [Jobs -> Counts] /\ next' \in [Jobs -> 1..4]
    <3>1. \/ total' = [total EXCEPT ![j] = Plus(total[j], result[next[j]])]
          \/ total' = [total EXCEPT ![j] = NoWords]
      BY <1>4 DEF AddResult
    <3>2. total \in [Jobs -> Counts] /\ NoWords \in Counts
      BY PartCounts DEF IInv, TypeOK
    <3>3. total' \in [Jobs -> Counts]
      BY <2>2, <3>1, <3>2
    <3>4. next' = [next EXCEPT ![j] = next[j] + 1] \/ next' = [next EXCEPT ![j] = 1]
      BY <1>4 DEF AddResult
    <3>5. next \in [Jobs -> 1..4] /\ next[j] \in 1..3
      BY <2>1 DEF IInv, TypeOK, Parts
    <3>6. next' \in [Jobs -> 1..4]
      BY <3>4, <3>5
    <3> QED
      BY <3>3, <3>6
  <2>4. \A k \in Jobs : pc'[k] = "split" => next'[k] = next[k]
    BY <1>4 DEF IInv, TypeOK, AddResult
  <2> QED
    BY <1>4, <2>3, <2>4 DEF IInv, TypeOK, AddResult, bucketVars, historyVars
<1>5. ASSUME NEW j \in Jobs, PutFinal(j)
      PROVE  TypeOK'
  BY <1>5, PartCounts, PutEither, PlusType, PlusNothing
     DEF IInv, TypeOK, Objects, Ready, bucketVars, callVars, historyVars, Parts, PutFinal, Outcomes, Sums
<1>6. ASSUME NEW j \in Jobs, GiveUp(j)
      PROVE  TypeOK'
  BY <1>6, PartCounts, PutEither
     DEF IInv, TypeOK, Objects, Ready, bucketVars, callVars, historyVars, Parts, GiveUp
<1>7. ASSUME NEW j \in Jobs, NEW i \in Parts, GetSplit(j, i)
      PROVE  TypeOK'
  BY <1>7, PartCounts, PutEither
     DEF IInv, TypeOK, Objects, Ready, bucketVars, callVars, historyVars, Parts, GetSplit
<1>8. ASSUME NEW j \in Jobs, NEW i \in Parts, PutResult(j, i)
      PROVE  TypeOK'
  <2>1. held[j][i] \in Part /\ CountOf(held[j][i]) \in Counts
    BY <1>8, CountsType DEF IInv, TypeOK, PutResult
  <2>2. result' \in [Parts -> Counts \cup {None}]
    BY <1>8, <2>1, PutEither DEF IInv, TypeOK, PutResult, Outcomes
  <2>3. \A k \in Parts : result[k] # None => result'[k] # None
    BY <1>8, <2>1, PutEither, NoneAssumption DEF IInv, TypeOK, PutResult, Outcomes
  <2>4. mapper' \in [Jobs -> [Parts -> {"idle", "counting", "done"}]]
    BY <1>8 DEF IInv, TypeOK, PutResult
  <2>5. \A k \in Jobs, m \in Parts : mapper'[k][m] = "counting" <=> held'[k][m] # None
    BY <1>8 DEF IInv, TypeOK, PutResult
  <2>6. held' \in [Jobs -> [Parts -> Part \cup {None}]]
    BY <1>8 DEF IInv, TypeOK, PutResult
  <2> QED
    BY <1>8, <2>2, <2>3, <2>4, <2>5, <2>6 DEF IInv, TypeOK, PutResult, historyVars
<1>9. CASE UNCHANGED vars
  BY <1>9 DEF IInv, vars, bucketVars, callVars, historyVars, TypeOK
<1> QED
  BY <1>1, <1>2, <1>3, <1>4, <1>5, <1>6, <1>7, <1>8, <1>9 DEF Next

\* Every step keeps objects whole.
LEMMA ObjectsStep ==
    ASSUME IInv, [Next]_vars
    PROVE  Objects'
<1>1. ASSUME NEW j \in Jobs, Begin(j)
      PROVE  Objects'
  BY <1>1, PartCounts, PutEither
     DEF IInv, TypeOK, Objects, Ready, bucketVars, callVars, historyVars, Parts, Begin
<1>2. ASSUME NEW j \in Jobs, PutSplit(j)
      PROVE  Objects'
  BY <1>2, PartCounts, PutEither
     DEF IInv, TypeOK, Objects, Ready, bucketVars, callVars, historyVars, Parts, PutSplit, Outcomes
<1>3. ASSUME NEW j \in Jobs, CallReduce(j)
      PROVE  Objects'
  BY <1>3, PartCounts, PutEither
     DEF IInv, TypeOK, Objects, Ready, bucketVars, callVars, historyVars, Parts, CallReduce
<1>4. ASSUME NEW j \in Jobs, AddResult(j)
      PROVE  Objects'
  BY <1>4, PartCounts, PutEither, PlusType, PlusNothing
     DEF IInv, TypeOK, Objects, Ready, bucketVars, callVars, historyVars, Parts, AddResult, Sums
<1>5. ASSUME NEW j \in Jobs, PutFinal(j)
      PROVE  Objects'
  BY <1>5, PartCounts, PutEither, PlusType, PlusNothing
     DEF IInv, TypeOK, Objects, Ready, bucketVars, callVars, historyVars, Parts, PutFinal, Outcomes, Sums
<1>6. ASSUME NEW j \in Jobs, GiveUp(j)
      PROVE  Objects'
  BY <1>6, PartCounts, PutEither
     DEF IInv, TypeOK, Objects, Ready, bucketVars, callVars, historyVars, Parts, GiveUp
<1>7. ASSUME NEW j \in Jobs, NEW i \in Parts, GetSplit(j, i)
      PROVE  Objects'
  BY <1>7, PartCounts, PutEither
     DEF IInv, TypeOK, Objects, Ready, bucketVars, callVars, historyVars, Parts, GetSplit
<1>8. ASSUME NEW j \in Jobs, NEW i \in Parts, PutResult(j, i)
      PROVE  Objects'
  BY <1>8, PartCounts, PutEither
     DEF IInv, TypeOK, Objects, Ready, bucketVars, callVars, historyVars, Parts, PutResult, Outcomes
<1>9. CASE UNCHANGED vars
  BY <1>9 DEF IInv, vars, bucketVars, callVars, historyVars, Objects
<1> QED
  BY <1>1, <1>2, <1>3, <1>4, <1>5, <1>6, <1>7, <1>8, <1>9 DEF Next

\* Every step keeps what later calls read.
LEMMA ReadyStep ==
    ASSUME IInv, [Next]_vars
    PROVE  Ready'
<1>1. ASSUME NEW j \in Jobs, Begin(j)
      PROVE  Ready'
  BY <1>1, PartCounts, PutEither
     DEF IInv, TypeOK, Objects, Ready, bucketVars, callVars, historyVars, Parts, Begin
<1>2. ASSUME NEW j \in Jobs, PutSplit(j)
      PROVE  Ready'
  <2>1. split' \in [Parts -> Part \cup {None}] /\ \A m \in Parts : split[m] # None => split'[m] # None
    BY <1>2, PartCounts, PutEither, NoneAssumption DEF IInv, TypeOK, PutSplit
  <2>2. \A k \in Jobs \ {j} : pc'[k] = pc[k] /\ next'[k] = next[k]
    BY <1>2 DEF IInv, TypeOK, PutSplit
  <2>3. \/ pc'[j] = "split" /\ next'[j] = 1
        \/ /\ split'[next[j]] = PartOf(j, next[j])
           /\ \/ pc'[j] = "split" /\ next[j] < 3 /\ next'[j] = next[j] + 1
              \/ pc'[j] = "map" /\ next[j] = 3 /\ next'[j] = 1
    BY <1>2, PutEither DEF IInv, TypeOK, PutSplit, Parts
  <2>4. pc'[j] \in {"split", "map"} /\ \A m \in Parts :
            /\ pc'[j] = "map" => split'[m] # None
            /\ pc'[j] = "split" /\ m < next'[j] => split'[m] # None
    <3>1. next[j] \in Parts /\ \A m \in Parts : m < next[j] => split'[m] # None
      BY <1>2, <2>1 DEF IInv, TypeOK, Ready, PutSplit
    <3>2. PartOf(j, next[j]) # None
      BY <3>1, PartCounts, NoneAssumption
    <3> QED
      BY <3>1, <3>2, <2>3 DEF Parts
  <2> QED
    BY <1>2, <2>1, <2>2, <2>3, <2>4 DEF IInv, TypeOK, Ready, PutSplit
<1>3. ASSUME NEW j \in Jobs, CallReduce(j)
      PROVE  Ready'
  BY <1>3, PartCounts, PutEither
     DEF IInv, TypeOK, Objects, Ready, bucketVars, callVars, historyVars, Parts, CallReduce
<1>4. ASSUME NEW j \in Jobs, AddResult(j)
      PROVE  Ready'
  BY <1>4, PartCounts, PutEither, PlusType, PlusNothing
     DEF IInv, TypeOK, Objects, Ready, bucketVars, callVars, historyVars, Parts, AddResult, Sums
<1>5. ASSUME NEW j \in Jobs, PutFinal(j)
      PROVE  Ready'
  BY <1>5, PartCounts, PutEither, PlusType, PlusNothing
     DEF IInv, TypeOK, Objects, Ready, bucketVars, callVars, historyVars, Parts, PutFinal, Outcomes, Sums
<1>6. ASSUME NEW j \in Jobs, GiveUp(j)
      PROVE  Ready'
  <2>1. pc'[j] = "gone" /\ next'[j] = 1 /\ total'[j] = NoWords
    BY <1>6 DEF IInv, TypeOK, Ready, Sums, Active, GiveUp, callVars
  <2>2. \A k \in Jobs \ {j} : pc'[k] = pc[k]
    BY <1>6 DEF IInv, TypeOK, GiveUp
  <2> QED
    BY <1>6, <2>1, <2>2 DEF IInv, TypeOK, Ready, GiveUp, bucketVars, callVars
<1>7. ASSUME NEW j \in Jobs, NEW i \in Parts, GetSplit(j, i)
      PROVE  Ready'
  BY <1>7, PartCounts, PutEither
     DEF IInv, TypeOK, Objects, Ready, bucketVars, callVars, historyVars, Parts, GetSplit
<1>8. ASSUME NEW j \in Jobs, NEW i \in Parts, PutResult(j, i)
      PROVE  Ready'
  <2>1. CountOf(held[j][i]) \in Counts /\ pc[j] = "map"
    BY <1>8, CountsType DEF IInv, TypeOK, Ready, PutResult
  <2>2. \A k \in Parts : result[k] # None => result'[k] # None
    BY <1>8, <2>1, PutEither, NoneAssumption DEF IInv, TypeOK, PutResult
  <2>3. \/ mapper'[j][i] = "idle"
        \/ mapper'[j][i] = "done" /\ result'[i] # None
    BY <1>8, <2>1, PutEither, NoneAssumption DEF IInv, TypeOK, PutResult
  <2>4. \A k \in Jobs, m \in Parts : <<k, m>> # <<j, i>> => mapper'[k][m] = mapper[k][m]
    BY <1>8 DEF IInv, TypeOK, PutResult
  <2> QED
    BY <1>8, <2>1, <2>2, <2>3, <2>4 DEF IInv, Ready, PutResult
<1>9. CASE UNCHANGED vars
  BY <1>9 DEF IInv, vars, bucketVars, callVars, historyVars, Ready
<1> QED
  BY <1>1, <1>2, <1>3, <1>4, <1>5, <1>6, <1>7, <1>8, <1>9 DEF Next

\* Every step keeps the reducers' sums.
LEMMA SumsStep ==
    ASSUME IInv, [Next]_vars
    PROVE  Sums'
<1>1. ASSUME NEW j \in Jobs, Begin(j)
      PROVE  Sums'
  BY <1>1, PartCounts, PutEither
     DEF IInv, TypeOK, Objects, Ready, bucketVars, callVars, historyVars, Parts, Begin, Sums
<1>2. ASSUME NEW j \in Jobs, PutSplit(j)
      PROVE  Sums'
  BY <1>2, PartCounts, PutEither
     DEF IInv, TypeOK, Objects, Ready, bucketVars, callVars, historyVars, Parts, PutSplit, Sums, Outcomes
<1>3. ASSUME NEW j \in Jobs, CallReduce(j)
      PROVE  Sums'
  BY <1>3, PartCounts, PutEither
     DEF IInv, TypeOK, Objects, Ready, bucketVars, callVars, historyVars, Parts, CallReduce, Sums
<1>4. ASSUME NEW j \in Jobs, AddResult(j)
      PROVE  Sums'
  <2>1. next[j] \in Parts /\ \E a \in Jobs : result[next[j]] = CountOf(PartOf(a, next[j]))
    BY <1>4 DEF IInv, TypeOK, Objects, Ready, AddResult, Parts
  <2>2. \A k \in Jobs \ {j} : next'[k] = next[k] /\ total'[k] = total[k]
    BY <1>4 DEF IInv, TypeOK, AddResult
  <2>3. CASE next'[j] = 1 /\ total'[j] = NoWords
    BY <1>4, <2>2, <2>3 DEF IInv, Sums, AddResult
  <2>4. CASE next'[j] = next[j] + 1 /\ total'[j] = Plus(total[j], result[next[j]])
    <3>1. CASE next[j] = 1
      BY <1>4, <2>1, <2>2, <2>4, <3>1, PartCounts, PlusNothing DEF IInv, Sums, AddResult
    <3>2. CASE next[j] = 2
      BY <1>4, <2>1, <2>2, <2>4, <3>2 DEF IInv, Sums, AddResult
    <3>3. CASE next[j] = 3
      BY <1>4, <2>1, <2>2, <2>4, <3>3 DEF IInv, Sums, AddResult, Mix
    <3> QED
      BY <2>1, <3>1, <3>2, <3>3 DEF Parts
  <2> QED
    BY <1>4, <2>3, <2>4 DEF IInv, TypeOK, AddResult
<1>5. ASSUME NEW j \in Jobs, PutFinal(j)
      PROVE  Sums'
  BY <1>5, PartCounts, PutEither, PlusType, PlusNothing
     DEF IInv, TypeOK, Objects, Ready, bucketVars, callVars, historyVars, Parts, PutFinal, Sums, Outcomes
<1>6. ASSUME NEW j \in Jobs, GiveUp(j)
      PROVE  Sums'
  BY <1>6, PartCounts, PutEither
     DEF IInv, TypeOK, Objects, Ready, bucketVars, callVars, historyVars, Parts, GiveUp, Sums
<1>7. ASSUME NEW j \in Jobs, NEW i \in Parts, GetSplit(j, i)
      PROVE  Sums'
  BY <1>7, PartCounts, PutEither
     DEF IInv, TypeOK, Objects, Ready, bucketVars, callVars, historyVars, Parts, GetSplit, Sums
<1>8. ASSUME NEW j \in Jobs, NEW i \in Parts, PutResult(j, i)
      PROVE  Sums'
  BY <1>8, PartCounts, PutEither
     DEF IInv, TypeOK, Objects, Ready, bucketVars, callVars, historyVars, Parts, PutResult, Sums, Outcomes
<1>9. CASE UNCHANGED vars
  BY <1>9 DEF IInv, vars, bucketVars, callVars, historyVars, Sums
<1> QED
  BY <1>1, <1>2, <1>3, <1>4, <1>5, <1>6, <1>7, <1>8, <1>9 DEF Next

\* Every step keeps the jobs that are alone apart.
LEMMA AloneStep ==
    ASSUME IInv, [Next]_vars
    PROVE  Alone'
<1>1. ASSUME NEW j \in Jobs, Begin(j)
      PROVE  Alone'
  BY <1>1, PartCounts, PutEither
     DEF IInv, TypeOK, Objects, Ready, bucketVars, callVars, historyVars, Parts, Begin, Alone, Active
<1>2. ASSUME NEW j \in Jobs, PutSplit(j)
      PROVE  Alone'
  BY <1>2, PartCounts, PutEither
     DEF IInv, TypeOK, Objects, Ready, bucketVars, callVars, historyVars, Parts, PutSplit, Alone, Active, Outcomes
<1>3. ASSUME NEW j \in Jobs, CallReduce(j)
      PROVE  Alone'
  BY <1>3, PartCounts, PutEither
     DEF IInv, TypeOK, Objects, Ready, bucketVars, callVars, historyVars, Parts, CallReduce, Alone, Active
<1>4. ASSUME NEW j \in Jobs, AddResult(j)
      PROVE  Alone'
  BY <1>4, PartCounts, PutEither, PlusType, PlusNothing
     DEF IInv, TypeOK, Objects, Ready, bucketVars, callVars, historyVars, Parts, AddResult, Alone, Active, Sums
<1>5. ASSUME NEW j \in Jobs, PutFinal(j)
      PROVE  Alone'
  BY <1>5, PartCounts, PutEither, PlusType, PlusNothing
     DEF IInv, TypeOK, Objects, Ready, bucketVars, callVars, historyVars, Parts, PutFinal, Alone, Active, Outcomes, Sums
<1>6. ASSUME NEW j \in Jobs, GiveUp(j)
      PROVE  Alone'
  BY <1>6, PartCounts, PutEither
     DEF IInv, TypeOK, Objects, Ready, bucketVars, callVars, historyVars, Parts, GiveUp, Alone, Active
<1>7. ASSUME NEW j \in Jobs, NEW i \in Parts, GetSplit(j, i)
      PROVE  Alone'
  BY <1>7, PartCounts, PutEither
     DEF IInv, TypeOK, Objects, Ready, bucketVars, callVars, historyVars, Parts, GetSplit, Alone, Active
<1>8. ASSUME NEW j \in Jobs, NEW i \in Parts, PutResult(j, i)
      PROVE  Alone'
  BY <1>8, PartCounts, PutEither
     DEF IInv, TypeOK, Objects, Ready, bucketVars, callVars, historyVars, Parts, PutResult, Alone, Active, Outcomes
<1>9. CASE UNCHANGED vars
  BY <1>9 DEF IInv, vars, bucketVars, callVars, historyVars, Alone, Active
<1> QED
  BY <1>1, <1>2, <1>3, <1>4, <1>5, <1>6, <1>7, <1>8, <1>9 DEF Next

\* Every step keeps what a job that is alone has done.
LEMMA OwnStep ==
    ASSUME IInv, [Next]_vars
    PROVE  Own'
<1>1. ASSUME NEW j \in Jobs, Begin(j)
      PROVE  Own'
  BY <1>1, PartCounts, PutEither
     DEF IInv, TypeOK, Objects, Ready, bucketVars, callVars, historyVars, Parts, Begin, Own, Active, Alone
<1>2. ASSUME NEW j \in Jobs, PutSplit(j)
      PROVE  Own'
  BY <1>2, PartCounts, PutEither
     DEF IInv, TypeOK, Objects, Ready, bucketVars, callVars, historyVars, Parts, PutSplit, Own, Active, Alone, Outcomes
<1>3. ASSUME NEW j \in Jobs, CallReduce(j)
      PROVE  Own'
  BY <1>3, PartCounts, PutEither
     DEF IInv, TypeOK, Objects, Ready, bucketVars, callVars, historyVars, Parts, CallReduce, Own, Active, Alone
<1>4. ASSUME NEW j \in Jobs, AddResult(j)
      PROVE  Own'
  <2>1. \A k \in Active \ overlapped : k # j => FALSE
    BY <1>4 DEF IInv, Alone, Active, AddResult
  <2>2. CASE j \in overlapped
    BY <1>4, <2>1, <2>2 DEF IInv, Own, Active, AddResult, historyVars
  <2>3. CASE j \notin overlapped
    <3>1. /\ next[j] \in Parts /\ j \in Active
          /\ result[next[j]] = CountOf(PartOf(j, next[j]))
      BY <1>4, <2>3 DEF IInv, TypeOK, Ready, Own, Active, AddResult, Parts
    <3>2. \/ next'[j] = 1
          \/ next[j] = 1 /\ next'[j] = 2 /\ total'[j] = CountOf(PartOf(j, 1))
          \/ next[j] = 2 /\ next'[j] = 3 /\ total'[j] = Plus(CountOf(PartOf(j, 1)), CountOf(PartOf(j, 2)))
          \/ next[j] = 3 /\ next'[j] = 4 /\ total'[j] = Mix(j, j, j)
      <4>1. CASE next'[j] = 1
        BY <4>1
      <4>2. CASE next'[j] = next[j] + 1 /\ total'[j] = Plus(total[j], result[next[j]])
        <5>1. CASE next[j] = 1
          BY <1>4, <3>1, <4>2, <5>1, PartCounts, PlusNothing DEF IInv, Sums, AddResult
        <5>2. CASE next[j] = 2
          BY <1>4, <2>3, <3>1, <4>2, <5>2 DEF IInv, Own, AddResult
        <5>3. CASE next[j] = 3
          BY <1>4, <2>3, <3>1, <4>2, <5>3 DEF IInv, Own, AddResult, Mix
        <5> QED
          BY <3>1, <5>1, <5>2, <5>3 DEF Parts
      <4> QED
        BY <1>4, <4>1, <4>2 DEF IInv, TypeOK, AddResult
    <3>3. \A m \in Parts : split'[m] = split[m] /\ result'[m] = result[m]
      BY <1>4 DEF AddResult, bucketVars
    <3>4. pc' = pc /\ mapper' = mapper /\ held' = held /\ overlapped' = overlapped /\ pc[j] = "reduce"
      BY <1>4 DEF AddResult, historyVars
    <3>5. \A k \in (Active \ overlapped)' : k = j
      BY <2>1, <3>4 DEF Active
    <3>6. \A m \in Parts :
            /\ split[m] = PartOf(j, m)
            /\ mapper[j][m] = "counting" => held[j][m] = PartOf(j, m)
            /\ mapper[j][m] = "done" => result[m] = CountOf(PartOf(j, m))
      BY <2>3, <3>1, <3>4 DEF IInv, Own
    <3>7. \A m \in Parts :
            /\ split'[m] = PartOf(j, m)
            /\ mapper'[j][m] = "counting" => held'[j][m] = PartOf(j, m)
            /\ mapper'[j][m] = "done" => result'[m] = CountOf(PartOf(j, m))
      BY <3>3, <3>4, <3>6
    <3>8. /\ next'[j] = 2 => total'[j] = CountOf(PartOf(j, 1))
          /\ next'[j] = 3 => total'[j] = Plus(CountOf(PartOf(j, 1)), CountOf(PartOf(j, 2)))
          /\ next'[j] = 4 => total'[j] = Mix(j, j, j)
      BY <3>2
    <3> QED
      BY <3>5, <3>7, <3>8 DEF Own
  <2> QED
    BY <2>2, <2>3
<1>5. ASSUME NEW j \in Jobs, PutFinal(j)
      PROVE  Own'
  BY <1>5, PartCounts, PutEither, PlusType, PlusNothing
     DEF IInv, TypeOK, Objects, Ready, bucketVars, callVars, historyVars, Parts, PutFinal, Own, Active, Alone, Outcomes, Sums
<1>6. ASSUME NEW j \in Jobs, GiveUp(j)
      PROVE  Own'
  BY <1>6, PartCounts, PutEither
     DEF IInv, TypeOK, Objects, Ready, bucketVars, callVars, historyVars, Parts, GiveUp, Own, Active, Alone
<1>7. ASSUME NEW j \in Jobs, NEW i \in Parts, GetSplit(j, i)
      PROVE  Own'
  BY <1>7, PartCounts, PutEither
     DEF IInv, TypeOK, Objects, Ready, bucketVars, callVars, historyVars, Parts, GetSplit, Own, Active, Alone
<1>8. ASSUME NEW j \in Jobs, NEW i \in Parts, PutResult(j, i)
      PROVE  Own'
  BY <1>8, PartCounts, PutEither
     DEF IInv, TypeOK, Objects, Ready, bucketVars, callVars, historyVars, Parts, PutResult, Own, Active, Alone, Outcomes
<1>9. CASE UNCHANGED vars
  BY <1>9 DEF IInv, vars, bucketVars, callVars, historyVars, Own, Active
<1> QED
  BY <1>1, <1>2, <1>3, <1>4, <1>5, <1>6, <1>7, <1>8, <1>9 DEF Next

\* Every step keeps the results of jobs that were alone.
LEMMA ExactStep ==
    ASSUME IInv, [Next]_vars
    PROVE  FinalExact'
<1>1. ASSUME NEW j \in Jobs, Begin(j)
      PROVE  FinalExact'
  BY <1>1, PartCounts, PutEither
     DEF IInv, TypeOK, Objects, Ready, bucketVars, callVars, historyVars, Parts, Begin, FinalExact
<1>2. ASSUME NEW j \in Jobs, PutSplit(j)
      PROVE  FinalExact'
  BY <1>2, PartCounts, PutEither
     DEF IInv, TypeOK, Objects, Ready, bucketVars, callVars, historyVars, Parts, PutSplit, FinalExact, Outcomes
<1>3. ASSUME NEW j \in Jobs, CallReduce(j)
      PROVE  FinalExact'
  BY <1>3, PartCounts, PutEither
     DEF IInv, TypeOK, Objects, Ready, bucketVars, callVars, historyVars, Parts, CallReduce, FinalExact
<1>4. ASSUME NEW j \in Jobs, AddResult(j)
      PROVE  FinalExact'
  BY <1>4, PartCounts, PutEither, PlusType, PlusNothing
     DEF IInv, TypeOK, Objects, Ready, bucketVars, callVars, historyVars, Parts, AddResult, FinalExact, Sums
<1>5. ASSUME NEW j \in Jobs, PutFinal(j)
      PROVE  FinalExact'
  <2>1. \A k \in Jobs \ {j} : pc'[k] = pc[k] /\ produced'[k] = produced[k]
    BY <1>5 DEF IInv, TypeOK, PutFinal
  <2>2. j \notin overlapped => total[j] = WordCount(j, 1, Len(Text[j]))
    BY <1>5, PartsAddUp DEF IInv, Own, Active, PutFinal
  <2>3. pc'[j] = "done" => produced'[j] = total[j]
    BY <1>5 DEF IInv, TypeOK, PutFinal
  <2> QED
    BY <1>5, <2>1, <2>2, <2>3 DEF IInv, FinalExact, PutFinal
<1>6. ASSUME NEW j \in Jobs, GiveUp(j)
      PROVE  FinalExact'
  BY <1>6, PartCounts, PutEither
     DEF IInv, TypeOK, Objects, Ready, bucketVars, callVars, historyVars, Parts, GiveUp, FinalExact
<1>7. ASSUME NEW j \in Jobs, NEW i \in Parts, GetSplit(j, i)
      PROVE  FinalExact'
  BY <1>7, PartCounts, PutEither
     DEF IInv, TypeOK, Objects, Ready, bucketVars, callVars, historyVars, Parts, GetSplit, FinalExact
<1>8. ASSUME NEW j \in Jobs, NEW i \in Parts, PutResult(j, i)
      PROVE  FinalExact'
  BY <1>8, PartCounts, PutEither
     DEF IInv, TypeOK, Objects, Ready, bucketVars, callVars, historyVars, Parts, PutResult, FinalExact, Outcomes
<1>9. CASE UNCHANGED vars
  BY <1>9 DEF IInv, vars, bucketVars, callVars, historyVars, FinalExact
<1> QED
  BY <1>1, <1>2, <1>3, <1>4, <1>5, <1>6, <1>7, <1>8, <1>9 DEF Next

\* Every step keeps final results mixes of whole parts.
LEMMA WholeStep ==
    ASSUME IInv, [Next]_vars
    PROVE  FinalOfWholeParts'
<1>1. ASSUME NEW j \in Jobs, Begin(j)
      PROVE  FinalOfWholeParts'
  BY <1>1, PartCounts, PutEither
     DEF IInv, TypeOK, Objects, Ready, bucketVars, callVars, historyVars, Parts, Begin, FinalOfWholeParts
<1>2. ASSUME NEW j \in Jobs, PutSplit(j)
      PROVE  FinalOfWholeParts'
  BY <1>2, PartCounts, PutEither
     DEF IInv, TypeOK, Objects, Ready, bucketVars, callVars, historyVars, Parts, PutSplit, FinalOfWholeParts, Outcomes
<1>3. ASSUME NEW j \in Jobs, CallReduce(j)
      PROVE  FinalOfWholeParts'
  BY <1>3, PartCounts, PutEither
     DEF IInv, TypeOK, Objects, Ready, bucketVars, callVars, historyVars, Parts, CallReduce, FinalOfWholeParts
<1>4. ASSUME NEW j \in Jobs, AddResult(j)
      PROVE  FinalOfWholeParts'
  BY <1>4, PartCounts, PutEither, PlusType, PlusNothing
     DEF IInv, TypeOK, Objects, Ready, bucketVars, callVars, historyVars, Parts, AddResult, FinalOfWholeParts, Sums
<1>5. ASSUME NEW j \in Jobs, PutFinal(j)
      PROVE  FinalOfWholeParts'
  <2>1. \A k \in Jobs \ {j} : pc'[k] = pc[k] /\ produced'[k] = produced[k]
    BY <1>5 DEF IInv, TypeOK, PutFinal
  <2>2. \E a, b, c \in Jobs : total[j] = Mix(a, b, c)
    BY <1>5 DEF IInv, Sums, PutFinal
  <2>3. pc'[j] = "done" => produced'[j] = total[j]
    BY <1>5 DEF IInv, TypeOK, PutFinal
  <2> QED
    BY <1>5, <2>1, <2>2, <2>3 DEF IInv, FinalOfWholeParts, Mix
<1>6. ASSUME NEW j \in Jobs, GiveUp(j)
      PROVE  FinalOfWholeParts'
  BY <1>6, PartCounts, PutEither
     DEF IInv, TypeOK, Objects, Ready, bucketVars, callVars, historyVars, Parts, GiveUp, FinalOfWholeParts
<1>7. ASSUME NEW j \in Jobs, NEW i \in Parts, GetSplit(j, i)
      PROVE  FinalOfWholeParts'
  BY <1>7, PartCounts, PutEither
     DEF IInv, TypeOK, Objects, Ready, bucketVars, callVars, historyVars, Parts, GetSplit, FinalOfWholeParts
<1>8. ASSUME NEW j \in Jobs, NEW i \in Parts, PutResult(j, i)
      PROVE  FinalOfWholeParts'
  BY <1>8, PartCounts, PutEither
     DEF IInv, TypeOK, Objects, Ready, bucketVars, callVars, historyVars, Parts, PutResult, FinalOfWholeParts, Outcomes
<1>9. CASE UNCHANGED vars
  BY <1>9 DEF IInv, vars, bucketVars, callVars, historyVars, FinalOfWholeParts
<1> QED
  BY <1>1, <1>2, <1>3, <1>4, <1>5, <1>6, <1>7, <1>8, <1>9 DEF Next

-----------------------------------------------------------------------------
(* Theorems *)

\* Every reachable state satisfies the inductive invariant: objects are whole
\* parts, and a job that is alone works on its own.
THEOREM Invariant == Spec => []IInv
<1>1. ASSUME IInv, [Next]_vars
      PROVE  IInv'
  BY <1>1, Types, ObjectsStep, ReadyStep, SumsStep, AloneStep, OwnStep, ExactStep, WholeStep DEF IInv
<1> QED
  BY InvInit, <1>1, PTL DEF Spec

\* Objects and calls keep their types, for any jobs, texts and faults.
THEOREM TypeCorrect == Spec => []TypeOK
<1>1. IInv => TypeOK
  BY DEF IInv
<1> QED
  BY Invariant, <1>1, PTL

\* A job that no other one overlapped ends with the counts of its text, however
\* long, though calls fail half way and are repeated.
THEOREM LoneJobExact == Spec => []FinalExact
<1>1. IInv => FinalExact
  BY DEF IInv
<1> QED
  BY Invariant, <1>1, PTL

\* However many jobs overlap, a final result is the sum of a first, a second
\* and a third part.
THEOREM ResultsOfWholeParts == Spec => []FinalOfWholeParts
<1>1. IInv => FinalOfWholeParts
  BY DEF IInv
<1> QED
  BY Invariant, <1>1, PTL
=============================================================================
