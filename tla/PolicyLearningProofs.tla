----------------------- MODULE PolicyLearningProofs ------------------------
(***************************************************************************)
(* Proofs about the learning of a policy.  For every set of corpora and    *)
(* every limit, a search ends with the best policy it evaluated within the *)
(* baseline's tokens, and gives each policy a version of its own.          *)
(***************************************************************************)
EXTENDS PolicyLearning, FiniteSetTheorems, WellFoundedInduction, TLAPS

-----------------------------------------------------------------------------
(* Numbers *)

\* The order of the natural numbers, as a relation.
Below == {p \in Nat \X Nat : p[1] < p[2]}

\* Numbers do not decrease for ever.
LEMMA BelowIsWellFounded == IsWellFoundedOn(Below, Nat)
<1>1. Below = OpToRel(<, Nat)
  BY Zenon DEF OpToRel, Below
<1> QED
  BY <1>1, NatLessThanWellFounded

\* A set of numbers has a least one.
LEMMA LeastOf ==
  ASSUME NEW T \in SUBSET Nat, T # {}
  PROVE  \E n \in T : \A m \in T : n <= m
<1>1. PICK n \in T : \A m \in T : ~(<<m, n>> \in Below)
  BY BelowIsWellFounded, WFMin
<1>2. ASSUME NEW m \in T
      PROVE  n <= m
  <2>1. ~(<<m, n>> \in Below) /\ m \in Nat /\ n \in Nat
    BY <1>1
  <2> QED
    BY <2>1 DEF Below
<1> QED
  BY <1>2

\* A set with 0 and every successor is that of all numbers: induction, of sets.
LEMMA Induction ==
  ASSUME NEW T \in SUBSET Nat, 0 \in T, \A n \in T : n + 1 \in T
  PROVE  T = Nat
<1>1. SUFFICES ASSUME Nat \ T # {}
               PROVE  FALSE
  OBVIOUS
<1>2. PICK n \in Nat \ T : \A m \in Nat \ T : n <= m
  BY <1>1, LeastOf
<1>3. n # 0 /\ n - 1 \in Nat /\ (n - 1) + 1 = n
  OBVIOUS
<1> QED
  BY <1>2, <1>3

-----------------------------------------------------------------------------
(* Sums *)

\* The sums of the community modules take one element away after the other.
Picked(s) == CHOOSE x \in s : TRUE

SumBody(f, sum, s) == IF s = {} THEN 0 ELSE f[Picked(s)] + sum[s \ {Picked(s)}]

\* The subsets of at most n elements.
SmallSets(S, n) == {s \in SUBSET S : Cardinality(s) <= n}

\* sum is the sum of f, for the sets of at most n elements.
SumsUpTo(f, sum, n) ==
  LET small == SmallSets(DOMAIN f, n)
  IN  sum \in [small -> Int] /\ \A s \in small : sum[s] = SumBody(f, sum, s)

\* Without the element taken, a set has one less.
LEMMA SmallerSet ==
  ASSUME NEW S, IsFiniteSet(S), NEW n \in Nat, NEW s \in SmallSets(S, n), s # {}
  PROVE  /\ Picked(s) \in s /\ Picked(s) \in S
         /\ n # 0 /\ s \ {Picked(s)} \in SmallSets(S, n - 1)
         /\ s \ {Picked(s)} \in SmallSets(S, n)
<1>1. Picked(s) \in s
  BY DEF Picked
<1>2. IsFiniteSet(s) /\ Cardinality(s) \in Nat
  BY FS_Subset, FS_CardinalityType DEF SmallSets
<1>3. Cardinality(s \ {Picked(s)}) = Cardinality(s) - 1
  BY <1>1, <1>2, FS_RemoveElement
<1>4. Cardinality(s) # 0
  BY <1>2, FS_EmptySet
<1> QED
  BY <1>1, <1>2, <1>3, <1>4 DEF SmallSets

\* The sums of the sets of at most n elements exist, by induction on n.
LEMMA SumsExist ==
  ASSUME NEW f, IsFiniteSet(DOMAIN f), \A x \in DOMAIN f : f[x] \in Int,
         NEW n \in Nat
  PROVE  \E sum : SumsUpTo(f, sum, n)
<1> DEFINE S == DOMAIN f
           T == {m \in Nat : \E sum : SumsUpTo(f, sum, m)}
<1>1. 0 \in T
  <2> DEFINE sum == [s \in SmallSets(S, 0) |-> 0]
  <2>1. \A s \in SmallSets(S, 0) : s = {}
    BY SmallerSet
  <2>2. SumsUpTo(f, sum, 0)
    BY <2>1 DEF SumsUpTo, SumBody
  <2> QED
    BY <2>2
<1>2. ASSUME NEW m \in T
      PROVE  m + 1 \in T
  <2>1. PICK old : SumsUpTo(f, old, m)
    OBVIOUS
  <2> DEFINE sum == [s \in SmallSets(S, m + 1) |-> SumBody(f, old, s)]
  <2>2. SmallSets(S, m) \subseteq SmallSets(S, m + 1)
    <3> SUFFICES ASSUME NEW s \in SmallSets(S, m)
                 PROVE  s \in SmallSets(S, m + 1)
      OBVIOUS
    <3>1. Cardinality(s) \in Nat
      BY FS_Subset, FS_CardinalityType DEF SmallSets
    <3> QED
      BY <3>1 DEF SmallSets
  <2>3. ASSUME NEW s \in SmallSets(S, m)
        PROVE  sum[s] = old[s]
    BY <2>1, <2>2 DEF SumsUpTo
  <2>4. ASSUME NEW s \in SmallSets(S, m + 1), s # {}
        PROVE  Picked(s) \in S /\ s \ {Picked(s)} \in SmallSets(S, m)
    BY <2>4, SmallerSet, m + 1 \in Nat, (m + 1) - 1 = m
  <2>5. \A s \in SmallSets(S, m + 1) : sum[s] \in Int
    BY <2>1, <2>4 DEF SumsUpTo, SumBody
  <2>6. ASSUME NEW s \in SmallSets(S, m + 1)
        PROVE  sum[s] = SumBody(f, sum, s)
    <3>1. CASE s = {}
      BY <3>1 DEF SumBody
    <3>2. CASE s # {}
      <4>1. sum[s \ {Picked(s)}] = old[s \ {Picked(s)}]
        BY <3>2, <2>3, <2>4
      <4>2. sum[s] = SumBody(f, old, s)
        OBVIOUS
      <4> HIDE DEF sum
      <4> QED
        BY <3>2, <4>1, <4>2 DEF SumBody
    <3> QED
      BY <3>1, <3>2
  <2>7. SumsUpTo(f, sum, m + 1)
    <3>1. sum \in [SmallSets(S, m + 1) -> Int]
      BY <2>5
    <3> HIDE DEF sum
    <3> QED
      BY <3>1, <2>6 DEF SumsUpTo
  <2> QED
    BY <2>7
<1> QED
  <2>1. T = Nat
    BY <1>1, <1>2, Induction
  <2> QED
    BY <2>1

\* The sum of finitely many integers is one.
LEMMA SumIsInt ==
  ASSUME NEW f, IsFiniteSet(DOMAIN f), \A x \in DOMAIN f : f[x] \in Int
  PROVE  SumFunction(f) \in Int
<1> DEFINE S == DOMAIN f
           Def(sum) == [s \in SUBSET S |-> SumBody(f, sum, s)]
           iter == CHOOSE sum : sum = Def(sum)
           n == Cardinality(S)
<1>1. n \in Nat
  BY FS_CardinalityType
<1>2. SmallSets(S, n) = SUBSET S
  BY FS_Subset DEF SmallSets
<1>3. PICK sum : SumsUpTo(f, sum, n)
  BY <1>1, SumsExist
<1>4. sum = Def(sum)
  BY <1>2, <1>3 DEF SumsUpTo
<1>5. iter = Def(iter)
  BY <1>4
<1>6. SumFunction(f) = iter[S]
  BY DEF SumFunction, SumFunctionOnSet, FoldFunctionOnSet, MapThenFoldSet, SumBody, Picked
<1> DEFINE T == {m \in Nat : \A s \in SmallSets(S, m) : iter[s] \in Int}
<1> HIDE DEF iter
<1>7. \A s \in SUBSET S : iter[s] = SumBody(f, iter, s)
  BY <1>5
<1>8. iter[{}] = 0
  BY <1>7 DEF SumBody
<1>9. 0 \in T
  <2>1. \A s \in SmallSets(S, 0) : s = {}
    BY SmallerSet
  <2> QED
    BY <2>1, <1>8
<1>10. ASSUME NEW m \in T
      PROVE  m + 1 \in T
  <2>1. ASSUME NEW s \in SmallSets(S, m + 1), s # {}
        PROVE  iter[s] \in Int
    <3>1. Picked(s) \in S /\ s \ {Picked(s)} \in SmallSets(S, m)
      BY <2>1, SmallerSet, m + 1 \in Nat, (m + 1) - 1 = m
    <3>2. iter[s \ {Picked(s)}] \in Int
      BY <3>1
    <3>3. iter[s] = SumBody(f, iter, s)
      BY <1>7 DEF SmallSets
    <3> QED
      BY <2>1, <3>1, <3>2, <3>3 DEF SumBody
  <2>2. \A s \in SmallSets(S, m + 1) : iter[s] \in Int
    <3> SUFFICES ASSUME NEW s \in SmallSets(S, m + 1)
                 PROVE  iter[s] \in Int
      OBVIOUS
    <3>1. CASE s = {}
      BY <3>1, <1>8
    <3> QED
      BY <3>1, <2>1
  <2> QED
    BY <2>2, m + 1 \in Nat
<1>11. T = Nat
  BY <1>9, <1>10, Induction
<1>12. S \in SmallSets(S, n)
  BY <1>2
<1> QED
  BY <1>1, <1>6, <1>11, <1>12

-----------------------------------------------------------------------------
(* Sequences and minima *)

\* A prefix of a sequence is one.
LEMMA PrefixIsSeq ==
  ASSUME NEW S, NEW s \in Seq(S), NEW m \in Nat, m <= Len(s)
  PROVE  /\ SubSeq(s, 1, m) \in Seq(S) /\ Len(SubSeq(s, 1, m)) = m
         /\ \A i \in 1 .. m : SubSeq(s, 1, m)[i] = s[i]
OBVIOUS

\* A join of sequences begins like the first.
LEMMA JoinIsSeq ==
  ASSUME NEW S, NEW s \in Seq(S), NEW t \in Seq(S)
  PROVE  /\ s \o t \in Seq(S) /\ Len(s \o t) = Len(s) + Len(t)
         /\ Len(s) >= 1 => (s \o t)[1] = s[1]
OBVIOUS

\* A function of the first numbers is a sequence.
LEMMA ListIsSeq ==
  ASSUME NEW n \in Nat, NEW list, list = [i \in 1 .. n |-> list[i]]
  PROVE  list \in Seq(Range(list)) /\ Len(list) = n
<1>1. Range(list) = {list[i] : i \in 1 .. n}
  BY DEF Range
<1>2. list \in [1 .. n -> Range(list)]
  BY <1>1
<1> QED
  BY <1>2

\* A sequence that is not empty has a first element.
LEMMA FirstIs ==
  ASSUME NEW S, NEW s \in Seq(S), s # << >>
  PROVE  Len(s) \in Nat /\ Len(s) >= 1 /\ Head(s) = s[1] /\ 1 \in DOMAIN s /\ s[1] \in S
OBVIOUS

\* A sequence of one element is the one of its first.
LEMMA OneElement ==
  ASSUME NEW S, NEW s \in Seq(S), Len(s) <= 1, s # << >>
  PROVE  s = <<s[1]>> /\ Len(s) = 1 /\ s[1] \in S
<1>1. Len(s) = 1 /\ s[1] \in S
  <2>1. Len(s) \in Nat /\ Len(s) # 0
    OBVIOUS
  <2>2. Len(s) = 1
    BY <2>1
  <2> QED
    BY <2>2
<1>2. s = [i \in 1 .. 1 |-> s[i]]
  BY <1>1
<1>3. s = <<s[1]>>
  BY <1>2
<1> QED
  BY <1>1, <1>3

\* The lesser of two numbers is one of them.
LEMMA MinIs ==
  ASSUME NEW m \in Nat, NEW n \in Nat
  PROVE  Min({m, n}) \in {m, n} /\ Min({m, n}) <= m /\ Min({m, n}) <= n
BY DEF Min

\* A set of numbers has its minimum.
LEMMA LeastPosition ==
  ASSUME NEW T \in SUBSET Nat, T # {}
  PROVE  Min(T) \in T /\ \A m \in T : Min(T) <= m
BY LeastOf DEF Min

-----------------------------------------------------------------------------
(* Measures of a report *)

\* A split of a corpus has finitely many of its tasks.
LEMMA PartIsFinite ==
  ASSUME NEW corpus \in Corpora, NEW split
  PROVE  IsFiniteSet(Part(corpus, split)) /\ Part(corpus, split) \subseteq corpus
BY CorpusAssumption, FS_Subset DEF Part

\* A report has a result for each task of a set.
LEMMA ReportOf ==
  ASSUME NEW corpus \in Corpora, NEW split, NEW policy
  PROVE  LET tasks == Part(corpus, split)
             report == evaluate_policy(tasks, policy)
         IN  /\ IsFiniteSet(DOMAIN report)
             /\ \A id \in DOMAIN report : \E task \in tasks :
                  report[id] = Result(task, score_hits(task, policy), tokens_for_ids(task, policy))
<1> DEFINE tasks == Part(corpus, split)
           ids == {task.id : task \in tasks}
           report == evaluate_policy(tasks, policy)
           idOf == [task \in tasks |-> task.id]
<1>1. IsFiniteSet(tasks)
  BY PartIsFinite
<1>2. DOMAIN report = ids
  BY DEF evaluate_policy
<1>3. idOf \in Surjection(tasks, ids)
  BY DEF Surjection
<1>4. IsFiniteSet(ids)
  BY <1>1, <1>3, FS_Surjection
<1>5. ASSUME NEW id \in ids
      PROVE  \E task \in tasks :
               report[id] = Result(task, score_hits(task, policy), tokens_for_ids(task, policy))
  <2> DEFINE task == CHOOSE t \in tasks : t.id = id
  <2>1. task \in tasks
    OBVIOUS
  <2>2. report[id] = Result(task, score_hits(task, policy), tokens_for_ids(task, policy))
    BY DEF evaluate_policy
  <2> QED
    BY <2>1, <2>2
<1> HIDE DEF report, ids
<1> QED
  BY <1>2, <1>4, <1>5 DEF report

\* Hits are counted by a number.
LEMMA MatchesIsNat ==
  ASSUME NEW corpus \in Corpora, NEW task \in corpus, NEW policy
  PROVE  score_hits(task, policy) \in Nat /\ Cardinality(task.expected) \in Nat
<1>1. IsFiniteSet(task.expected)
  BY CorpusAssumption
<1> QED
  BY <1>1, FS_Subset, FS_CardinalityType DEF score_hits

\* The quality of a report is a number, whatever the policy.
LEMMA QualityIsInt ==
  ASSUME NEW corpus \in Corpora, NEW split, NEW policy
  PROVE  quality(evaluate_policy(Part(corpus, split), policy)) \in Int
<1> DEFINE tasks == Part(corpus, split)
           report == evaluate_policy(tasks, policy)
           recalls == [id \in DOMAIN report |-> Twelfths(report[id])]
           passed == {id \in DOMAIN report : report[id].passed}
<1>1. IsFiniteSet(DOMAIN report)
  BY ReportOf
<1>2. Cardinality(passed) \in Nat
  BY <1>1, FS_Subset, FS_CardinalityType
<1>3. ASSUME NEW id \in DOMAIN report
      PROVE  Twelfths(report[id]) \in Int
  <2>1. PICK task \in tasks :
               report[id] = Result(task, score_hits(task, policy), tokens_for_ids(task, policy))
    BY ReportOf
  <2>2. task \in corpus
    BY PartIsFinite
  <2> DEFINE m == score_hits(task, policy)
             e == Cardinality(task.expected)
  <2>3. m \in Nat /\ e \in Nat
    BY <2>2, MatchesIsNat
  <2>4. report[id].matches = m /\ report[id].expected = e
    BY <2>1 DEF Result
  <2> HIDE DEF m, e, report
  <2>5. e # 0 => (12 * m) \div e \in Int
    BY <2>3
  <2> QED
    BY <2>4, <2>5 DEF Twelfths
<1>4. SumFunction(recalls) \in Int
  <2> HIDE DEF report
  <2>1. IsFiniteSet(DOMAIN recalls) /\ \A id \in DOMAIN recalls : recalls[id] \in Int
    BY <1>1, <1>3
  <2> HIDE DEF recalls
  <2> QED
    BY <2>1, SumIsInt
<1> QED
  BY <1>2, <1>4 DEF quality, pass_rate, mean_recall

\* What the baseline finds has a length.
LEMMA BaselineHits ==
  ASSUME NEW corpus \in Corpora, NEW task \in corpus
  PROVE  Hits(task, baseline) \in Seq(DOMAIN task.length)
<1> DEFINE found == IF baseline.weights \in DOMAIN task.found THEN task.found[baseline.weights]
                    ELSE task.found["default"]
           first(n) == SubSeq(found, 1, Min({n, Len(found)}))
<1>1. found \in Seq(DOMAIN task.length)
  BY CorpusAssumption
<1>2. ASSUME NEW n \in Nat
      PROVE  first(n) \in Seq(DOMAIN task.length)
  <2>1. Len(found) \in Nat
    BY <1>1
  <2> DEFINE len == Len(found)
  <2> HIDE DEF len
  <2>2. Min({n, len}) \in Nat /\ Min({n, len}) <= len
    <3>1. len \in Nat
      BY <2>1 DEF len
    <3> QED
      BY <3>1, MinIs
  <2> USE DEF len
  <2> HIDE DEF found
  <2>3. SubSeq(found, 1, Min({n, Len(found)})) \in Seq(DOMAIN task.length)
    BY <1>1, <2>2, PrefixIsSeq
  <2> QED
    BY <2>3
<1>3. baseline.top_k \in Nat /\ 1 + baseline.semantic_hits \in Nat
  BY DEF baseline
<1>4. Hits(task, baseline) \in {first(baseline.top_k), first(1 + baseline.semantic_hits), found}
  BY DEF Hits
<1> HIDE DEF first, found
<1> QED
  BY <1>1, <1>2, <1>3, <1>4

\* The tokens of the baseline are a number.
LEMMA BudgetIsInt ==
  ASSUME NEW corpus \in Corpora, NEW split
  PROVE  mean_tokens(evaluate_policy(Part(corpus, split), baseline)) \in Int
<1> DEFINE tasks == Part(corpus, split)
           report == evaluate_policy(tasks, baseline)
           tokens == [id \in DOMAIN report |-> report[id].tokens]
<1>1. IsFiniteSet(DOMAIN report)
  BY ReportOf
<1>2. ASSUME NEW task \in corpus
      PROVE  tokens_for_ids(task, baseline) \in Int
  <2> DEFINE hits == Hits(task, baseline)
             parts == [i \in DOMAIN hits |-> ContentLength(task, baseline, i, hits[i]) \div 4]
  <2>1. hits \in Seq(DOMAIN task.length)
    BY BaselineHits
  <2>2. DOMAIN hits = 1 .. Len(hits) /\ Len(hits) \in Nat
    BY <2>1
  <2>3. IsFiniteSet(DOMAIN hits)
    BY <2>2, FS_Interval
  <2>4. ASSUME NEW i \in DOMAIN hits
        PROVE  ContentLength(task, baseline, i, hits[i]) \div 4 \in Int
    <3>1. task.length[hits[i]] \in Nat
      BY <2>1, <2>4, CorpusAssumption
    <3> DEFINE window == IF i = 1 THEN baseline.primary_window_chars
                         ELSE baseline.related_window_chars
               len == task.length[hits[i]]
    <3>2. window \in Nat
      BY DEF baseline
    <3>3. ContentLength(task, baseline, i, hits[i]) \in {len, Min({len, window})}
      BY DEF ContentLength
    <3>4. len \in Nat
      BY <3>1
    <3> HIDE DEF window, len, hits
    <3>5. Min({len, window}) \in Nat
      BY <3>2, <3>4 DEF Min
    <3> QED
      BY <3>3, <3>4, <3>5
  <2>5. SumFunction(parts) \in Int
    <3> HIDE DEF hits
    <3>1. IsFiniteSet(DOMAIN parts) /\ \A i \in DOMAIN parts : parts[i] \in Int
      BY <2>3, <2>4
    <3> HIDE DEF parts
    <3> QED
      BY <3>1, SumIsInt
  <2> QED
    BY <2>5 DEF tokens_for_ids
<1>3. ASSUME NEW id \in DOMAIN report
      PROVE  report[id].tokens \in Int
  <2>1. PICK task \in tasks :
               report[id] = Result(task, score_hits(task, baseline), tokens_for_ids(task, baseline))
    BY ReportOf
  <2>2. task \in corpus
    BY PartIsFinite
  <2>3. tokens_for_ids(task, baseline) \in Int
    BY <1>2, <2>2
  <2> HIDE DEF report
  <2> QED
    BY <2>1, <2>3 DEF Result
<1>4. SumFunction(tokens) \in Int
  <2> HIDE DEF report
  <2>1. IsFiniteSet(DOMAIN tokens) /\ \A id \in DOMAIN tokens : tokens[id] \in Int
    BY <1>1, <1>3
  <2> HIDE DEF tokens
  <2> QED
    BY <2>1, SumIsInt
<1> QED
  BY <1>4 DEF mean_tokens

-----------------------------------------------------------------------------
(* The candidates *)

\* A sequence of n elements, of whatever kind.
IsList(s, n) == \E V : s \in Seq(V) /\ Len(s) = n

\* Joined lists are as long as both.
LEMMA Joined ==
  ASSUME NEW s, NEW t, NEW m \in Nat, NEW n \in Nat, IsList(s, m), IsList(t, n)
  PROVE  IsList(s \o t, m + n)
<1>1. PICK V : s \in Seq(V) /\ Len(s) = m
  BY DEF IsList
<1>2. PICK W : t \in Seq(W) /\ Len(t) = n
  BY DEF IsList
<1>3. s \in Seq(V \cup W) /\ t \in Seq(V \cup W)
  BY <1>1, <1>2
<1>4. s \o t \in Seq(V \cup W) /\ Len(s \o t) = m + n
  BY <1>1, <1>2, <1>3
<1> QED
  BY <1>4 DEF IsList

\* A function of 1 .. n is a list of n.
LEMMA Listed ==
  ASSUME NEW n \in Nat, NEW f, f = [i \in 1 .. n |-> f[i]]
  PROVE  IsList(f, n)
<1>1. f \in Seq({f[i] : i \in 1 .. n}) /\ Len(f) = n
  OBVIOUS
<1> QED
  BY <1>1 DEF IsList

\* How many candidates each group of changes has.
LEMMA GroupSizes ==
  /\ IsList(ProfileChanges, 8) /\ IsList(HitsChanges, 2) /\ IsList(WindowChanges, 8)
  /\ IsList(TopKChanges, 10) /\ IsList(WideChanges, 8) /\ IsList(WeightChanges, 6)
  /\ IsList(ThresholdChanges, 10)
<1>1. /\ Len(Profiles) = 4 /\ Len(Windows) = 4 /\ Len(Perturbations) = 6
  BY DEF Profiles, Windows, Perturbations
<1>2. IsList(ProfileChanges, 8)
  <2>1. ProfileChanges = [i \in 1 .. 8 |-> ProfileChanges[i]]
    BY <1>1 DEF ProfileChanges, Each
  <2> QED BY <2>1, Listed
<1>3. IsList(HitsChanges, 2)
  <2>1. HitsChanges = [i \in 1 .. 2 |-> HitsChanges[i]]
    BY DEF HitsChanges
  <2> QED BY <2>1, Listed
<1>4. IsList(WindowChanges, 8)
  <2>1. WindowChanges = [i \in 1 .. 8 |-> WindowChanges[i]]
    BY <1>1 DEF WindowChanges, Each
  <2> QED BY <2>1, Listed
<1>5. IsList(TopKChanges, 10)
  <2>1. TopKChanges = [i \in 1 .. 10 |-> TopKChanges[i]]
    BY DEF TopKChanges, Each
  <2> QED BY <2>1, Listed
<1>6. IsList(WideChanges, 8)
  <2>1. WideChanges = [i \in 1 .. 8 |-> WideChanges[i]]
    BY <1>1 DEF WideChanges, Each
  <2> QED BY <2>1, Listed
<1>7. IsList(WeightChanges, 6)
  <2>1. WeightChanges = [i \in 1 .. 6 |-> WeightChanges[i]]
    BY <1>1 DEF WeightChanges, Each
  <2> QED BY <2>1, Listed
<1>8. IsList(ThresholdChanges, 10)
  <2>1. ThresholdChanges = [i \in 1 .. 10 |-> ThresholdChanges[i]]
    BY DEF ThresholdChanges
  <2> QED BY <2>1, Listed
<1> QED
  BY <1>2, <1>3, <1>4, <1>5, <1>6, <1>7, <1>8

\* There are 52 candidates (optimize.rs:284), numbered from 2.
LEMMA CandidatesAreNumbered ==
  /\ DOMAIN candidate_policies = 1 .. 52 /\ Len(candidate_policies) = 52
  /\ \A i \in 1 .. 52 : /\ "version" \in DOMAIN candidate_policies[i]
                        /\ candidate_policies[i].version = i + 1
<1>1. IsList(Changes, 52)
  <2>1. IsList(ProfileChanges \o HitsChanges, 10)
    BY GroupSizes, Joined, 8 + 2 = 10
  <2>2. IsList(ProfileChanges \o HitsChanges \o WindowChanges, 18)
    BY <2>1, GroupSizes, Joined, 10 + 8 = 18
  <2>3. IsList(ProfileChanges \o HitsChanges \o WindowChanges \o TopKChanges, 28)
    BY <2>2, GroupSizes, Joined, 18 + 10 = 28
  <2>4. IsList(ProfileChanges \o HitsChanges \o WindowChanges \o TopKChanges \o WideChanges, 36)
    BY <2>3, GroupSizes, Joined, 28 + 8 = 36
  <2>5. IsList(ProfileChanges \o HitsChanges \o WindowChanges \o TopKChanges \o WideChanges
               \o WeightChanges, 42)
    BY <2>4, GroupSizes, Joined, 36 + 6 = 42
  <2> QED
    BY <2>5, GroupSizes, Joined, 42 + 10 = 52 DEF Changes
<1>2. DOMAIN Changes = 1 .. 52
  BY <1>1 DEF IsList
<1>3. candidate_policies = [i \in 1 .. 52 |-> Candidate(Changes[i], i + 1)]
  BY <1>2 DEF candidate_policies
<1>4. Len(candidate_policies) = 52
  BY <1>3
<1>5. ASSUME NEW i \in 1 .. 52
      PROVE  /\ "version" \in DOMAIN candidate_policies[i]
             /\ candidate_policies[i].version = i + 1
  <2>1. "version" \in DOMAIN baseline
    BY DEF baseline
  <2>2. candidate_policies[i] = Candidate(Changes[i], i + 1)
    BY <1>3
  <2> QED
    BY <2>1, <2>2 DEF Candidate
<1> QED
  BY <1>3, <1>4, <1>5

-----------------------------------------------------------------------------
(* The invariant of the search *)

\* The entries that may win.
Eligible == {entry \in learning.evaluated : Affordable(entry, learning.first.tokens)}

\* No policy that was evaluated has this version or a later one.
FreeVersion ==
  IF learning.pc = "grid" THEN learning.count + 2 ELSE learning.version - Len(learning.variants)

\* The entries the winner will be the best of: those a climb ended with or goes
\* on from or, before the first climb, the first start.
Leaders ==
  IF learning.start = << >> /\ learning.best = << >>
  THEN IF learning.starts = << >> THEN {} ELSE {learning.starts[1]}
  ELSE Range(learning.start) \cup Range(learning.best)

\* The fields of a search.
SearchFields == {"pc", "corpus", "limit", "first", "count", "evaluated", "starts", "version",
                 "start", "round", "improved", "variants", "best"}

\* A record with these fields.
IsSearch(search) == search = [field \in SearchFields |-> search[field]]

\* What a climb starts from, goes on from or ended with is eligible.
SearchShape ==
  /\ IsSearch(learning)
  /\ learning.corpus \in Corpora /\ learning.limit \in Nat
  /\ learning.count \in Nat /\ learning.version \in Nat
  /\ learning.starts \in Seq(Eligible) /\ Len(learning.starts) <= 3
  /\ learning.start \in Seq(Eligible) /\ Len(learning.start) <= 1
  /\ learning.best \in Seq(Eligible) /\ Len(learning.best) <= 1
  /\ learning.variants \in Seq(Range(learning.variants)) /\ Len(learning.variants) <= 3
  /\ learning.start = << >> => learning.variants = << >>

\* During the grid no climb has begun.
GridShape ==
  learning.pc = "grid" => /\ learning.count <= 52 /\ learning.version = HILL_VERSION
                          /\ learning.start = << >> /\ learning.best = << >>

\* What is evaluated was measured, and has a version of its own.
EntriesMeasured ==
  \A entry \in learning.evaluated : /\ entry.quality \in Int
                                    /\ "version" \in DOMAIN entry.policy
                                    /\ entry.policy.version \in Int
                                    /\ entry.policy.version < FreeVersion

\* A version names one entry.
VersionsUnique ==
  \A a, b \in learning.evaluated : a.policy.version = b.policy.version => a = b

\* The variants still to try have the next versions.
VariantsNumbered ==
  \A i \in DOMAIN learning.variants :
    /\ "version" \in DOMAIN learning.variants[i]
    /\ learning.variants[i].version = learning.version - Len(learning.variants) + i - 1

\* The baseline costs no more than itself.
BudgetFits == Affordable(learning.first, learning.first.tokens)

\* No entry that may win is better than all leaders.
LeadersAreBest == \A entry \in Eligible : \E leader \in Leaders : entry.quality <= leader.quality

\* The invariant of the grid and the climbs.
SearchInv ==
  /\ SearchShape /\ GridShape /\ EntriesMeasured /\ VersionsUnique /\ VariantsNumbered
  /\ BudgetFits /\ LeadersAreBest

\* What makes WinnerIsBest inductive.
LearningInv ==
  /\ "pc" \in DOMAIN learning
  /\ learning.pc \in {"grid", "climb"} => SearchInv
  /\ WinnerIsBest

-----------------------------------------------------------------------------
(* The ranking keeps its three best *)

\* An inserted entry is among the ranked, and the first is the best.
LEMMA RankedKeeps ==
  ASSUME NEW S, NEW starts \in Seq(S), NEW entry \in S
  PROVE  /\ Ranked(starts, entry) \in Seq(S) /\ Len(Ranked(starts, entry)) <= 3
         /\ Ranked(starts, entry) # << >>
         /\ Ranked(starts, entry)[1] = IF starts = << >> \/ better_than(entry, starts[1])
                                       THEN entry ELSE starts[1]
<1> DEFINE after == {i \in DOMAIN starts : better_than(entry, starts[i])}
           position == IF after = {} THEN Len(starts) + 1 ELSE Min(after)
           all == InsertAt(starts, position, entry)
           kept == Min({Len(all), HILL_CLIMB_STARTS})
<1>1. position \in 1 .. Len(starts) + 1
  <2>1. after \subseteq Nat /\ after \subseteq 1 .. Len(starts)
    OBVIOUS
  <2>2. CASE after = {}
    BY <2>2
  <2>3. CASE after # {}
    <3>1. Min(after) \in after
      BY <2>1, <2>3, LeastPosition
    <3> QED
      BY <2>1, <2>3, <3>1
  <2> QED
    BY <2>2, <2>3
<1>2. position = 1 <=> starts = << >> \/ better_than(entry, starts[1])
  <2>1. CASE starts = << >>
    BY <2>1
  <2>2. CASE starts # << >> /\ better_than(entry, starts[1])
    <3>1. 1 \in after /\ after \subseteq Nat
      BY <2>2
    <3>2. Min(after) \in after /\ Min(after) <= 1
      BY <3>1, LeastPosition
    <3>3. Min(after) = 1
      BY <3>2
    <3> QED
      BY <2>2, <3>1, <3>3
  <2>3. CASE starts # << >> /\ ~better_than(entry, starts[1])
    <3>1. 1 \notin after /\ after \subseteq Nat
      BY <2>3
    <3>2. after # {} => Min(after) \in after
      BY <3>1, LeastPosition
    <3>3. after # {} => Min(after) # 1
      BY <3>1, <3>2
    <3>4. Len(starts) + 1 # 1
      BY <2>3
    <3> QED
      BY <2>3, <3>3, <3>4
  <2> QED
    BY <2>1, <2>2, <2>3
<1> HIDE DEF position
<1>3. /\ all \in Seq(S) /\ Len(all) = Len(starts) + 1
      /\ all[1] = IF position = 1 THEN entry ELSE starts[1]
  <2> DEFINE front == SubSeq(starts, 1, position - 1)
             back == SubSeq(starts, position, Len(starts))
  <2>1. /\ front \in Seq(S) /\ Len(front) = position - 1
        /\ \A i \in 1 .. position - 1 : front[i] = starts[i]
    BY <1>1, PrefixIsSeq
  <2>2. back \in Seq(S) /\ Len(back) = Len(starts) + 1 - position
    BY <1>1
  <2>3. all = front \o <<entry>> \o back
    BY DEF InsertAt
  <2> HIDE DEF front, back, all
  <2>4. <<entry>> \in Seq(S) /\ Len(<<entry>>) = 1 /\ <<entry>>[1] = entry
    OBVIOUS
  <2>5. /\ front \o <<entry>> \in Seq(S) /\ Len(front \o <<entry>>) = position
        /\ (front \o <<entry>>)[1] = IF position = 1 THEN entry ELSE starts[1]
    BY <1>1, <2>1, <2>4
  <2> DEFINE most == front \o <<entry>>
  <2> HIDE DEF most
  <2>6. /\ most \o back \in Seq(S) /\ Len(most \o back) = Len(most) + Len(back)
        /\ Len(most) >= 1 => (most \o back)[1] = most[1]
    BY <2>2, <2>5, JoinIsSeq DEF most
  <2>7. Len(most) = position /\ most[1] = IF position = 1 THEN entry ELSE starts[1]
    BY <2>5 DEF most
  <2>8. all = most \o back
    BY <2>3 DEF most
  <2> QED
    BY <1>1, <2>2, <2>6, <2>7, <2>8
<1>4. kept \in Nat /\ kept <= Len(all) /\ kept <= 3 /\ kept >= 1
  <2>1. Len(all) \in Nat /\ Len(all) >= 1
    BY <1>3
  <2> HIDE DEF all
  <2> QED
    BY <2>1, MinIs DEF HILL_CLIMB_STARTS
<1>5. Ranked(starts, entry) = SubSeq(all, 1, kept)
  BY DEF Ranked, position
<1> HIDE DEF all, kept
<1>6. /\ SubSeq(all, 1, kept) \in Seq(S) /\ Len(SubSeq(all, 1, kept)) = kept
      /\ SubSeq(all, 1, kept)[1] = all[1]
  BY <1>3, <1>4, PrefixIsSeq
<1> QED
  BY <1>2, <1>3, <1>4, <1>5, <1>6

\* What is better has no lower quality; what is not has no higher one.
LEMMA BetterIs ==
  ASSUME NEW a, NEW b, a.quality \in Int, b.quality \in Int
  PROVE  /\ better_than(a, b) => b.quality <= a.quality
         /\ ~better_than(a, b) => a.quality <= b.quality
BY DEF better_than

-----------------------------------------------------------------------------
(* Every step of the search keeps its invariant *)

\* The entry of a policy was measured.
LEMMA EntryIs ==
  ASSUME learning.corpus \in Corpora, NEW policy
  PROVE  /\ GridEntry(Training, policy).policy = policy
         /\ GridEntry(Training, policy).quality \in Int
<1>1. quality(evaluate_policy(Training, policy)) \in Int
  BY QualityIsInt DEF Training
<1> QED
  BY <1>1 DEF GridEntry

\* The next version is a number.
LEMMA FreeVersionIsInt ==
  ASSUME SearchShape
  PROVE  FreeVersion \in Int
<1>1. learning.count \in Nat /\ learning.version \in Nat /\ Len(learning.variants) \in Nat
  BY DEF SearchShape
<1> QED
  BY <1>1 DEF FreeVersion

\* One more entry, with a version of its own.
LEMMA OneMoreEntry ==
  ASSUME SearchInv, NEW entry,
         learning'.evaluated = learning.evaluated \cup {entry},
         learning'.first = learning.first,
         entry.quality \in Int, "version" \in DOMAIN entry.policy,
         entry.policy.version = FreeVersion, FreeVersion' \in Int, FreeVersion < FreeVersion'
  PROVE  /\ EntriesMeasured' /\ VersionsUnique' /\ BudgetFits'
         /\ Eligible' = Eligible \cup (IF Affordable(entry, learning.first.tokens) THEN {entry} ELSE {})
<1>1. FreeVersion \in Int
  BY FreeVersionIsInt DEF SearchInv
<1>2. EntriesMeasured'
  <2>1. ASSUME NEW e \in learning.evaluated
        PROVE  /\ e.quality \in Int /\ "version" \in DOMAIN e.policy
               /\ e.policy.version \in Int /\ e.policy.version < FreeVersion'
    <3>1. /\ e.quality \in Int /\ "version" \in DOMAIN e.policy
          /\ e.policy.version \in Int /\ e.policy.version < FreeVersion
      BY DEF SearchInv, EntriesMeasured
    <3> QED
      BY <1>1, <3>1
  <2> QED
    BY <1>1, <2>1 DEF EntriesMeasured
<1>3. VersionsUnique'
  <2>1. \A e \in learning.evaluated : e.policy.version # entry.policy.version
    BY <1>1 DEF SearchInv, EntriesMeasured
  <2>2. \A a, b \in learning.evaluated : a.policy.version = b.policy.version => a = b
    BY DEF SearchInv, VersionsUnique
  <2> QED
    BY <2>1, <2>2 DEF VersionsUnique
<1>4. BudgetFits'
  BY DEF SearchInv, BudgetFits
<1> QED
  BY <1>2, <1>3, <1>4 DEF Eligible

\* The search begins.
LEMMA SearchBegins ==
  ASSUME NEW corpus \in Corpora, NEW max_candidates \in MaxCandidates,
         Optimize(corpus, max_candidates)
  PROVE  LearningInv'
<1> DEFINE first == GridEntry(Part(corpus, "train"), baseline)
<1>1. learning' = [pc |-> "grid", corpus |-> corpus, limit |-> max_candidates, first |-> first,
                  count |-> 0, evaluated |-> {}, starts |-> << >>, version |-> HILL_VERSION,
                  start |-> << >>, round |-> 0, improved |-> FALSE, variants |-> << >>,
                  best |-> << >>]
  BY DEF Optimize
<1>2. first.tokens \in Int
  BY BudgetIsInt DEF GridEntry
<1> HIDE DEF first
<1>3. max_candidates \in Nat
  BY MaxCandidatesAssumption
<1>4. /\ SearchShape' /\ GridShape' /\ EntriesMeasured' /\ VersionsUnique'
      /\ VariantsNumbered'
  <2>1. IsSearch(learning')
    BY <1>1 DEF IsSearch, SearchFields
  <2>2. SearchShape'
    BY <1>1, <1>3, <2>1 DEF SearchShape, HILL_VERSION
  <2>3. EntriesMeasured' /\ VersionsUnique' /\ VariantsNumbered'
    BY <1>1 DEF EntriesMeasured, VersionsUnique, VariantsNumbered
  <2> QED
    BY <1>1, <2>2, <2>3 DEF GridShape
<1>5. BudgetFits' /\ LeadersAreBest'
  BY <1>1, <1>2 DEF BudgetFits, Affordable, LeadersAreBest, Eligible
<1> QED
  BY <1>1, <1>4, <1>5 DEF LearningInv, SearchInv, WinnerIsBest

\* A candidate is evaluated and ranked.
LEMMA CandidateRanks ==
  ASSUME LearningInv, RankCandidate
  PROVE  LearningInv'
<1>1. SearchInv /\ learning.pc = "grid"
  BY DEF LearningInv, RankCandidate
<1> DEFINE entry == GridEntry(Training, candidate_policies[learning.count + 1])
           affordable == Affordable(entry, learning.first.tokens)
           ranked == IF affordable THEN Ranked(learning.starts, entry) ELSE learning.starts
<1>2. learning' = [Evaluated(entry) EXCEPT !.starts = ranked]
  <2>1. Evaluated(entry).starts = learning.starts
    BY <1>1 DEF Evaluated, SearchInv, SearchShape, IsSearch, SearchFields
  <2> QED
    BY <2>1 DEF RankCandidate
<1>3. learning.count + 1 \in 1 .. 52 /\ learning.count \in Nat
  <2>1. learning.count < Min({learning.limit, 52}) /\ learning.limit \in Nat /\ learning.count \in Nat
    BY <1>1, CandidatesAreNumbered DEF RankCandidate, GridLeft, SearchInv, SearchShape
  <2>2. Min({learning.limit, 52}) \in Nat /\ Min({learning.limit, 52}) <= 52
    BY <2>1, MinIs, 52 \in Nat
  <2> QED
    BY <2>1, <2>2
<1>4. /\ entry.policy = candidate_policies[learning.count + 1] /\ entry.quality \in Int
  BY <1>1, EntryIs DEF SearchInv, SearchShape
<1>5. "version" \in DOMAIN entry.policy /\ entry.policy.version = learning.count + 2
  BY <1>3, <1>4, CandidatesAreNumbered
<1> HIDE DEF entry
<1>6. /\ learning'.pc = "grid" /\ learning'.corpus = learning.corpus
      /\ learning'.limit = learning.limit /\ learning'.first = learning.first
      /\ learning'.count = learning.count + 1
      /\ learning'.evaluated = learning.evaluated \cup {entry}
      /\ learning'.starts = ranked /\ learning'.version = learning.version
      /\ learning'.start = learning.start /\ learning'.variants = learning.variants
      /\ learning'.best = learning.best
  BY <1>1, <1>2 DEF Evaluated, SearchInv, SearchShape, IsSearch, SearchFields
<1>7. FreeVersion = learning.count + 2 /\ FreeVersion' = learning.count + 3
  BY <1>1, <1>3, <1>6 DEF FreeVersion
<1>8. /\ EntriesMeasured' /\ VersionsUnique' /\ BudgetFits'
      /\ Eligible' = Eligible \cup (IF affordable THEN {entry} ELSE {})
  <2>1. FreeVersion' \in Int /\ FreeVersion < FreeVersion'
    BY <1>3, <1>7
  <2> QED
    BY <1>1, <1>4, <1>5, <1>6, <1>7, <2>1, OneMoreEntry
<1>9. /\ learning.starts \in Seq(Eligible) /\ Len(learning.starts) <= 3
      /\ learning.start = << >> /\ learning.best = << >> /\ learning.variants = << >>
  BY <1>1 DEF SearchInv, SearchShape, GridShape
<1>10. /\ ranked \in Seq(Eligible') /\ Len(ranked) <= 3
       /\ affordable => /\ ranked # << >>
                        /\ ranked[1] = IF learning.starts = << >> \/ better_than(entry, learning.starts[1])
                                       THEN entry ELSE learning.starts[1]
  <2>1. CASE affordable
    <3>1. entry \in Eligible' /\ learning.starts \in Seq(Eligible')
      BY <1>8, <1>9, <2>1
    <3> QED
      BY <2>1, <3>1, RankedKeeps
  <2>2. CASE ~affordable
    BY <1>8, <1>9, <2>2
  <2> QED
    BY <2>1, <2>2
<1> HIDE DEF ranked, affordable
<1>11. SearchShape'
  <2>1. IsSearch(learning')
    BY <1>1, <1>2 DEF Evaluated, SearchInv, SearchShape, IsSearch, SearchFields
  <2>2. /\ learning.corpus \in Corpora /\ learning.limit \in Nat /\ learning.version \in Nat
        /\ learning.variants \in Seq(Range(learning.variants))
    BY <1>1 DEF SearchInv, SearchShape
  <2> QED
    BY <2>1, <2>2, <1>3, <1>6, <1>9, <1>10 DEF SearchShape
<1>12. GridShape' /\ VariantsNumbered'
  <2>1. VariantsNumbered'
    BY <1>6, <1>9 DEF VariantsNumbered
  <2>2. learning.version = HILL_VERSION
    BY <1>1 DEF SearchInv, GridShape
  <2>3. learning.count + 1 <= 52
    BY <1>3
  <2> QED
    BY <1>6, <1>9, <2>1, <2>2, <2>3 DEF GridShape
<1>13. LeadersAreBest'
  <2>1. /\ Leaders = IF learning.starts = << >> THEN {} ELSE {learning.starts[1]}
        /\ Leaders' = IF ranked = << >> THEN {} ELSE {ranked[1]}
    BY <1>6, <1>9 DEF Leaders
  <2>2. \A e \in Eligible : e.quality \in Int
    BY <1>1 DEF SearchInv, EntriesMeasured, Eligible
  <2>3. \A e \in Eligible : learning.starts # << >> /\ e.quality <= learning.starts[1].quality
    BY <1>1, <2>1 DEF SearchInv, LeadersAreBest
  <2>4. learning.starts # << >> => learning.starts[1] \in Eligible
    BY <1>9
  <2>5. CASE ~affordable
    <3>1. ranked = learning.starts
      BY <2>5 DEF ranked
    <3> QED
      BY <1>8, <2>1, <2>3, <2>5, <3>1 DEF LeadersAreBest
  <2>6. CASE affordable
    <3>1. ranked # << >> /\ Leaders' = {ranked[1]}
      BY <1>10, <2>1, <2>6
    <3>2. CASE learning.starts = << >>
      <4>1. ranked[1] = entry /\ Eligible' = {entry}
        BY <1>8, <1>10, <2>3, <2>6, <3>2
      <4> QED
        BY <1>4, <3>1, <4>1 DEF LeadersAreBest
    <3>3. CASE learning.starts # << >>
      <4>1. learning.starts[1].quality \in Int
        BY <2>2, <2>4, <3>3
      <4>2. entry.quality <= ranked[1].quality /\ learning.starts[1].quality <= ranked[1].quality
            /\ ranked[1].quality \in Int
        BY <1>4, <1>10, <2>6, <3>3, <4>1, BetterIs
      <4>3. ASSUME NEW e \in Eligible'
            PROVE  e.quality <= ranked[1].quality
        <5>1. CASE e = entry
          BY <4>2, <5>1
        <5>2. CASE e # entry
          <6>1. e \in Eligible
            BY <1>8, <5>2
          <6> QED
            BY <2>2, <2>3, <4>1, <4>2, <6>1
        <5> QED
          BY <5>1, <5>2
      <4> QED
        BY <3>1, <4>3 DEF LeadersAreBest
    <3> QED
      BY <3>2, <3>3
  <2> QED
    BY <2>5, <2>6
<1>14. "pc" \in DOMAIN learning' /\ WinnerIsBest'
  BY <1>6, <1>11 DEF SearchShape, IsSearch, SearchFields, WinnerIsBest
<1> QED
  BY <1>8, <1>11, <1>12, <1>13, <1>14 DEF LearningInv, SearchInv

\* The grid ends, the climbs begin.
LEMMA GridEnds ==
  ASSUME LearningInv, EndGrid
  PROVE  LearningInv'
<1>1. SearchInv /\ learning.pc = "grid"
  BY DEF LearningInv, EndGrid
<1>2. IsSearch(learning)
  BY <1>1 DEF SearchInv, SearchShape
<1>3. learning' = [learning EXCEPT !.pc = "climb"]
  BY DEF EndGrid
<1>4. /\ IsSearch(learning') /\ learning'.pc = "climb" /\ learning'.corpus = learning.corpus
      /\ learning'.limit = learning.limit /\ learning'.first = learning.first
      /\ learning'.count = learning.count /\ learning'.evaluated = learning.evaluated
      /\ learning'.starts = learning.starts /\ learning'.version = learning.version
      /\ learning'.start = learning.start /\ learning'.variants = learning.variants
      /\ learning'.best = learning.best
  BY <1>2, <1>3 DEF IsSearch, SearchFields
<1>5. Eligible' = Eligible /\ Leaders' = Leaders
  BY <1>4 DEF Eligible, Leaders
<1>6. SearchShape' /\ GridShape' /\ VersionsUnique' /\ VariantsNumbered' /\ BudgetFits'
      /\ LeadersAreBest'
  BY <1>1, <1>4, <1>5 DEF SearchInv, SearchShape, GridShape, VersionsUnique, VariantsNumbered,
                          BudgetFits, LeadersAreBest
<1>7. EntriesMeasured'
  <2>1. /\ learning.count \in Nat /\ learning.count <= 52 /\ learning.version = 200
        /\ learning.variants = << >>
    BY <1>1 DEF SearchInv, SearchShape, GridShape, HILL_VERSION
  <2>2. FreeVersion = learning.count + 2 /\ FreeVersion' = 200
    BY <1>1, <1>4, <2>1 DEF FreeVersion
  <2>3. FreeVersion \in Int /\ FreeVersion' \in Int /\ FreeVersion <= FreeVersion'
    BY <2>1, <2>2
  <2>4. ASSUME NEW e \in learning.evaluated
        PROVE  /\ e.quality \in Int /\ "version" \in DOMAIN e.policy
               /\ e.policy.version \in Int /\ e.policy.version < FreeVersion'
    <3>1. /\ e.quality \in Int /\ "version" \in DOMAIN e.policy
          /\ e.policy.version \in Int /\ e.policy.version < FreeVersion
      BY <1>1 DEF SearchInv, EntriesMeasured
    <3> QED
      BY <2>3, <3>1
  <2> QED
    BY <1>4, <2>4 DEF EntriesMeasured
<1>8. "pc" \in DOMAIN learning' /\ WinnerIsBest'
  BY <1>4 DEF IsSearch, SearchFields, WinnerIsBest
<1> QED
  BY <1>6, <1>7, <1>8 DEF LearningInv, SearchInv

\* The variants of a policy have the versions from the given one on.
LEMMA VariantsAre ==
  ASSUME NEW policy, "version" \in DOMAIN policy, NEW version \in Nat,
         NEW variants, variants = hill_climb_variants(policy, version)
  PROVE  /\ variants \in Seq(Range(variants)) /\ Len(variants) = 3
         /\ \A i \in 1 .. 3 : /\ "version" \in DOMAIN variants[i]
                              /\ variants[i].version = version + i - 1
<1>1. /\ "version" \in DOMAIN variants[1] /\ variants[1].version = version
      /\ "version" \in DOMAIN variants[2] /\ variants[2].version = version + 1
      /\ "version" \in DOMAIN variants[3] /\ variants[3].version = version + 2
  BY DEF hill_climb_variants
<1>2. variants = [i \in 1 .. 3 |-> variants[i]]
  BY DEF hill_climb_variants
<1>3. \A i \in 1 .. 3 : /\ "version" \in DOMAIN variants[i]
                        /\ variants[i].version = version + i - 1
  BY <1>1
<1> QED
  BY <1>2, <1>3, ListIsSeq

\* A round begins with new versions.
LEMMA RoundBegins ==
  ASSUME SearchInv, learning.pc = "climb",
         IsSearch(learning'), learning'.pc = "climb", learning'.corpus = learning.corpus,
         learning'.limit = learning.limit, learning'.first = learning.first,
         learning'.count = learning.count, learning'.evaluated = learning.evaluated,
         learning'.best = learning.best, learning'.version = learning.version + 3,
         NEW start \in Eligible, learning'.start = <<start>>,
         learning'.variants = hill_climb_variants(start.policy, learning.version),
         learning'.starts \in Seq(Eligible), Len(learning'.starts) <= 3,
         LeadersAreBest'
  PROVE  LearningInv'
<1>1. Eligible' = Eligible
  BY DEF Eligible
<1>2. /\ learning.corpus \in Corpora /\ learning.limit \in Nat /\ learning.count \in Nat
      /\ learning.version \in Nat /\ learning.best \in Seq(Eligible) /\ Len(learning.best) <= 1
      /\ Len(learning.variants) \in Nat
  BY DEF SearchInv, SearchShape
<1>3. "version" \in DOMAIN start.policy
  BY DEF SearchInv, EntriesMeasured, Eligible
<1>4. /\ learning'.variants \in Seq(Range(learning'.variants)) /\ Len(learning'.variants) = 3
      /\ \A i \in 1 .. 3 : /\ "version" \in DOMAIN learning'.variants[i]
                           /\ learning'.variants[i].version = learning.version + i - 1
  <2> DEFINE variants == hill_climb_variants(start.policy, learning.version)
  <2>1. variants = hill_climb_variants(start.policy, learning.version)
    OBVIOUS
  <2> HIDE DEF variants
  <2>2. /\ variants \in Seq(Range(variants)) /\ Len(variants) = 3
        /\ \A i \in 1 .. 3 : /\ "version" \in DOMAIN variants[i]
                             /\ variants[i].version = learning.version + i - 1
    <3>1. learning.version \in Nat
      BY <1>2
    <3> DEFINE policy == start.policy
               version == learning.version
    <3>2. "version" \in DOMAIN policy /\ version \in Nat
             /\ variants = hill_climb_variants(policy, version)
      BY <1>3, <2>1, <3>1
    <3> HIDE DEF policy, version
    <3>3. /\ variants \in Seq(Range(variants)) /\ Len(variants) = 3
          /\ \A i \in 1 .. 3 : /\ "version" \in DOMAIN variants[i]
                               /\ variants[i].version = version + i - 1
      BY <3>2, VariantsAre
    <3> QED
      BY <3>3 DEF version
  <2>3. learning'.variants = variants
    BY <2>1
  <2> QED
    BY <2>2, <2>3
<1>5. SearchShape'
  BY <1>1, <1>2, <1>4 DEF SearchShape
<1>6. GridShape' /\ VersionsUnique' /\ BudgetFits'
  BY DEF GridShape, SearchInv, VersionsUnique, BudgetFits
<1>7. VariantsNumbered'
  <2>1. DOMAIN learning'.variants = 1 .. 3
    BY <1>4
  <2>2. ASSUME NEW i \in 1 .. 3
        PROVE  /\ "version" \in DOMAIN learning'.variants[i]
               /\ learning'.variants[i].version
                    = learning'.version - Len(learning'.variants) + i - 1
    BY <1>2, <1>4
  <2> QED
    BY <2>1, <2>2 DEF VariantsNumbered
<1>8. EntriesMeasured'
  <2>1. FreeVersion = learning.version - Len(learning.variants) /\ FreeVersion' = learning.version
    BY <1>2, <1>4 DEF FreeVersion
  <2>2. ASSUME NEW e \in learning.evaluated
        PROVE  /\ e.quality \in Int /\ "version" \in DOMAIN e.policy
               /\ e.policy.version \in Int /\ e.policy.version < FreeVersion'
    <3>1. /\ e.quality \in Int /\ "version" \in DOMAIN e.policy
          /\ e.policy.version \in Int /\ e.policy.version < FreeVersion
      BY DEF SearchInv, EntriesMeasured
    <3> QED
      BY <1>2, <2>1, <3>1
  <2> QED
    BY <2>2 DEF EntriesMeasured
<1>9. "pc" \in DOMAIN learning' /\ WinnerIsBest'
  BY DEF IsSearch, SearchFields, WinnerIsBest
<1> QED
  BY <1>5, <1>6, <1>7, <1>8, <1>9 DEF LearningInv, SearchInv

\* What a new round changes, field by field.
LEMMA NewRoundIs ==
  ASSUME NEW climb, IsSearch(climb)
  PROVE  LET new == NewRound(climb)
         IN  /\ IsSearch(new) /\ new.pc = climb.pc /\ new.corpus = climb.corpus
             /\ new.limit = climb.limit /\ new.first = climb.first /\ new.count = climb.count
             /\ new.evaluated = climb.evaluated /\ new.best = climb.best
             /\ new.version = climb.version + 3 /\ new.start = climb.start
             /\ new.variants = hill_climb_variants(climb.start[1].policy, climb.version)
             /\ new.starts = climb.starts
<1> DEFINE variants == hill_climb_variants(climb.start[1].policy, climb.version)
<1>1. NewRound(climb) = [climb EXCEPT !.round = climb.round + 1, !.improved = FALSE,
                                      !.version = climb.version + 3, !.variants = variants]
  BY DEF NewRound, NextVersion, IsSearch, SearchFields
<1> HIDE DEF variants
<1>2. /\ IsSearch(NewRound(climb)) /\ NewRound(climb).version = climb.version + 3
      /\ NewRound(climb).variants = variants
      /\ \A field \in SearchFields \ {"round", "improved", "version", "variants"} :
           NewRound(climb)[field] = climb[field]
  BY <1>1 DEF IsSearch, SearchFields
<1> QED
  BY <1>2 DEF SearchFields, variants

\* A climb begins at the next start.
LEMMA StartsNext ==
  ASSUME LearningInv, NextStart
  PROVE  LearningInv'
<1>1. SearchInv /\ learning.pc = "climb" /\ learning.start = << >> /\ learning.starts # << >>
  BY DEF LearningInv, NextStart
<1>2. IsSearch(learning)
  BY <1>1 DEF SearchInv, SearchShape
<1> DEFINE start == Head(learning.starts)
           climb == [learning EXCEPT !.start = <<start>>, !.starts = Tail(learning.starts),
                                     !.round = 0]
<1>3. learning' = NewRound(climb)
  BY <1>2 DEF NextStart, IsSearch, SearchFields
<1>4. /\ learning.starts \in Seq(Eligible) /\ Len(learning.starts) <= 3
      /\ start = learning.starts[1]
  BY <1>1 DEF SearchInv, SearchShape
<1>5. /\ start \in Eligible /\ Tail(learning.starts) \in Seq(Eligible)
      /\ Len(Tail(learning.starts)) <= 3
  BY <1>1, <1>4
<1> HIDE DEF start
<1>6. /\ IsSearch(climb) /\ climb.pc = "climb" /\ climb.corpus = learning.corpus
      /\ climb.limit = learning.limit /\ climb.first = learning.first
      /\ climb.count = learning.count /\ climb.evaluated = learning.evaluated
      /\ climb.best = learning.best /\ climb.version = learning.version
      /\ climb.start = <<start>> /\ climb.starts = Tail(learning.starts)
  BY <1>1, <1>2 DEF IsSearch, SearchFields
<1> HIDE DEF climb
<1>7. /\ IsSearch(learning') /\ learning'.pc = "climb" /\ learning'.corpus = learning.corpus
      /\ learning'.limit = learning.limit /\ learning'.first = learning.first
      /\ learning'.count = learning.count /\ learning'.evaluated = learning.evaluated
      /\ learning'.best = learning.best /\ learning'.version = learning.version + 3
      /\ learning'.start = <<start>>
      /\ learning'.variants = hill_climb_variants(start.policy, learning.version)
      /\ learning'.starts = Tail(learning.starts)
  <2>1. <<start>>[1] = start
    OBVIOUS
  <2> QED
    BY <1>3, <1>6, <2>1, NewRoundIs
<1>8. Leaders \subseteq Leaders'
  <2>1. Leaders' = {start} \cup Range(learning.best)
    BY <1>7 DEF Leaders, Range
  <2>2. CASE learning.best = << >>
    <3>1. Leaders = {start}
      BY <1>1, <1>4, <2>2 DEF Leaders
    <3> QED
      BY <2>1, <3>1
  <2>3. CASE learning.best # << >>
    <3>1. Range(learning.start) = {}
      BY <1>1 DEF Range
    <3>2. Leaders = Range(learning.best)
      BY <2>3, <3>1 DEF Leaders
    <3> QED
      BY <2>1, <3>2
  <2> QED
    BY <2>2, <2>3
<1>9. LeadersAreBest'
  <2>1. Eligible' = Eligible
    BY <1>7 DEF Eligible
  <2> QED
    BY <1>1, <1>8, <2>1 DEF SearchInv, LeadersAreBest
<1> QED
  BY <1>1, <1>5, <1>7, <1>9, RoundBegins

\* The climb goes on from where it is.
LEMMA RoundsNext ==
  ASSUME LearningInv, NextRound
  PROVE  LearningInv'
<1>1. SearchInv /\ learning.pc = "climb" /\ learning.start # << >>
  BY DEF LearningInv, NextRound, RoundOver
<1>2. IsSearch(learning)
  BY <1>1 DEF SearchInv, SearchShape
<1>3. /\ learning.starts \in Seq(Eligible) /\ Len(learning.starts) <= 3
      /\ learning.start \in Seq(Eligible) /\ Len(learning.start) <= 1
  BY <1>1 DEF SearchInv, SearchShape
<1>4. PICK start \in Eligible : learning.start = <<start>>
  BY <1>1, <1>3
<1>5. learning' = NewRound(learning)
  BY DEF NextRound
<1>6. /\ IsSearch(learning') /\ learning'.pc = "climb" /\ learning'.corpus = learning.corpus
      /\ learning'.limit = learning.limit /\ learning'.first = learning.first
      /\ learning'.count = learning.count /\ learning'.evaluated = learning.evaluated
      /\ learning'.best = learning.best /\ learning'.version = learning.version + 3
      /\ learning'.start = <<start>>
      /\ learning'.variants = hill_climb_variants(start.policy, learning.version)
      /\ learning'.starts = learning.starts
  <2>1. <<start>>[1] = start
    OBVIOUS
  <2> QED
    BY <1>1, <1>2, <1>4, <1>5, <2>1, NewRoundIs
<1>7. LeadersAreBest'
  <2>1. Eligible' = Eligible /\ Leaders' = Leaders
    BY <1>4, <1>6 DEF Eligible, Leaders
  <2> QED
    BY <1>1, <2>1 DEF SearchInv, LeadersAreBest
<1> QED
  BY <1>1, <1>3, <1>6, <1>7, RoundBegins

\* A variant is evaluated: the climb goes on from it, or does not.
LEMMA VariantIsTried ==
  ASSUME LearningInv, TryVariant
  PROVE  LearningInv'
<1>1. SearchInv /\ learning.pc = "climb" /\ learning.variants # << >>
  BY DEF LearningInv, TryVariant
<1>2. IsSearch(learning)
  BY <1>1 DEF SearchInv, SearchShape
<1> DEFINE entry == GridEntry(Training, Head(learning.variants))
           affordable == Affordable(entry, learning.first.tokens)
           better == affordable /\ entry.quality > learning.start[1].quality
           left == Len(learning.variants)
<1>3. /\ learning.start \in Seq(Eligible) /\ Len(learning.start) <= 1 /\ learning.start # << >>
      /\ learning.starts \in Seq(Eligible) /\ Len(learning.starts) <= 3
      /\ learning.best \in Seq(Eligible) /\ Len(learning.best) <= 1
      /\ learning.variants \in Seq(Range(learning.variants)) /\ left <= 3
      /\ learning.version \in Nat /\ learning.count \in Nat /\ learning.limit \in Nat
      /\ learning.corpus \in Corpora
  BY <1>1 DEF SearchInv, SearchShape
<1>4. PICK start \in Eligible : learning.start = <<start>>
  BY <1>3
<1>5. left \in 1 .. 3 /\ Head(learning.variants) = learning.variants[1]
      /\ 1 \in DOMAIN learning.variants
  <2> DEFINE variants == learning.variants
  <2>1. variants \in Seq(Range(variants)) /\ Len(variants) <= 3 /\ variants # << >>
    BY <1>1, <1>3
  <2> HIDE DEF variants
  <2>2. /\ Len(variants) \in Nat /\ Len(variants) >= 1 /\ Head(variants) = variants[1]
        /\ 1 \in DOMAIN variants
    BY <2>1, FirstIs
  <2> DEFINE n == Len(variants)
  <2>4. n \in Nat /\ n >= 1 /\ n <= 3
    BY <2>1, <2>2
  <2> HIDE DEF n
  <2>3. n \in 1 .. 3
    BY <2>4
  <2> QED
    BY <2>2, <2>3 DEF variants, n
<1>6. entry.policy = learning.variants[1] /\ entry.quality \in Int
  BY <1>3, <1>5, EntryIs
<1>7. /\ "version" \in DOMAIN entry.policy /\ entry.policy.version = learning.version - left
  <2>1. /\ "version" \in DOMAIN learning.variants[1]
        /\ learning.variants[1].version = learning.version - left + 1 - 1
    BY <1>1, <1>5 DEF SearchInv, VariantsNumbered
  <2> QED
    BY <1>3, <1>5, <1>6, <2>1
<1>8. start.quality \in Int /\ \A e \in Eligible : e.quality \in Int
  BY <1>1 DEF SearchInv, EntriesMeasured, Eligible
<1>9. learning' = IF better THEN [Evaluated(entry) EXCEPT !.start = <<entry>>, !.improved = TRUE,
                                                          !.variants = << >>]
                  ELSE [Evaluated(entry) EXCEPT !.variants = Tail(learning.variants)]
  <2>1. Evaluated(entry).variants = learning.variants
    BY <1>2 DEF Evaluated, IsSearch, SearchFields
  <2> QED
    BY <2>1 DEF TryVariant
<1> HIDE DEF entry
<1>10. /\ IsSearch(learning') /\ learning'.pc = "climb" /\ learning'.corpus = learning.corpus
       /\ learning'.limit = learning.limit /\ learning'.first = learning.first
       /\ learning'.count = learning.count + 1
       /\ learning'.evaluated = learning.evaluated \cup {entry}
       /\ learning'.starts = learning.starts /\ learning'.version = learning.version
       /\ learning'.best = learning.best
       /\ learning'.start = (IF better THEN <<entry>> ELSE learning.start)
       /\ learning'.variants = (IF better THEN << >> ELSE Tail(learning.variants))
  <2>1. /\ IsSearch(Evaluated(entry)) /\ Evaluated(entry).count = learning.count + 1
        /\ Evaluated(entry).evaluated = learning.evaluated \cup {entry}
        /\ \A field \in SearchFields \ {"count", "evaluated"} :
             Evaluated(entry)[field] = learning[field]
    BY <1>2 DEF Evaluated, IsSearch, SearchFields
  <2>2. CASE better
    <3>1. learning' = [Evaluated(entry) EXCEPT !.start = <<entry>>, !.improved = TRUE,
                                               !.variants = << >>]
      BY <1>9, <2>2
    <3> HIDE DEF better
    <3> QED
      BY <1>1, <2>1, <2>2, <3>1 DEF IsSearch, SearchFields
  <2>3. CASE ~better
    <3>1. learning' = [Evaluated(entry) EXCEPT !.variants = Tail(learning.variants)]
      BY <1>9, <2>3
    <3> HIDE DEF better
    <3> QED
      BY <1>1, <2>1, <2>3, <3>1 DEF IsSearch, SearchFields
  <2> QED
    BY <2>2, <2>3
<1>11. /\ learning'.variants \in Seq(Range(learning'.variants))
       /\ Len(learning'.variants) \in 0 .. left - 1
       /\ VariantsNumbered'
  <2>1. CASE better
    <3>1. learning'.variants = << >>
      BY <1>10, <2>1
    <3>2. VariantsNumbered'
      BY <3>1 DEF VariantsNumbered
    <3>3. << >> \in Seq(Range(<< >>)) /\ Len(<< >>) \in 0 .. left - 1
      BY <1>5
    <3> QED
      BY <3>1, <3>2, <3>3
  <2>2. CASE ~better
    <3> DEFINE rest == Tail(learning.variants)
    <3>1. /\ Len(rest) = left - 1 /\ \A i \in 1 .. left - 1 : rest[i] = learning.variants[i + 1]
          /\ rest = [i \in 1 .. left - 1 |-> rest[i]]
      BY <1>1, <1>3, <1>5
    <3>2. learning'.variants = rest
      BY <1>10, <2>2
    <3> HIDE DEF rest, left
    <3>3. rest \in Seq(Range(rest))
      BY <1>5, <3>1, ListIsSeq
    <3>4. ASSUME NEW i \in 1 .. left - 1
          PROVE  /\ "version" \in DOMAIN rest[i]
                 /\ rest[i].version = learning.version - (left - 1) + i - 1
      <4>1. i + 1 \in DOMAIN learning.variants
        BY <1>3, <1>5 DEF left
      <4>2. /\ "version" \in DOMAIN learning.variants[i + 1]
            /\ learning.variants[i + 1].version = learning.version - left + (i + 1) - 1
        BY <1>1, <4>1 DEF SearchInv, VariantsNumbered, left
      <4>3. rest[i] = learning.variants[i + 1]
        BY <3>1
      <4>4. learning.version \in Nat /\ left \in 1 .. 3
        BY <1>3, <1>5
      <4>5. learning.version - left + (i + 1) - 1 = learning.version - (left - 1) + i - 1
        BY <4>4
      <4> QED
        BY <4>2, <4>3, <4>5
    <3>5. DOMAIN rest = 1 .. left - 1
      BY <3>1
    <3>6. VariantsNumbered'
      BY <1>10, <3>1, <3>2, <3>4, <3>5 DEF VariantsNumbered
    <3> QED
      BY <1>5, <3>1, <3>2, <3>3, <3>6
  <2> QED
    BY <2>1, <2>2
<1>12. FreeVersion = learning.version - left
       /\ FreeVersion' = learning.version - Len(learning'.variants)
  BY <1>1, <1>10 DEF FreeVersion
<1>13. /\ EntriesMeasured' /\ VersionsUnique' /\ BudgetFits'
       /\ Eligible' = Eligible \cup (IF affordable THEN {entry} ELSE {})
  <2> DEFINE now == Len(learning'.variants)
             version == learning.version
  <2>1. version \in Nat /\ left \in 1 .. 3 /\ now \in 0 .. left - 1
    BY <1>3, <1>5, <1>11
  <2>2. FreeVersion' \in Int /\ FreeVersion < FreeVersion'
    <3>1. FreeVersion = version - left /\ FreeVersion' = version - now
      BY <1>12
    <3> HIDE DEF now, version, left
    <3> QED
      BY <2>1, <3>1
  <2> HIDE DEF now, version
  <2>3. entry.policy.version = FreeVersion
    BY <1>7, <1>12
  <2> QED
    BY <1>1, <1>6, <1>7, <1>10, <2>2, <2>3, OneMoreEntry
<1> HIDE DEF affordable, left
<1>14. /\ learning'.start \in Seq(Eligible') /\ Len(learning'.start) = 1
       /\ learning'.start[1] = IF better THEN entry ELSE start
  <2>1. CASE better
    <3>1. entry \in Eligible'
      BY <1>13, <2>1
    <3> QED
      BY <1>10, <2>1, <3>1
  <2>2. CASE ~better
    <3>1. start \in Eligible'
      BY <1>13
    <3> QED
      BY <1>4, <1>10, <2>2, <3>1
  <2> QED
    BY <2>1, <2>2
<1>15. SearchShape' /\ GridShape'
  <2>1. learning'.starts \in Seq(Eligible') /\ learning'.best \in Seq(Eligible')
    BY <1>3, <1>10, <1>13
  <2>2. Len(learning'.variants) <= 3 /\ learning'.start # << >>
    BY <1>5, <1>11, <1>14
  <2> HIDE DEF better
  <2> QED
    BY <1>3, <1>10, <1>11, <1>14, <2>1, <2>2 DEF SearchShape, GridShape
<1>16. LeadersAreBest'
  <2> DEFINE goes == learning'.start[1]
  <2>1. affordable => entry.quality <= goes.quality
    BY <1>4, <1>6, <1>8, <1>14
  <2>2. start.quality <= goes.quality /\ goes.quality \in Int
    BY <1>4, <1>6, <1>8, <1>14
  <2>3. goes \in Leaders' /\ Range(learning.best) \subseteq Leaders'
    <3>1. learning'.start # << >> /\ goes \in Range(learning'.start)
      BY <1>14 DEF Range
    <3> HIDE DEF goes, better
    <3> QED
      BY <1>10, <3>1 DEF Leaders
  <2>4. Leaders = {start} \cup Range(learning.best)
    BY <1>4 DEF Leaders, Range
  <2> HIDE DEF goes, better
  <2>5. ASSUME NEW e \in Eligible
        PROVE  \E leader \in Leaders' : e.quality <= leader.quality
    <3>1. PICK leader \in Leaders : e.quality <= leader.quality
      BY <1>1 DEF SearchInv, LeadersAreBest
    <3>2. CASE leader = start
      <4>1. e.quality <= goes.quality
        BY <1>8, <2>2, <3>1, <3>2
      <4> QED
        BY <2>3, <4>1
    <3>3. CASE leader # start
      BY <2>3, <2>4, <3>1, <3>3
    <3> QED
      BY <3>2, <3>3
  <2>6. affordable => \E leader \in Leaders' : entry.quality <= leader.quality
    BY <2>1, <2>3
  <2> QED
    BY <1>13, <2>5, <2>6 DEF LeadersAreBest
<1>17. "pc" \in DOMAIN learning' /\ WinnerIsBest'
  BY <1>10 DEF IsSearch, SearchFields, WinnerIsBest
<1> QED
  BY <1>11, <1>13, <1>15, <1>16, <1>17 DEF LearningInv, SearchInv

\* The better of a climb's end and the best so far stays.
LEMMA ClimbEnds ==
  ASSUME LearningInv, EndClimb
  PROVE  LearningInv'
<1>1. SearchInv /\ learning.pc = "climb" /\ learning.start # << >>
  BY DEF LearningInv, EndClimb, RoundOver
<1>2. IsSearch(learning)
  BY <1>1 DEF SearchInv, SearchShape
<1> DEFINE wins == learning.best = << >> \/ better_than(learning.start[1], learning.best[1])
           best == IF wins THEN learning.start ELSE learning.best
<1>3. learning' = [learning EXCEPT !.best = best, !.start = << >>, !.variants = << >>]
  BY <1>2 DEF EndClimb, IsSearch, SearchFields
<1>4. /\ learning.start \in Seq(Eligible) /\ Len(learning.start) <= 1
      /\ learning.starts \in Seq(Eligible) /\ Len(learning.starts) <= 3
      /\ learning.best \in Seq(Eligible) /\ Len(learning.best) <= 1
      /\ learning.version \in Nat /\ learning.count \in Nat /\ learning.limit \in Nat
      /\ learning.corpus \in Corpora
      /\ Len(learning.variants) \in Nat
  BY <1>1 DEF SearchInv, SearchShape
<1>5. PICK start \in Eligible : learning.start = <<start>>
  BY <1>1, <1>4
<1>6. /\ best \in Seq(Eligible) /\ Len(best) = 1
      /\ learning.best # << >> => /\ learning.best = <<learning.best[1]>>
                                  /\ learning.best[1] \in Eligible
  <2>1. learning.best # << >> => /\ learning.best = <<learning.best[1]>> /\ Len(learning.best) = 1
                                 /\ learning.best[1] \in Eligible
    BY <1>4, OneElement
  <2>2. learning.start \in Seq(Eligible) /\ Len(learning.start) = 1
    BY <1>5
  <2>3. best = learning.start \/ (learning.best # << >> /\ best = learning.best)
    OBVIOUS
  <2> HIDE DEF best
  <2> QED
    BY <1>4, <2>1, <2>2, <2>3
<1> HIDE DEF best
<1>7. /\ IsSearch(learning') /\ learning'.pc = "climb" /\ learning'.corpus = learning.corpus
      /\ learning'.limit = learning.limit /\ learning'.first = learning.first
      /\ learning'.count = learning.count /\ learning'.evaluated = learning.evaluated
      /\ learning'.starts = learning.starts /\ learning'.version = learning.version
      /\ learning'.best = best /\ learning'.start = << >> /\ learning'.variants = << >>
  BY <1>1, <1>2, <1>3 DEF IsSearch, SearchFields
<1>8. Eligible' = Eligible
  BY <1>7 DEF Eligible
<1>9. /\ SearchShape' /\ GridShape' /\ VersionsUnique' /\ VariantsNumbered' /\ BudgetFits'
  <2>1. << >> \in Seq(Range(<< >>)) /\ Len(<< >>) = 0 /\ << >> \in Seq(Eligible)
    OBVIOUS
  <2>2. SearchShape'
    <3>1. /\ learning'.starts \in Seq(Eligible') /\ Len(learning'.starts) <= 3
          /\ learning'.start \in Seq(Eligible') /\ Len(learning'.start) <= 1
          /\ learning'.best \in Seq(Eligible') /\ Len(learning'.best) <= 1
      <4>1. learning.start' \in Seq(Eligible')
        <5>1. << >> \in Seq(Eligible') /\ learning.start' = << >>
          BY <1>7
        <5> QED
          BY <5>1, Zenon
      <4>2. learning.best' \in Seq(Eligible') /\ Len(learning.best') <= 1
        <5>1. best \in Seq(Eligible') /\ Len(best) = 1 /\ learning.best' = best
          BY <1>6, <1>7, <1>8
        <5>2. Len(best) <= 1
          BY <5>1
        <5> QED
          BY <5>1, <5>2, Zenon
      <4>3. learning.starts' \in Seq(Eligible') /\ Len(learning.starts') <= 3
        BY <1>4, <1>7, <1>8
      <4>4. Len(learning.start') <= 1
        BY <1>7, <2>1
      <4> QED
        BY <4>1, <4>2, <4>3, <4>4
    <3>2. /\ learning'.variants \in Seq(Range(learning'.variants)) /\ Len(learning'.variants) <= 3
      BY <1>7, <2>1
    <3>3. /\ learning'.corpus \in Corpora /\ learning'.limit \in Nat
          /\ learning'.count \in Nat /\ learning'.version \in Nat
      BY <1>4, <1>7
    <3> QED
      BY <1>7, <3>1, <3>2, <3>3 DEF SearchShape
  <2>3. VariantsNumbered'
    BY <1>7 DEF VariantsNumbered
  <2> QED
    BY <1>1, <1>7, <2>2, <2>3 DEF SearchInv, GridShape, VersionsUnique, BudgetFits
<1>10. EntriesMeasured'
  <2>1. FreeVersion = learning.version - Len(learning.variants) /\ FreeVersion' = learning.version
    BY <1>1, <1>4, <1>7 DEF FreeVersion
  <2>2. FreeVersion \in Int /\ FreeVersion' \in Int /\ FreeVersion <= FreeVersion'
    BY <1>4, <2>1
  <2>3. ASSUME NEW e \in learning.evaluated
        PROVE  /\ e.quality \in Int /\ "version" \in DOMAIN e.policy
               /\ e.policy.version \in Int /\ e.policy.version < FreeVersion'
    <3>1. /\ e.quality \in Int /\ "version" \in DOMAIN e.policy
          /\ e.policy.version \in Int /\ e.policy.version < FreeVersion
      BY <1>1 DEF SearchInv, EntriesMeasured
    <3> QED
      BY <2>2, <3>1
  <2> QED
    BY <1>7, <2>3 DEF EntriesMeasured
<1>11. LeadersAreBest'
  <2>1. \A e \in Eligible : e.quality \in Int
    BY <1>1 DEF SearchInv, EntriesMeasured, Eligible
  <2>2. Leaders' = {best[1]}
    <3>1. best # << >> /\ Range(best) = {best[1]} /\ Range(<< >>) = {}
      BY <1>6 DEF Range
    <3> QED
      BY <1>7, <3>1 DEF Leaders
  <2>3. Leaders = {start} \cup Range(learning.best)
    BY <1>5 DEF Leaders, Range
  <2>4. ASSUME NEW leader \in Leaders
        PROVE  leader.quality \in Int /\ leader.quality <= best[1].quality
    <3>1. CASE learning.best = << >>
      <4>1. best[1] = start /\ Range(learning.best) = {}
        BY <1>5, <3>1 DEF best, Range
      <4> QED
        BY <2>1, <2>3, <4>1
    <3>2. CASE learning.best # << >>
      <4> DEFINE other == learning.best[1]
      <4>1. Leaders = {start, other} /\ other \in Eligible
        BY <1>6, <2>3, <3>2 DEF Range
      <4>2. best[1] = IF better_than(start, other) THEN start ELSE other
        BY <1>5, <1>6, <3>2 DEF best
      <4> HIDE DEF other
      <4>3. start.quality <= best[1].quality /\ other.quality <= best[1].quality
        BY <2>1, <4>1, <4>2, BetterIs
      <4> QED
        BY <2>1, <4>1, <4>3
    <3> QED
      BY <3>1, <3>2
  <2>5. best[1].quality \in Int
    BY <1>6, <2>1
  <2>6. ASSUME NEW e \in Eligible
        PROVE  e.quality <= best[1].quality
    <3>1. PICK leader \in Leaders : e.quality <= leader.quality
      BY <1>1 DEF SearchInv, LeadersAreBest
    <3> QED
      BY <2>1, <2>4, <2>5, <3>1
  <2> QED
    BY <1>8, <2>2, <2>6 DEF LeadersAreBest
<1>12. "pc" \in DOMAIN learning' /\ WinnerIsBest'
  BY <1>7 DEF IsSearch, SearchFields, WinnerIsBest
<1> QED
  BY <1>9, <1>10, <1>11, <1>12 DEF LearningInv, SearchInv

\* The best of all climbs wins, or the baseline if nothing fits its budget.
LEMMA SearchEnds ==
  ASSUME LearningInv, EndSearch
  PROVE  LearningInv'
<1>1. /\ SearchInv /\ learning.pc = "climb" /\ learning.start = << >>
      /\ learning.starts = << >>
  BY DEF LearningInv, EndSearch
<1> DEFINE winner == IF learning.best = << >> THEN learning.first ELSE learning.best[1]
<1>2. /\ learning'.pc = "load" /\ learning'.winner = winner
      /\ learning'.budget = learning.first.tokens /\ learning'.evaluated = learning.evaluated
      /\ "pc" \in DOMAIN learning'
  BY DEF EndSearch
<1>3. learning.best \in Seq(Eligible) /\ Len(learning.best) <= 1
  BY <1>1 DEF SearchInv, SearchShape
<1>4. Affordable(winner, learning.first.tokens)
  <2>1. CASE learning.best = << >>
    BY <1>1, <2>1 DEF SearchInv, BudgetFits
  <2>2. CASE learning.best # << >>
    <3>1. learning.best[1] \in Eligible
      BY <1>3, <2>2
    <3> QED
      BY <2>2, <3>1 DEF Eligible
  <2> QED
    BY <2>1, <2>2
<1>5. ASSUME NEW e \in learning.evaluated, Affordable(e, learning.first.tokens)
      PROVE  e.quality <= winner.quality
  <2>1. e \in Eligible
    BY <1>5 DEF Eligible
  <2>2. PICK leader \in Leaders : e.quality <= leader.quality
    BY <1>1, <2>1 DEF SearchInv, LeadersAreBest
  <2>3. learning.best # << >> /\ leader = learning.best[1]
    <3>1. learning.best # << >>
      BY <1>1, <2>2 DEF Leaders
    <3>2. Range(learning.start) = {} /\ Range(learning.best) = {learning.best[1]}
      BY <1>1, <1>3, <3>1 DEF Range
    <3> QED
      BY <2>2, <3>1, <3>2 DEF Leaders
  <2> QED
    BY <2>2, <2>3
<1> HIDE DEF winner
<1>6. \A a, b \in learning.evaluated : a.policy.version = b.policy.version => a = b
  BY <1>1 DEF SearchInv, VersionsUnique
<1>7. WinnerIsBest'
  BY <1>2, <1>4, <1>5, <1>6 DEF WinnerIsBest, Affordable
<1> QED
  BY <1>2, <1>7 DEF LearningInv

\* No search has begun.
LEMMA LearningInvInit == LearningInit => LearningInv
BY DEF LearningInit, LearningInv, Idle, WinnerIsBest

\* Every action keeps the invariant.
LEMMA LearningInvStep == LearningInv /\ [LearningNext]_learningVars => LearningInv'
<1> SUFFICES ASSUME LearningInv, [LearningNext]_learningVars
             PROVE  LearningInv'
  OBVIOUS
<1>1. CASE \E corpus \in Corpora, max_candidates \in MaxCandidates : Optimize(corpus, max_candidates)
  BY <1>1, SearchBegins
<1>2. CASE RankCandidate \/ EndGrid \/ NextStart \/ TryVariant \/ NextRound \/ EndClimb \/ EndSearch
  BY <1>2, CandidateRanks, GridEnds, StartsNext, VariantIsTried, RoundsNext, ClimbEnds, SearchEnds
<1>3. CASE LoadStore
  BY <1>3 DEF LoadStore, LearningInv, WinnerIsBest
<1>4. CASE TruncateStore
  BY <1>4 DEF TruncateStore, LearningInv, WinnerIsBest
<1>5. CASE WriteStore \/ KillLearning
  BY <1>5 DEF WriteStore, KillLearning, Idle, LearningInv, WinnerIsBest
<1>6. CASE UNCHANGED learningVars
  <2>1. learning' = learning
    BY <1>6 DEF learningVars
  <2> QED
    BY <2>1 DEF LearningInv, SearchInv, SearchShape, GridShape, EntriesMeasured, VersionsUnique,
                VariantsNumbered, BudgetFits, LeadersAreBest, Eligible, Leaders, FreeVersion,
                WinnerIsBest
<1> QED
  BY <1>1, <1>2, <1>3, <1>4, <1>5, <1>6 DEF LearningNext

\* For all corpora and limits, the policy a search ends with is the best of those it
\* evaluated within the baseline's tokens, and no two of them share a version.
THEOREM Winners == LearningSpec => []WinnerIsBest
<1>1. LearningInv => WinnerIsBest
  BY DEF LearningInv
<1> QED
  BY <1>1, LearningInvInit, LearningInvStep, PTL DEF LearningSpec

=============================================================================
