--------------------------- MODULE PromotionGate ---------------------------
(***************************************************************************)
(* What decides whether a learned retrieval policy replaces the baseline:  *)
(* the evaluation of a policy on tasks (eval.rs), the split of the tasks   *)
(* and the gate (policy/gate.rs).  A report maps the id of a task to its   *)
(* result; thresholds are kept as integer percentages.                     *)
(***************************************************************************)
EXTENDS Integers, Sequences, SequencesExt, FiniteSetsExt

baseline == [version |-> 1, weights |-> "default", two_hop_decay |-> 60, seed_multiplier |-> 3,
             top_k |-> 5, confidence_threshold |-> 55, min_score |-> 5, semantic_discount |-> 70,
             semantic_hits |-> 2, primary_window_lines |-> 120, primary_window_chars |-> 12000,
             related_window_lines |-> 80, related_window_chars |-> 8000]

-----------------------------------------------------------------------------
(* evaluate_policy.  A task has the ids it expects, how many of them it    *)
(* must find, and the ids its query finds, best first, with their length.  *)

\* search_code: the first top_k; predict_context: the node at the cursor and
\* its semantic neighbours; get_context and read_graph do not ask the policy.
Hits(task, policy) ==
  LET found == IF policy.weights \in DOMAIN task.found THEN task.found[policy.weights]
               ELSE task.found["default"]
      first(n) == SubSeq(found, 1, Min({n, Len(found)}))
  IN  CASE task.kind = "search_code" -> first(policy.top_k)
        [] task.kind = "predict_context" -> first(1 + policy.semantic_hits)
        [] OTHER -> found

\* The windows cut what predict_context returns.
ContentLength(task, policy, i, hit) ==
  IF task.kind # "predict_context" THEN task.length[hit]
  ELSE Min({task.length[hit], IF i = 1 THEN policy.primary_window_chars
                               ELSE policy.related_window_chars})

tokens_for_ids(task, policy) ==
  LET tokens(hits) ==
        SumFunction([i \in DOMAIN hits |-> ContentLength(task, policy, i, hits[i]) \div 4])
  IN  tokens(Hits(task, policy))

score_hits(task, policy) == Cardinality(task.expected \cap Range(Hits(task, policy)))

Result(task, matches, tokens) ==
  [kind |-> task.kind, matches |-> matches, expected |-> Cardinality(task.expected),
   passed |-> matches >= task.min_recall, tokens |-> IF tokens = 0 THEN 1 ELSE tokens]

evaluate_policy(tasks, policy) ==
  LET result(task) == Result(task, score_hits(task, policy), tokens_for_ids(task, policy))
  IN  [id \in {task.id : task \in tasks} |-> result(CHOOSE task \in tasks : task.id = id)]

-----------------------------------------------------------------------------
(* stratified_split *)

\* The split a task asks for, or the one its hash gives.
AskedSplit(task) == IF task.split = "none" THEN task.hashed ELSE task.split

\* The first two search tasks are for training whatever they ask for.
stratified_split(tasks) ==
  LET searches == {task \in tasks : task.kind = "search_code"}
      assigned(task) == {other \in searches : other.id < task.id}
      trains(task) ==
        \/ AskedSplit(task) = "train"
        \/ task \in searches /\ Cardinality(assigned(task)) < 2
  IN  [task \in tasks |-> IF trains(task) THEN "train" ELSE "holdout"]

Part(tasks, split) == {task \in tasks : stratified_split(tasks)[task] = split}

-----------------------------------------------------------------------------
(* The measures of a report, each times the number of its tasks: the       *)
(* reports the gate compares are of the same tasks.                        *)

\* A recall is kept in twelfths (a task expects at most four ids).
Twelfths(result) == IF result.expected = 0 THEN 0 ELSE (12 * result.matches) \div result.expected

pass_rate(report) == Cardinality({id \in DOMAIN report : report[id].passed})
mean_recall(report) == SumFunction([id \in DOMAIN report |-> Twelfths(report[id])])
mean_tokens(report) == SumFunction([id \in DOMAIN report |-> report[id].tokens])

\* 0.7 of the pass rate (0..100) and 0.3 of the recall (0..1), times 40.
quality(report) == 2800 * pass_rate(report) + mean_recall(report)

-----------------------------------------------------------------------------
(* evaluate_promotion, with the default options. *)

query_type_pass_rate(report, kind) ==
  Cardinality({id \in DOMAIN report : report[id].kind = kind /\ report[id].passed})

changed_tasks(base, candidate) ==
  {id \in DOMAIN candidate : \/ base[id].matches # candidate[id].matches
                             \/ base[id].tokens # candidate[id].tokens}

improved_tasks(base, candidate) ==
  {id \in DOMAIN candidate :
     \/ candidate[id].matches > base[id].matches /\ candidate[id].tokens <= base[id].tokens
     \/ candidate[id].matches = base[id].matches /\ candidate[id].tokens < base[id].tokens}

\* The outcomes of n fair trials are the sets of those that succeed.
Outcomes(n) == SUBSET (1 .. n)

AtLeast(n, k) == {successes \in Outcomes(n) : Cardinality(successes) >= k}

\* binomial_tail, P(Bin(n, 1/2) >= k), is at most alpha, 5 in 100.
Significant(n, k) == 20 * Cardinality(AtLeast(n, k)) <= Cardinality(Outcomes(n))

\* From n down while the tail is small enough.
sign_test_k(n) ==
  IF n = 0 THEN 0
  ELSE LET large == {k \in 1 .. n : \E m \in k .. n : ~Significant(n, m)} \cup {0}
       IN  Min({Max(large) + 1, n})

\* The gain of the mean recall is at least percent of 1.
GainsRecall(base, candidate, percent) ==
  100 * (mean_recall(candidate) - mean_recall(base)) >= percent * 12 * Cardinality(DOMAIN base)

evaluate_promotion(base, candidate) ==
  LET changed == changed_tasks(base, candidate)
  IN  /\ changed # {}
      /\ \A kind \in {base[id].kind : id \in DOMAIN base} :
           query_type_pass_rate(candidate, kind) >= query_type_pass_rate(base, kind)
      /\ mean_tokens(candidate) > mean_tokens(base) => GainsRecall(base, candidate, 3)
      /\ GainsRecall(base, candidate, -1)
      /\ 100 * mean_tokens(candidate) <= 105 * mean_tokens(base)
      /\ \/ GainsRecall(base, candidate, 3)
         \/ Cardinality(improved_tasks(base, candidate)) >= sign_test_k(Cardinality(changed))

=============================================================================
