--------------------------- MODULE PolicyLearning ---------------------------
(***************************************************************************)
(* `ccm learn optimize`: the search for a better retrieval policy          *)
(* (optimize.rs) and the store that makes it active (policy/store.rs).  The *)
(* command is run on one corpus of tasks, then on another, and may be      *)
(* killed while it saves.                                                  *)
(***************************************************************************)
EXTENDS PromotionGate

CONSTANTS
  Corpora,           \* sets of tasks
  MaxCandidates,     \* the limits a command may give (--max-candidates)
  MaxLearnings,      \* bound: commands run
  MaxLearningKills           \* bound: commands killed

\* There are finitely many tasks; a task expects finitely many ids, and what it
\* finds has a length.
ASSUME CorpusAssumption ==
  \A corpus \in Corpora :
    /\ IsFiniteSet(corpus)
    /\ \A task \in corpus : /\ IsFiniteSet(task.expected)
                            /\ \A hit \in DOMAIN task.length : task.length[hit] \in Nat
                            /\ \A weights \in DOMAIN task.found :
                                 task.found[weights] \in Seq(DOMAIN task.length)
                            /\ "default" \in DOMAIN task.found

ASSUME MaxCandidatesAssumption == MaxCandidates \subseteq Nat

VARIABLES
  store,       \* policies.json: whether it can be read, its active version, its policies
  learning,    \* the command: what it does, what it found
  learnings,   \* commands started
  proven       \* policies that were saved as promoted

learningVars == <<store, learning, learnings, proven>>

-----------------------------------------------------------------------------
(* candidate_policies *)

\* Every first with every second, in order.
Each(firsts, seconds, Change(_, _)) ==
  [i \in 1 .. Len(firsts) * Len(seconds) |->
     Change(firsts[((i - 1) \div Len(seconds)) + 1], seconds[((i - 1) % Len(seconds)) + 1])]

Profiles == <<"65/25/7/3", "35/50/10/5", "50/50", "55/35/5/5">>

Windows == <<<<60, 6000, 40, 4000>>, <<80, 8000, 60, 6000>>, <<100, 10000, 70, 7000>>,
             <<40, 4000, 30, 3000>>>>

Perturbations == <<"graph+10", "graph-10", "semantic+10", "semantic-10", "spatial+5", "recent+5">>

ProfileChanges == Each(Profiles, <<0, 1>>, LAMBDA w, h : [weights |-> w, semantic_hits |-> h])

HitsChanges == <<[semantic_hits |-> 0], [semantic_hits |-> 1]>>

WindowChanges ==
  Each(Windows, <<0, 1>>, LAMBDA w, h :
    [primary_window_lines |-> w[1], primary_window_chars |-> w[2], related_window_lines |-> w[3],
     related_window_chars |-> w[4], semantic_hits |-> h])

TopKChanges == Each(<<4, 6, 8, 12, 16>>, <<0, 1>>, LAMBDA k, h : [top_k |-> k, semantic_hits |-> h])

WideChanges ==
  Each(Profiles, <<8, 16>>, LAMBDA w, k : [weights |-> w, top_k |-> k, semantic_hits |-> 1])

WeightChanges == Each(Perturbations, <<1>>, LAMBDA w, h : [weights |-> w, semantic_hits |-> h])

ThresholdChanges ==
  <<[two_hop_decay |-> 30], [two_hop_decay |-> 90], [seed_multiplier |-> 2],
    [seed_multiplier |-> 4], [confidence_threshold |-> 45], [confidence_threshold |-> 65],
    [semantic_discount |-> 50], [semantic_discount |-> 90], [min_score |-> 0], [min_score |-> 10]>>

Changes ==
  ProfileChanges \o HitsChanges \o WindowChanges \o TopKChanges \o WideChanges \o WeightChanges
  \o ThresholdChanges

\* The baseline with a change.
Candidate(change, version) ==
  [field \in DOMAIN baseline |-> IF field = "version" THEN version
                                 ELSE IF field \in DOMAIN change THEN change[field]
                                 ELSE baseline[field]]

\* Versions start at 2: that of the baseline is 1.
candidate_policies == [i \in DOMAIN Changes |-> Candidate(Changes[i], i + 1)]

-----------------------------------------------------------------------------
(* optimize *)

Parameters(policy) == [policy EXCEPT !.version = 0]

changed_field_count(policy) ==
  Cardinality({field \in DOMAIN Parameters(policy) :
                 Parameters(policy)[field] # Parameters(baseline)[field]})

GridEntry(tasks, policy) ==
  LET entry(report) == [policy |-> policy, quality |-> quality(report),
                        tokens |-> mean_tokens(report), changed |-> changed_field_count(policy)]
  IN  entry(evaluate_policy(tasks, policy))

better_than(a, b) ==
  \/ a.quality > b.quality
  \/ a.quality = b.quality /\ a.changed < b.changed
  \/ a.quality = b.quality /\ a.changed = b.changed /\ a.tokens < b.tokens
  \/ a.quality = b.quality /\ a.changed = b.changed /\ a.tokens = b.tokens
     /\ a.policy.version < b.policy.version

HILL_CLIMB_STARTS == 3
HILL_CLIMB_ITERATIONS == 5
HILL_VERSION == 200

\* Mutant of Ranked: the first three stay, whatever comes later.
Appended(starts, entry) == IF Len(starts) < HILL_CLIMB_STARTS THEN Append(starts, entry) ELSE starts

\* Before the first entry that is not as good; the first three stay.
Ranked(starts, entry) ==
  LET after == {i \in DOMAIN starts : better_than(entry, starts[i])}
      position == IF after = {} THEN Len(starts) + 1 ELSE Min(after)
      all == InsertAt(starts, position, entry)
  IN  SubSeq(all, 1, Min({Len(all), HILL_CLIMB_STARTS}))

Affordable(entry, budget) == entry.tokens <= budget

hill_climb_variants(policy, version) ==
  <<[policy EXCEPT !.version = version, !.semantic_hits = IF @ = 0 THEN 0 ELSE @ - 1],
    [policy EXCEPT !.version = version + 1, !.semantic_hits = Min({@ + 1, 2})],
    [policy EXCEPT !.version = version + 2,
                   !.primary_window_chars = @ \div 2, !.related_window_chars = @ \div 2,
                   !.primary_window_lines = Max({@ \div 2, 20}),
                   !.related_window_lines = Max({@ \div 2, 20})]>>

-----------------------------------------------------------------------------
(* optimize, one evaluation at a time.  While the command searches,        *)
(* learning has the entry of the baseline (first), the starts of the       *)
(* climbs, how many policies it evaluated (count, evaluated), the start it *)
(* climbs from (start, in a sequence), its round, the variants still to    *)
(* try, and the best a climb ended with.                                   *)

Training == Part(learning.corpus, "train")

Evaluated(entry) == [learning EXCEPT !.count = @ + 1, !.evaluated = @ \cup {entry}]

GridLeft == learning.count < Min({learning.limit, Len(candidate_policies)})

Optimize(corpus, max_candidates) ==
  /\ learning.pc = "idle" /\ learnings.started < MaxLearnings
  /\ learnings' = [learnings EXCEPT !.started = @ + 1]
  /\ learning' = [pc |-> "grid", corpus |-> corpus, limit |-> max_candidates,
                  first |-> GridEntry(Part(corpus, "train"), baseline),
                  count |-> 0, evaluated |-> {}, starts |-> << >>, version |-> HILL_VERSION,
                  start |-> << >>, round |-> 0, improved |-> FALSE, variants |-> << >>,
                  best |-> << >>]
  /\ UNCHANGED <<store, proven>>

\* A candidate that costs more tokens than the baseline cannot win.
RankCandidate ==
  /\ learning.pc = "grid" /\ GridLeft
  /\ \E entry \in {GridEntry(Training, candidate_policies[learning.count + 1])} :
       learning' = [Evaluated(entry) EXCEPT
                      !.starts = IF Affordable(entry, learning.first.tokens) THEN Ranked(@, entry)
                                 ELSE @]
  /\ UNCHANGED <<store, learnings, proven>>

EndGrid ==
  /\ learning.pc = "grid" /\ ~GridLeft
  /\ learning' = [learning EXCEPT !.pc = "climb"]
  /\ UNCHANGED <<store, learnings, proven>>

NextVersion(climb) == climb.version + 3

NewRound(climb) ==
  [climb EXCEPT !.round = @ + 1, !.improved = FALSE, !.version = NextVersion(climb),
                !.variants = hill_climb_variants(climb.start[1].policy, climb.version)]

NextStart ==
  /\ learning.pc = "climb" /\ learning.start = << >> /\ learning.starts # << >>
  /\ learning' = NewRound([learning EXCEPT !.start = <<Head(learning.starts)>>, !.starts = Tail(@),
                                           !.round = 0])
  /\ UNCHANGED <<store, learnings, proven>>

\* The climb goes on from the first variant that is better.
TryVariant ==
  /\ learning.pc = "climb" /\ learning.variants # << >> /\ learning.count < learning.limit
  /\ \E entry \in {GridEntry(Training, Head(learning.variants))} :
       learning' = IF /\ Affordable(entry, learning.first.tokens)
                      /\ entry.quality > learning.start[1].quality
                   THEN [Evaluated(entry) EXCEPT !.start = <<entry>>, !.improved = TRUE,
                                                 !.variants = << >>]
                   ELSE [Evaluated(entry) EXCEPT !.variants = Tail(@)]
  /\ UNCHANGED <<store, learnings, proven>>

RoundOver ==
  /\ learning.pc = "climb" /\ learning.start # << >>
  /\ learning.variants = << >> \/ learning.count >= learning.limit

GoesOn == learning.improved /\ learning.round < HILL_CLIMB_ITERATIONS

NextRound ==
  /\ RoundOver /\ GoesOn
  /\ learning' = NewRound(learning)
  /\ UNCHANGED <<store, learnings, proven>>

EndClimb ==
  /\ RoundOver /\ ~GoesOn
  /\ learning' = [learning EXCEPT
                    !.best = IF @ = << >> \/ better_than(learning.start[1], @[1])
                             THEN learning.start ELSE @,
                    !.start = << >>, !.variants = << >>]
  /\ UNCHANGED <<store, learnings, proven>>

-----------------------------------------------------------------------------
(* PolicyStore *)

NewStore == [readable |-> TRUE, active |-> 0, policies |-> {}]

Unreadable == [NewStore EXCEPT !.readable = FALSE]

\* What a search uses. Only a version the store has names another policy than
\* the baseline, and so only a store that can be read.
active(s) ==
  IF \E policy \in s.policies : policy.version = s.active
  THEN CHOOSE policy \in s.policies : policy.version = s.active
  ELSE baseline

add_candidate(s, new) ==
  IF \E policy \in s.policies : policy.version = new.version THEN s
  ELSE [s EXCEPT !.policies = @ \cup {new}]

activate(s, version) ==
  IF \E policy \in s.policies : policy.version = version THEN [s EXCEPT !.active = version] ELSE s

Learned(s, winner, promoted) ==
  IF promoted THEN activate(add_candidate(s, winner), winner.version) ELSE add_candidate(s, winner)

-----------------------------------------------------------------------------
(* run_learning_pipeline *)

Idle == [pc |-> "idle"]

LearningInit ==
  /\ store = Unreadable
  /\ learning = Idle
  /\ learnings = [started |-> 0, killed |-> 0]
  /\ proven = {}

\* The winner is measured once more, on the tasks that were held out.
EndSearch ==
  /\ learning.pc = "climb" /\ learning.start = << >> /\ learning.starts = << >>
  /\ LET winner == IF learning.best = << >> THEN learning.first ELSE learning.best[1]
         held == Part(learning.corpus, "holdout")
     IN  learning' = [pc |-> "load", winner |-> winner, budget |-> learning.first.tokens,
                      evaluated |-> learning.evaluated,
                      promoted |-> evaluate_promotion(evaluate_policy(held, baseline),
                                                      evaluate_policy(held, winner.policy))]
  /\ UNCHANGED <<store, learnings, proven>>

\* A store that cannot be read is started anew.
LoadStore ==
  /\ learning.pc = "load"
  /\ learning' = [pc |-> "truncate", winner |-> learning.winner.policy,
                  promoted |-> learning.promoted,
                  content |-> Learned(IF store.readable THEN store ELSE NewStore,
                                      learning.winner.policy, learning.promoted)]
  /\ UNCHANGED <<store, learnings, proven>>

\* save: the file is truncated, then written.
TruncateStore ==
  /\ learning.pc = "truncate"
  /\ store' = Unreadable
  /\ learning' = [learning EXCEPT !.pc = "write"]
  /\ UNCHANGED <<learnings, proven>>

WriteStore ==
  /\ learning.pc = "write"
  /\ store' = learning.content
  /\ proven' = IF learning.promoted THEN proven \cup {Parameters(learning.winner)} ELSE proven
  /\ learning' = Idle
  /\ UNCHANGED learnings

KillLearning ==
  /\ learning.pc # "idle" /\ learnings.killed < MaxLearningKills
  /\ learnings' = [learnings EXCEPT !.killed = @ + 1]
  /\ learning' = Idle
  /\ UNCHANGED <<store, proven>>

LearningNext ==
  \/ \E corpus \in Corpora, max_candidates \in MaxCandidates : Optimize(corpus, max_candidates)
  \/ RankCandidate \/ EndGrid \/ NextStart \/ TryVariant \/ NextRound \/ EndClimb \/ EndSearch
  \/ LoadStore \/ TruncateStore \/ WriteStore \/ KillLearning

LearningSpec == LearningInit /\ [][LearningNext]_learningVars

-----------------------------------------------------------------------------

\* What is learned from a corpus is the best that was evaluated within the
\* baseline's tokens, and a version names one policy of a search
\* (optimize.rs:488-491): ranking, truncation to three starts and the climbs
\* from each of them lose nothing.
WinnerIsBest ==
  learning.pc = "load" =>
    /\ Affordable(learning.winner, learning.budget)
    /\ \A entry \in learning.evaluated :
         Affordable(entry, learning.budget) => entry.quality <= learning.winner.quality
    /\ \A a, b \in learning.evaluated : a.policy.version = b.policy.version => a = b

\* Only an improvement proven on the held out tasks makes a policy active
\* (policy/mod.rs:6-7).
OnlyProvenIsActive == Parameters(active(store)) \in proven \cup {Parameters(baseline)}

=============================================================================
