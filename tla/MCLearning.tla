---------------------------- MODULE MCLearning ----------------------------
(* Instances of PolicyLearning: corpora of a few tasks. *)
EXTENDS PolicyLearning

Lengths == [hit \in {"a", "b", "c", "x", "y", "z"} |-> 4000]

\* A search that finds what it expects with the given weights only.
Search(id, split, weights) ==
  [id |-> id, kind |-> "search_code", split |-> split, hashed |-> "train", expected |-> {"a"},
   min_recall |-> 1, length |-> Lengths,
   found |-> [w \in {"default", weights} |-> IF w = "default" THEN <<"b", "c">> ELSE <<"a", "c">>]]

\* A prediction that needs both semantic neighbours.
Prediction(id, split) ==
  [id |-> id, kind |-> "predict_context", split |-> split, hashed |-> "train",
   expected |-> {"x", "z"}, min_recall |-> 2, length |-> Lengths,
   found |-> [w \in {"default"} |-> <<"x", "y", "z">>]]

\* What helps in training may help the tasks held out, or not.
Corpus(weights, held) ==
  {Search(1, "none", weights), Search(2, "holdout", weights), Search(3, "none", weights),
   Search(4, "holdout", held), Prediction(5, "train"), Prediction(6, "holdout")}

MCCorpora == {Corpus("35/50/10/5", "none"), Corpus("50/50", "50/50"),
              Corpus("none", "55/35/5/5"), Corpus("65/25/7/3", "65/25/7/3")}

=============================================================================
