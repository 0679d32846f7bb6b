----------------------------- MODULE CodeNodes -----------------------------
(***************************************************************************)
(* What the resolvers read of a code graph (graph/mod.rs, references.rs).  *)
(* A node is a record of id, name, type, file, start, end, text, crate and *)
(* facts.                                                                  *)
(*   file    [dir, stem, ext]: the path, split                             *)
(*   text    of the content: "let" (a let binding), "declares" (mod x;)    *)
(*           or ""                                                         *)
(*   crate   of a manifest: the package's name and, if any, the library's  *)
(*   facts   [language, calls, imports, bases, names, impl_type]; a lexical*)
(*           node has language "lexical" and its identifiers in calls, each*)
(*           with the form "call" or "word" and how often it occurs in line*)
(*   call    [form, qualifier, name, line]: form "bare", "self", "super",  *)
(*           "member" or "chained"; the qualifier is a path                *)
(*   import  [local, module, symbol]: the module is a path, symbol may be  *)
(*           Whole (import a.b) or "*"                                     *)
(***************************************************************************)
EXTENDS FileGraphs, SequencesExt

Whole == "(module)"

Syntax == {"python", "rust"}

is_rust_const_or_static(node) ==
  node.type = "Variable" /\ node.file.ext = "rs" /\ node.text # "let"

has_references(facts) ==
  \/ facts.calls # {} \/ facts.names # {} \/ facts.bases # << >>
  \/ facts.imports # << >> \/ facts.impl_type # << >>

is_reference_source(node) ==
  IF node.facts.language \in Syntax THEN has_references(node.facts)
  ELSE node.type \in CallableTypes \cup {"Variable", "Import"}

TargetMentions(target, names) ==
  target.name \in names \/ Elements(target.qualifier) \cap names # {}

binding_mentions(binding, names) ==
  Elements(binding.module) \cap names # {} \/ binding.symbol \in names

\* Does the source mention one of the names anywhere?
source_mentions_any(node, names) ==
  LET facts == node.facts
  IN  \/ \E call \in facts.calls : TargetMentions(call, names)
      \/ \E target \in Elements(facts.bases) \cup Elements(facts.impl_type) :
           TargetMentions(target, names)
      \/ \E path \in facts.names : Elements(path) \cap names # {}
      \/ \E binding \in Elements(facts.imports) :
           binding.local \in names \/ binding_mentions(binding, names)

\* The elements of a set in some order.
RECURSIVE Listed(_)
Listed(S) ==
  IF S = {} THEN << >> ELSE LET x == CHOOSE x \in S : TRUE IN <<x>> \o Listed(S \ {x})

\* The first element, in a set of at most one.
First(list) == IF list = << >> THEN {} ELSE {list[1]}

\* What is found, or else what another way finds.
Else(found, otherwise) == IF found # << >> THEN found ELSE otherwise

FlatMap(F(_), list) == FlattenSeq([k \in 1 .. Len(list) |-> F(list[k])])

\* How a call resolved, and its targets: a list, in which a target found twice
\* is listed twice.
Exact(targets) == [certainty |-> "exact", targets |-> targets]
Inferred(targets) == [certainty |-> "inferred", targets |-> targets]
External == [certainty |-> "external", targets |-> << >>]

MaxPossibleTargets == 5

Possible(targets) ==
  IF Cardinality(targets) > MaxPossibleTargets THEN External
  ELSE [certainty |-> "possible", targets |-> Listed(targets)]

EdgeRank == [Calls |-> 0, CallInferred |-> 1, CallAmbiguous |-> 2, References |-> 3,
             Imports |-> 4, ImportAmbiguous |-> 5, Inherits |-> 6, Contains |-> 7]

CallEdge(resolution) ==
  IF resolution.certainty = "inferred" THEN "CallInferred"
  ELSE IF resolution.certainty = "exact" /\ Len(resolution.targets) = 1
  THEN "Calls"
  ELSE "CallAmbiguous"

call_edges(resolution) ==
  {<<target, CallEdge(resolution)>> : target \in Elements(resolution.targets)}

\* Of the links to one target the strongest.
Strongest(links) ==
  {link \in links : \A other \in links :
     other[1] = link[1] => EdgeRank[link[2]] <= EdgeRank[other[2]]}

ImportLinks(targets) ==
  {<<target, IF Len(targets) = 1 THEN "Imports" ELSE "ImportAmbiguous">> :
     target \in Elements(targets)}

\* The links of a source: what it calls, and what else it names.
Links(called, used, source) ==
  called \cup {<<i, "References">> : i \in used \ ({source} \cup {link[1] : link \in called})}

From(i, links) == {<<i, link[1], link[2]>> : link \in links}

=============================================================================
