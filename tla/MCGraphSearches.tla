-------------------------- MODULE MCGraphSearches --------------------------
EXTENDS GraphSearches, TLC

\* A file f with one function, and functions 3..7 of a file g, which use the
\* function, each other, or f itself; the function of f may call the sixth.
SearchNodes ==
  LET ANode(file, type, name) == [id |-> <<file, "", type, name>>, name |-> name, file |-> file, type |-> type]
  IN  <<ANode("f", "File", "/file"), ANode("f", "Function", "2")>>
      \o [k \in 1 .. 5 |-> ANode("g", "Function", ToString(k + 2))]

\* What each of the functions 2..7 uses.
UseChoices ==
  {<<a, b, c, d, e, {<<6, "Writes">>}>> :
     a \in {{}, {<<6, "Calls">>}},
     b \in {{}, {<<2, "Calls">>}, {<<2, "References">>, <<1, "Imports">>}},
     c \in {{<<3, "Calls">>}, {<<3, "CallInferred">>, <<2, "Calls">>}},
     d \in {{}, {<<4, "Defines">>}, {<<4, "Calls">>, <<3, "Calls">>}},
     e \in {{<<5, "Calls">>}, {<<5, "CallAmbiguous">>, <<4, "Calls">>}}}

MCReadGraphs ==
  {rebuild_index([EmptyGraph EXCEPT !.nodes = SearchNodes,
                    !.edges = {<<1, 2, "Contains">>} \cup UNION {{<<k + 1, use[1], use[2]>> : use \in uses[k]} : k \in 1 .. 6}]) :
     uses \in UseChoices}

\* The function of f under its name and under an old one, and two others.
MCAskedIds == {SearchNodes[i].id : i \in {2, 3, 6, 7}} \cup {<<"f", "", "Function", "old">>, <<"g", "", "Function", "old">>}

=============================================================================
