-------------------------- MODULE MCContextMemory --------------------------
\* Small instances of ContextMemory: an episode with one thing to extract, and
\* two facts to promote, one of them about an episode nobody knows; and the
\* same beside an episode and a fact from before there were projects.
EXTENDS ContextMemory, TLC

MCProjectOf == [e \in {1} |-> "p"]
MCExtractions == {[source |-> 1, subject |-> "tidy", object |-> "x", valid |-> 0]}
MCPromotions == {
  [subject |-> "untidy", object |-> "x", sources |-> {1}, valid |-> 1],
  [subject |-> "tidy", object |-> "y", sources |-> {0}, valid |-> 1]}
MCActionSets == {{"normalize", "dedupe"}, {"rebuild"}}
NoLegacy == [i \in {} |-> None]

LegacyProjectOf == [e \in {1, 2} |-> IF e = 1 THEN "p" ELSE "unassigned"]
LegacyFacts == [i \in {1} |->
  [subject |-> "tidy", object |-> "z", project |-> "unassigned", sources |-> {2},
   valid |-> 0, invalid |-> None, by |-> None]]

Interchangeable == Permutations(Jobs)
=============================================================================
