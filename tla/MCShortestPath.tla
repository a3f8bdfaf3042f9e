--------------------------- MODULE MCShortestPath ---------------------------
(* Instances of ShortestPath for TLC.                                       *)
EXTENDS ShortestPath

GraphOf(E) == [x \in Nodes |-> {y \in Nodes : {x, y} \in E}]

\* Four nodes, Self is 2: connected graphs of each shape, and two in which a
\* node is out of reach.
SomeGraphs == {GraphOf(E) : E \in {
    {{2, 1}, {1, 3}, {3, 4}},                           \* a line from Self
    {{1, 2}, {2, 3}, {3, 4}},                           \* a line through Self
    {{1, 2}, {1, 3}, {1, 4}},                           \* a star, Self outside
    {{2, 1}, {2, 3}, {1, 4}, {3, 4}},                   \* a ring, two ways to 4
    {{2, 1}, {2, 3}, {1, 3}, {3, 4}},                   \* a triangle with a tail
    {{2, 1}, {1, 3}, {1, 4}, {3, 4}},                   \* a triangle behind a node
    {{2, 1}, {2, 3}, {1, 3}, {1, 4}, {3, 4}},           \* a ring with a chord
    {{2, 1}, {1, 3}},                                   \* 4 out of reach
    {{1, 3}, {3, 4}}}}                                  \* Self alone
=============================================================================
