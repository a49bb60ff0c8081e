------------------------------ MODULE MCKdTree ------------------------------
\* Finite scenes and rays for TLC: shapes that stand along two axes and reach
\* each other's edges, in a slab of the third.
EXTENDS KdTree, FiniteSetsExt

Triangle(min, max) == [kind |-> "triangle", min |-> min, max |-> max]
Cube(min, max) == [kind |-> "cube", min |-> min, max |-> max]

Standing == {Triangle(<<x, y, 2>>, <<x, y + 4, 4>>) : x \in {2, 6, 10}, y \in {0, 4, 8}}
Lying == {Triangle(<<x, y, 2>>, <<x + 4, y, 4>>) : x \in {2, 6}, y \in {2, 4, 8}}

Mixed ==
    {Triangle(<<x, y, 2>>, <<x, y + 4, 4>>) : x \in {2, 6}, y \in {0, 4}}
    \cup {Cube(<<x, y, 0>>, <<x + 4, y + 2, 4>>) : x \in {-4, 0, 4}, y \in {-2, 0, 4}}

\* Eight shapes are split once; of more, a child is split again.
TriangleScenes ==
    {Standing \cup Lying} \cup kSubset(14, Standing \cup Lying)
    \cup kSubset(8, Standing) \cup {Lying \cup S : S \in kSubset(6, Standing)}
MixedScenes == {Mixed} \cup kSubset(10, Mixed) \cup kSubset(12, Mixed)

Level == {<<x, y, 2>> : x \in {-6, 0, 2, 5, 6, 10, 12}, y \in {0, 2, 4, 5, 8}}
Flat == {<<x, y, "0">> : x, y \in Components}
        \ {<<x, y, "0">> : x, y \in {"-0", "0"}}
=============================================================================
