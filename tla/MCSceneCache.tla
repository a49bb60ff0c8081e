---------------------------- MODULE MCSceneCache ----------------------------
\* Meshes and triangles are interchangeable.
EXTENDS SceneCache, TLC

Symmetry == Permutations(Meshes) \cup Permutations(Triangles)

\* Bound: the pointers a mesh holds.  Two are two triangles or one held twice,
\* and leave a third triangle for each to be copied to.
Pointers(m) == {<<t, i>> \in Triangles \X (1..MaxHeld) : i <= tris[m][t]}
PointerBound == \A m \in Meshes : Cardinality(Pointers(m)) <= 2
=============================================================================
