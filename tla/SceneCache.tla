------------------------------ MODULE SceneCache ------------------------------
(***************************************************************************)
(* What meshes and the scene remember in Go, pt-go/mesh.go and scene.go.   *)
(* A mesh keeps its bounding box and its k-d tree, the scene its k-d tree  *)
(* over the boxes of its shapes; both are built when first needed.  A mesh *)
(* holds a slice of pointers to triangles: Add makes two meshes hold the   *)
(* same triangles, and a mesh hold one more than once, which Transform     *)
(* then moves once for each time.  A slice is kept as how often each       *)
(* triangle is in it; its order decides nothing here.                      *)
(*                                                                         *)
(* Space is one axis, and a triangle is the place where it lies; a tree of *)
(* a mesh is where each triangle was when it was built.  Calls are made    *)
(* one at a time: nothing here may be called while a render is running.    *)
(***************************************************************************)
EXTENDS Integers, FiniteSets

CONSTANTS
    Meshes, Triangles,
    Places,         \* bound: where triangles may be moved to
    MaxHeld         \* bound: how often a mesh holds one triangle

\* Finitely many places: any of them have a first and a last.
ASSUME PlacesAssumption ==
    /\ Places \subseteq Int
    /\ \A S \in SUBSET Places : S # {} =>
          \E a, b \in S : \A c \in S : a <= c /\ c <= b
ASSUME HeldAssumption == MaxHeld \in Nat \ {0}

VARIABLES
    tris,    \* tris[m][t]: how often t is in Triangles; no such mesh yet: never
    place,   \* place[t]: the vertices
    box,     \* box[m]: nil, or the bounding box
    tree,    \* tree[m]: nil, or where each triangle is in the tree
    shapes,  \* Scene.Shapes
    sceneTree

meshVars == <<tris, place, box, tree>>
sceneVars == <<shapes, sceneTree>>
vars == <<meshVars, sceneVars>>

nil == {}

\* Mutant: the search begins at the origin.
FirstOrOrigin(S) ==
    CHOOSE a \in {place[t] : t \in S} \cup {0} : \A b \in {place[t] : t \in S} \cup {0} : a <= b

\* The box of some triangles: its two ends.
First(S) ==
    CHOOSE a \in {place[t] : t \in S} : \A t \in S : a <= place[t]
Last(S) ==
    CHOOSE a \in {place[t] : t \in S} : \A t \in S : a >= place[t]
Hull(S) == [min |-> First(S), max |-> Last(S)]

Boxes == [min : Places, max : Places]

\* The tree over some triangles: the place it has for each.
TreeOf(S) == {<<t, place[t]>> : t \in S}

TypeOK ==
    /\ tris \in [Meshes -> [Triangles -> 0..MaxHeld]]
    /\ place \in [Triangles -> Places]
    /\ box \in [Meshes -> SUBSET Boxes]
    /\ tree \in [Meshes -> SUBSET (Triangles \X Places)]
    /\ shapes \subseteq Meshes
    /\ sceneTree \subseteq Meshes \X Boxes

Init ==
    /\ tris = [m \in Meshes |-> [t \in Triangles |-> 0]]
    /\ place \in [Triangles -> Places]
    /\ box = [m \in Meshes |-> nil]
    /\ tree = [m \in Meshes |-> nil]
    /\ shapes = {}
    /\ sceneTree = nil

Held(m) == {t \in Triangles : tris[m][t] > 0}
Made(m) == Held(m) # {}
Unused == Triangles \ UNION {Held(m) : m \in Meshes}

\* Each triangle of S once.
Once(S) == [t \in Triangles |-> IF t \in S THEN 1 ELSE 0]

-----------------------------------------------------------------------------
(***************************************************************************)
(* Meshes.  BoundingBox of a mesh without triangles panics; there is none. *)
(***************************************************************************)
NewMesh(m, S) ==
    /\ ~Made(m)
    /\ S # {}
    /\ tris' = [tris EXCEPT ![m] = Once(S)]
    /\ UNCHANGED <<place, box, tree, sceneVars>>

\* Every pointer of the slice is copied to a new triangle, so a triangle that is
\* held twice becomes two.
Copy(m, copy) ==
    /\ Made(m) /\ ~Made(copy)
    /\ \E C \in SUBSET Unused : \E of \in [C -> Held(m)] :
          /\ \A t \in Held(m) : Cardinality({c \in C : of[c] = t}) = tris[m][t]
          /\ tris' = [tris EXCEPT ![copy] = Once(C)]
          /\ place' = [c \in Triangles |-> IF c \in C THEN place[of[c]] ELSE place[c]]
    /\ UNCHANGED <<box, tree, sceneVars>>

dirty(m) ==
    /\ box' = [box EXCEPT ![m] = nil]
    /\ tree' = [tree EXCEPT ![m] = nil]

\* Mutant: what the mesh remembers is kept.
AddClean(a, b) ==
    /\ Made(a) /\ Made(b)
    /\ \A t \in Triangles : tris[a][t] + tris[b][t] <= MaxHeld
    /\ tris' = [tris EXCEPT ![a] = [t \in Triangles |-> @[t] + tris[b][t]]]
    /\ UNCHANGED <<place, box, tree, sceneVars>>

\* The pointers of b are appended to those of a, which may be b itself or hold
\* some of them already.
Add(a, b) ==
    /\ Made(a) /\ Made(b)
    /\ \A t \in Triangles : tris[a][t] + tris[b][t] <= MaxHeld
    /\ tris' = [tris EXCEPT ![a] = [t \in Triangles |-> @[t] + tris[b][t]]]
    /\ dirty(a)
    /\ UNCHANGED <<place, sceneVars>>

\* Mutant: the box is dropped and the tree is not.
TransformKeepsTree(m, by) ==
    /\ place' = [t \in Triangles |-> place[t] + tris[m][t] * by]
    /\ \A t \in Triangles : place'[t] \in Places
    /\ box' = [box EXCEPT ![m] = nil]
    /\ UNCHANGED <<tris, tree, sceneVars>>

\* A translation (in the code any matrix) of what every pointer points to.
Transform(m, by) ==
    /\ place' = [t \in Triangles |-> place[t] + tris[m][t] * by]
    /\ \A t \in Triangles : place'[t] \in Places
    /\ dirty(m)
    /\ UNCHANGED <<tris, sceneVars>>

\* The box as BoundingBox returns it, remembered or not.
BoxOf(m) == IF box[m] = nil THEN Hull(Held(m)) ELSE CHOOSE b \in box[m] : TRUE

BoundingBox(m) ==
    /\ Made(m)
    /\ box' = [box EXCEPT ![m] = {BoxOf(m)}]
    /\ UNCHANGED <<tris, place, tree, sceneVars>>

\* Mutant: the other end of the box.
MoveToMax(m, position) ==
    /\ Made(m)
    /\ Transform(m, position - BoxOf(m).max)

\* The corner of the box is moved to the position.
MoveTo(m, position) ==
    /\ Made(m)
    /\ Transform(m, position - BoxOf(m).min)

-----------------------------------------------------------------------------
(***************************************************************************)
(* The scene.                                                              *)
(***************************************************************************)
SceneAdd(m) ==
    /\ Made(m)
    /\ shapes' = shapes \cup {m}
    /\ UNCHANGED <<meshVars, sceneTree>>

\* Mutant: a mesh that has its box is taken to have its tree.
CompileByBox ==
    /\ shapes # {}
    /\ tree' = [m \in Meshes |->
                  IF m \in shapes /\ box[m] = nil THEN TreeOf(Held(m)) ELSE tree[m]]
    /\ IF sceneTree = nil
       THEN /\ sceneTree' = {<<m, BoxOf(m)>> : m \in shapes}
            /\ box' = [m \in Meshes |-> IF m \in shapes THEN {BoxOf(m)} ELSE box[m]]
       ELSE UNCHANGED <<sceneTree, box>>
    /\ UNCHANGED <<tris, place, shapes>>

\* Every shape that has no tree gets one; so does the scene, once.  Building it
\* asks every shape for its box.  (A scene without shapes is left out.)
Compile ==
    /\ shapes # {}
    /\ tree' = [m \in Meshes |->
                  IF m \in shapes /\ tree[m] = nil THEN TreeOf(Held(m)) ELSE tree[m]]
    /\ IF sceneTree = nil
       THEN /\ sceneTree' = {<<m, BoxOf(m)>> : m \in shapes}
            /\ box' = [m \in Meshes |-> IF m \in shapes THEN {BoxOf(m)} ELSE box[m]]
       ELSE UNCHANGED <<sceneTree, box>>
    /\ UNCHANGED <<tris, place, shapes>>

\* The translations that may keep a triangle within Places.
Shifts == {p - q : p, q \in Places}

Next ==
    \/ \E m \in Meshes, S \in SUBSET Triangles : NewMesh(m, S)
    \/ \E m, n \in Meshes : Copy(m, n) \/ Add(m, n)
    \/ \E m \in Meshes, by \in Shifts : Made(m) /\ Transform(m, by)
    \/ \E m \in Meshes, p \in Places : MoveTo(m, p)
    \/ \E m \in Meshes : BoundingBox(m) \/ SceneAdd(m)
    \/ Compile

Spec == Init /\ [][Next]_vars

-----------------------------------------------------------------------------
\* Does a mesh remember only what is still so?
Fresh(m) ==
    /\ box[m] # nil => box[m] = {Hull(Held(m))}
    /\ tree[m] # nil => tree[m] = TreeOf(Held(m))

Shares(m, n) == Held(m) \cap Held(n) # {}
Unshared(m) == \A n \in Meshes \ {m} : ~Shares(m, n)

\* A mesh whose triangles are its own never remembers a box or a tree that its
\* triangles have left.
UnsharedFresh == \A m \in Meshes : Unshared(m) => Fresh(m)

\* A mesh goes stale in one way only: another mesh that holds some of its
\* triangles is transformed.  In particular Add and Transform drop what would be
\* stale, and a copy is independent of its original.
StaleOnlyByAliasing ==
    [][\A m \in Meshes :
          Fresh(m) /\ ~Fresh(m)' =>
              \E n \in Meshes \ {m} :
                  /\ Shares(m, n)
                  /\ \E t \in Held(n) : place'[t] # place[t]
                  /\ box'[n] = nil /\ tree'[n] = nil]_vars

\* MoveTo of a mesh that is not stale and holds no triangle twice puts its corner
\* at the position.  (A triangle held twice is moved twice, so that the mesh is
\* torn apart and its corner misses.)
MoveToLands ==
    [][\A m \in Meshes, p \in Places :
          MoveTo(m, p) /\ Fresh(m) /\ tris[m] = Once(Held(m)) =>
              First(Held(m))' = p]_vars

\* After Compile every shape of the scene can be traced where it is now; it is
\* found where it is now if this is the first Compile (scene.go builds the
\* scene's tree once, so a shape added or moved later is looked for where it was).
CompileIndexes ==
    [][Compile =>
          \A m \in shapes : Fresh(m) =>
              /\ tree'[m] = TreeOf(Held(m))
              /\ sceneTree = nil => <<m, Hull(Held(m))>> \in sceneTree']_vars
=============================================================================
