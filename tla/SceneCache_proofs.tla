-------------------------- MODULE SceneCache_proofs --------------------------
(***************************************************************************)
(* Proofs about SceneCache: its types, and when what a mesh remembers can  *)
(* be stale.                                                               *)
(***************************************************************************)
EXTENDS SceneCache, FiniteSetTheorems, TLAPS

\* There is nothing to remember of a mesh that was not made, and it is not in
\* the scene.
MadeOnly ==
    /\ \A m \in Meshes : ~Made(m) => box[m] = nil /\ tree[m] = nil
    /\ \A m \in shapes : Made(m)

CacheInv == TypeOK /\ MadeOnly /\ UnsharedFresh

-----------------------------------------------------------------------------
\* First and Last are places of the triangles, below and above all of them.
LEMMA HullEnds ==
    ASSUME NEW S \in SUBSET Triangles, S # {}, place \in [Triangles -> Places]
    PROVE  /\ First(S) \in {place[t] : t \in S}
           /\ Last(S) \in {place[t] : t \in S}
           /\ \A t \in S : First(S) <= place[t] /\ place[t] <= Last(S)
  <1> DEFINE P == {place[t] : t \in S}
  <1>1. P \in SUBSET Places /\ P # {}
    OBVIOUS
  <1>2. PICK a \in P, b \in P : \A c \in P : a <= c /\ c <= b
    BY <1>1, PlacesAssumption
  <1>3. P \subseteq Int
    BY <1>1, PlacesAssumption
  <1>4. a \in P /\ \A t \in S : a <= place[t]
    BY <1>2
  <1>5. b \in P /\ \A t \in S : b >= place[t]
    BY <1>2, <1>3
  <1>6. First(S) \in P /\ \A t \in S : First(S) <= place[t]
    BY <1>4 DEF First
  <1>7. Last(S) \in P /\ \A t \in S : Last(S) >= place[t]
    BY <1>5 DEF Last
  <1> QED
    BY <1>3, <1>6, <1>7

\* The hull is a box within the places.
LEMMA HullType ==
    ASSUME NEW S \in SUBSET Triangles, S # {}, place \in [Triangles -> Places]
    PROVE  Hull(S) \in Boxes
  BY HullEnds DEF Hull, Boxes

\* What BoundingBox returns is a box, and the hull if the mesh is not stale.
LEMMA BoxOfType ==
    ASSUME TypeOK, NEW m \in Meshes, Made(m)
    PROVE  BoxOf(m) \in Boxes /\ (Fresh(m) => BoxOf(m) = Hull(Held(m)))
  <1>1. Held(m) \in SUBSET Triangles /\ Held(m) # {} /\ box[m] \in SUBSET Boxes
    BY DEF TypeOK, Made, Held
  <1>2. Hull(Held(m)) \in Boxes
    BY <1>1, HullType DEF TypeOK
  <1>3. CASE box[m] = nil
    BY <1>2, <1>3 DEF BoxOf
  <1>4. CASE box[m] # nil
    <2>1. BoxOf(m) \in box[m]
      BY <1>4 DEF BoxOf, nil
    <2> QED
      BY <1>1, <1>4, <2>1 DEF Fresh
  <1> QED
    BY <1>3, <1>4

\* The tree over triangles of a mesh is one of triangles and places.
LEMMA TreeOfType ==
    ASSUME TypeOK, NEW m \in Meshes
    PROVE  TreeOf(Held(m)) \in SUBSET (Triangles \X Places)
  BY DEF TypeOK, TreeOf, Held

\* The hull and the tree of a mesh depend on where its triangles are only.
LEMMA SamePlaces ==
    ASSUME NEW m, tris'[m] = tris[m], \A t \in Held(m) : place'[t] = place[t]
    PROVE  /\ Held(m)' = Held(m)
           /\ Hull(Held(m))' = Hull(Held(m))
           /\ TreeOf(Held(m))' = TreeOf(Held(m))
  <1> DEFINE S == Held(m)
  <1>1. S' = S
    BY DEF Held
  <1>2. {place'[t] : t \in S} = {place[t] : t \in S}
    OBVIOUS
  <1>3. {<<t, place'[t]>> : t \in S} = {<<t, place[t]>> : t \in S}
    OBVIOUS
  <1>4. \A a : (\A t \in S : a <= place'[t]) <=> (\A t \in S : a <= place[t])
    OBVIOUS
  <1>5. \A a : (\A t \in S : a >= place'[t]) <=> (\A t \in S : a >= place[t])
    OBVIOUS
  <1> HIDE DEF S
  <1>6. First(S)' = First(S) /\ Last(S)' = Last(S) /\ TreeOf(S)' = TreeOf(S)
    BY <1>1, <1>2, <1>3, <1>4, <1>5 DEF First, Last, TreeOf
  <1> QED
    BY <1>1, <1>6 DEF Hull, S

\* A mesh that holds each triangle of S once holds S.
LEMMA OnceHolds ==
    ASSUME NEW m, NEW S \in SUBSET Triangles, tris'[m] = Once(S)
    PROVE  Held(m)' = S
  BY DEF Held, Once

\* The triangles that stand for those of a mesh are unused ones, and not none.
LEMMA CopyOf ==
    ASSUME TypeOK, NEW m \in Meshes, NEW n \in Meshes, Copy(m, n)
    PROVE  \E C \in SUBSET Unused : \E of \in [C -> Held(m)] :
              /\ C # {}
              /\ tris' = [tris EXCEPT ![n] = Once(C)]
              /\ place' = [c \in Triangles |-> IF c \in C THEN place[of[c]] ELSE place[c]]
  <1>0. PICK C \in SUBSET Unused :
          \E of \in [C -> Held(m)] :
            /\ \A t \in Held(m) : Cardinality({c \in C : of[c] = t}) = tris[m][t]
            /\ tris' = [tris EXCEPT ![n] = Once(C)]
            /\ place' = [c \in Triangles |-> IF c \in C THEN place[of[c]] ELSE place[c]]
    BY DEF Copy
  <1>1. PICK of \in [C -> Held(m)] :
          /\ \A t \in Held(m) : Cardinality({c \in C : of[c] = t}) = tris[m][t]
          /\ tris' = [tris EXCEPT ![n] = Once(C)]
          /\ place' = [c \in Triangles |-> IF c \in C THEN place[of[c]] ELSE place[c]]
    BY <1>0
  <1>2. PICK t \in Held(m) : TRUE
    BY DEF Copy, Made
  <1>3. tris[m][t] # 0
    BY <1>2 DEF Held
  <1>4. Cardinality({}) = 0
    BY FS_EmptySet
  <1>5. C # {}
    <2> SUFFICES ASSUME C = {} PROVE FALSE
      OBVIOUS
    <2>1. {c \in C : of[c] = t} = {}
      OBVIOUS
    <2> QED
      BY <1>1, <1>2, <1>3, <1>4, <2>1
  <1> QED
    BY <1>1, <1>5

\* The distance between two places is an integer.
LEMMA PlacesApart ==
    ASSUME NEW p \in Places, NEW q \in Places
    PROVE  p - q \in Int
  <1>1. p \in Int /\ q \in Int
    BY PlacesAssumption
  <1> QED
    BY <1>1

-----------------------------------------------------------------------------
\* Nothing is made, so nothing is stale.
LEMMA CacheInit == Init => CacheInv
  <1> SUFFICES ASSUME Init PROVE CacheInv
    OBVIOUS
  <1>1. TypeOK
    BY HeldAssumption DEF Init, TypeOK, nil
  <1>2. MadeOnly
    BY DEF Init, MadeOnly, Made, Held, nil
  <1>3. UnsharedFresh
    BY DEF Init, UnsharedFresh, Fresh, nil
  <1> QED
    BY <1>1, <1>2, <1>3 DEF CacheInv

\* Every operation keeps the types, and remembers nothing of a mesh that was
\* not made.
LEMMA TypeStep ==
    ASSUME TypeOK, MadeOnly, [Next]_vars
    PROVE  TypeOK' /\ MadeOnly'
  <1> USE DEF TypeOK, MadeOnly, Made, nil
  <1>1. ASSUME NEW m \in Meshes, NEW S \in SUBSET Triangles, NewMesh(m, S)
        PROVE  TypeOK' /\ MadeOnly'
    <2>1. Once(S) \in [Triangles -> 0..MaxHeld]
      BY HeldAssumption DEF Once
    <2>2. TypeOK'
      BY <1>1, <2>1 DEF NewMesh, sceneVars
    <2>3. Held(m)' = S /\ \A n \in Meshes \ {m} : Held(n)' = Held(n)
      BY <1>1, OnceHolds DEF NewMesh, Held
    <2>4. MadeOnly'
      BY <1>1, <2>3 DEF NewMesh, sceneVars
    <2> QED
      BY <2>2, <2>4
  <1>2. ASSUME NEW m \in Meshes, NEW n \in Meshes, Copy(m, n)
        PROVE  TypeOK' /\ MadeOnly'
    <2>0. PICK C \in SUBSET Unused :
            \E of \in [C -> Held(m)] :
              /\ C # {}
              /\ tris' = [tris EXCEPT ![n] = Once(C)]
              /\ place' = [c \in Triangles |-> IF c \in C THEN place[of[c]] ELSE place[c]]
      BY <1>2, CopyOf
    <2>1. PICK of \in [C -> Held(m)] :
            /\ C # {}
            /\ tris' = [tris EXCEPT ![n] = Once(C)]
            /\ place' = [c \in Triangles |-> IF c \in C THEN place[of[c]] ELSE place[c]]
      BY <2>0
    <2>2. C \in SUBSET Triangles /\ Held(m) \in SUBSET Triangles
      BY DEF Unused, Held
    <2>3. Once(C) \in [Triangles -> 0..MaxHeld]
      BY HeldAssumption DEF Once
    <2>4. place' \in [Triangles -> Places]
      BY <2>1, <2>2
    <2>5. TypeOK'
      BY <1>2, <2>1, <2>3, <2>4 DEF Copy, sceneVars
    <2>6. Held(n)' = C /\ \A k \in Meshes \ {n} : Held(k)' = Held(k)
      BY <2>1, <2>2, OnceHolds DEF Held
    <2>7. MadeOnly'
      BY <1>2, <2>1, <2>6 DEF Copy, sceneVars
    <2> QED
      BY <2>5, <2>7
  <1>3. ASSUME NEW a \in Meshes, NEW b \in Meshes, Add(a, b)
        PROVE  TypeOK' /\ MadeOnly'
    <2>1. \A t \in Triangles : tris[a][t] + tris[b][t] \in 0..MaxHeld
      BY <1>3, HeldAssumption DEF Add
    <2>2. TypeOK'
      BY <1>3, <2>1 DEF Add, dirty, sceneVars
    <2>3. Held(a) \subseteq Held(a)' /\ \A k \in Meshes \ {a} : Held(k)' = Held(k)
      BY <1>3 DEF Add, Held
    <2>4. MadeOnly'
      BY <1>3, <2>3 DEF Add, dirty, sceneVars
    <2> QED
      BY <2>2, <2>4
  <1>4. ASSUME NEW m \in Meshes, NEW by \in Int, Transform(m, by)
        PROVE  TypeOK' /\ MadeOnly'
    <2>1. place' \in [Triangles -> Places]
      BY <1>4 DEF Transform
    <2> QED
      BY <1>4, <2>1 DEF Transform, dirty, sceneVars, Held
  <1>5. ASSUME NEW m \in Meshes, NEW p \in Places, MoveTo(m, p)
        PROVE  TypeOK' /\ MadeOnly'
    <2>1. BoxOf(m) \in Boxes
      BY <1>5, BoxOfType DEF MoveTo
    <2>2. BoxOf(m).min \in Places
      BY <2>1 DEF Boxes
    <2>3. p - BoxOf(m).min \in Int
      BY <2>2, PlacesApart
    <2> QED
      BY <1>4, <1>5, <2>3 DEF MoveTo
  <1>6. ASSUME NEW m \in Meshes, BoundingBox(m)
        PROVE  TypeOK' /\ MadeOnly'
    BY <1>6, BoxOfType DEF BoundingBox, sceneVars, Held
  <1>7. ASSUME NEW m \in Meshes, SceneAdd(m)
        PROVE  TypeOK' /\ MadeOnly'
    BY <1>7 DEF SceneAdd, meshVars, Held
  <1>8. CASE Compile
    <2>1. \A m \in shapes : BoxOf(m) \in Boxes
      BY BoxOfType
    <2>2. tree' \in [Meshes -> SUBSET (Triangles \X Places)]
      BY <1>8, TreeOfType DEF Compile
    <2>3. box' \in [Meshes -> SUBSET Boxes] /\ sceneTree' \subseteq Meshes \X Boxes
      <3>1. CASE sceneTree = nil
        BY <1>8, <2>1, <3>1 DEF Compile
      <3>2. CASE sceneTree # nil
        BY <1>8, <3>2 DEF Compile
      <3> QED
        BY <3>1, <3>2
    <2>4. MadeOnly'
      BY <1>8 DEF Compile, Held
    <2> QED
      BY <1>8, <2>2, <2>3, <2>4 DEF Compile
  <1>9. CASE UNCHANGED vars
    BY <1>9 DEF vars, meshVars, sceneVars, Held
  <1>10. Shifts \subseteq Int
    BY PlacesApart DEF Shifts
  <1> QED
    BY <1>1, <1>2, <1>3, <1>4, <1>5, <1>6, <1>7, <1>8, <1>9, <1>10 DEF Next

-----------------------------------------------------------------------------
\* A mesh of which nothing is remembered is not stale.
LEMMA NilFresh ==
    ASSUME NEW m, box[m] = nil, tree[m] = nil
    PROVE  Fresh(m)
  BY DEF Fresh

\* A mesh whose triangles, box and tree are left alone stays as it is.
LEMMA UntouchedFresh ==
    ASSUME NEW m, Fresh(m),
           tris'[m] = tris[m], box'[m] = box[m], tree'[m] = tree[m],
           \A t \in Held(m) : place'[t] = place[t]
    PROVE  Fresh(m)'
  <1>1. Hull(Held(m))' = Hull(Held(m)) /\ TreeOf(Held(m))' = TreeOf(Held(m))
    BY SamePlaces
  <1> QED
    BY <1>1 DEF Fresh

\* A step can make a mesh stale only by moving some of its triangles with
\* another mesh.
LEMMA StaleStep ==
    ASSUME CacheInv, [Next]_vars, NEW m \in Meshes, Fresh(m), ~Fresh(m)'
    PROVE  \E n \in Meshes \ {m} :
               /\ Shares(m, n)
               /\ \E t \in Held(n) : place'[t] # place[t]
               /\ box'[n] = nil /\ tree'[n] = nil
  <1> USE DEF CacheInv, TypeOK
  <1>1. ASSUME NEW n \in Meshes, NEW S \in SUBSET Triangles, NewMesh(n, S)
        PROVE  Fresh(m)'
    <2>1. CASE m = n
      <3>1. box'[m] = nil /\ tree'[m] = nil
        BY <1>1, <2>1 DEF NewMesh, MadeOnly
      <3> QED
        BY <3>1 DEF Fresh
    <2>2. CASE m # n
      BY <1>1, <2>2, UntouchedFresh DEF NewMesh
    <2> QED
      BY <2>1, <2>2
  <1>2. ASSUME NEW a \in Meshes, NEW n \in Meshes, Copy(a, n)
        PROVE  Fresh(m)'
    <2>0. PICK C \in SUBSET Unused :
            \E of \in [C -> Held(a)] :
              /\ C # {}
              /\ tris' = [tris EXCEPT ![n] = Once(C)]
              /\ place' = [c \in Triangles |-> IF c \in C THEN place[of[c]] ELSE place[c]]
      BY <1>2, CopyOf
    <2>1. PICK of \in [C -> Held(a)] :
            /\ C # {}
            /\ tris' = [tris EXCEPT ![n] = Once(C)]
            /\ place' = [c \in Triangles |-> IF c \in C THEN place[of[c]] ELSE place[c]]
      BY <2>0
    <2>2. CASE m = n
      <3>1. box'[m] = nil /\ tree'[m] = nil
        BY <1>2, <2>2 DEF Copy, MadeOnly
      <3> QED
        BY <3>1 DEF Fresh
    <2>3. CASE m # n
      <3>1. \A t \in Held(m) : t \in Triangles /\ t \notin Unused
        BY DEF Unused, Held
      <3>2. \A t \in Held(m) : place'[t] = place[t]
        BY <2>1, <3>1
      <3> QED
        BY <1>2, <2>1, <2>3, <3>2, UntouchedFresh DEF Copy
    <2> QED
      BY <2>2, <2>3
  <1>3. ASSUME NEW a \in Meshes, NEW b \in Meshes, Add(a, b)
        PROVE  Fresh(m)'
    <2>1. CASE m = a
      <3>1. box'[m] = nil /\ tree'[m] = nil
        BY <1>3, <2>1 DEF Add, dirty
      <3> QED
        BY <3>1 DEF Fresh
    <2>2. CASE m # a
      BY <1>3, <2>2, UntouchedFresh DEF Add, dirty
    <2> QED
      BY <2>1, <2>2
  <1>4. ASSUME NEW n \in Meshes, NEW by \in Int, Transform(n, by)
        PROVE  /\ n # m
               /\ Shares(m, n)
               /\ \E t \in Held(n) : place'[t] # place[t]
               /\ box'[n] = nil /\ tree'[n] = nil
    <2>1. box'[n] = nil /\ tree'[n] = nil
      BY <1>4 DEF Transform, dirty
    <2>2. n # m
      BY <2>1 DEF Fresh
    <2>3. tris'[m] = tris[m] /\ box'[m] = box[m] /\ tree'[m] = tree[m]
      BY <1>4, <2>2 DEF Transform, dirty
    <2>4. PICK t \in Held(m) : place'[t] # place[t]
      BY <2>3, UntouchedFresh
    <2>5. t \in Held(n)
      <3>1. t \in Triangles /\ place[t] \in Int /\ tris[n][t] \in Nat
        <4>1. t \in Triangles
          BY <2>4 DEF Held
        <4>2. place[t] \in Places /\ tris[n][t] \in 0..MaxHeld
          BY <4>1
        <4>3. Places \subseteq Int
          BY PlacesAssumption
        <4> HIDE DEF CacheInv, TypeOK
        <4>4. tris[n][t] \in Nat
          BY <4>2, HeldAssumption
        <4> QED
          BY <4>1, <4>2, <4>3, <4>4
      <3>2. place'[t] = place[t] + tris[n][t] * by
        BY <1>4, <3>1 DEF Transform
      <3>3. tris[n][t] # 0
        BY <1>4, <2>4, <3>1, <3>2
      <3> QED
        BY <3>1, <3>3 DEF Held
    <2> QED
      BY <2>1, <2>2, <2>4, <2>5 DEF Shares
  <1>5. ASSUME NEW n \in Meshes, NEW p \in Places, MoveTo(n, p)
        PROVE  /\ n # m
               /\ Shares(m, n)
               /\ \E t \in Held(n) : place'[t] # place[t]
               /\ box'[n] = nil /\ tree'[n] = nil
    <2>1. BoxOf(n) \in Boxes
      BY <1>5, BoxOfType DEF MoveTo
    <2>2. BoxOf(n).min \in Places
      BY <2>1 DEF Boxes
    <2>3. p - BoxOf(n).min \in Int
      BY <2>2, PlacesApart
    <2> QED
      BY <1>4, <1>5, <2>3 DEF MoveTo
  <1>6. ASSUME NEW n \in Meshes, BoundingBox(n)
        PROVE  Fresh(m)'
    <2>1. CASE m = n
      <3>1. box'[m] = {Hull(Held(m))}
        BY <1>6, <2>1, BoxOfType DEF BoundingBox
      <3>2. Hull(Held(m))' = Hull(Held(m)) /\ TreeOf(Held(m))' = TreeOf(Held(m))
        BY <1>6, SamePlaces DEF BoundingBox
      <3> QED
        BY <1>6, <3>1, <3>2 DEF BoundingBox, Fresh
    <2>2. CASE m # n
      BY <1>6, <2>2, UntouchedFresh DEF BoundingBox
    <2> QED
      BY <2>1, <2>2
  <1>7. ASSUME NEW n \in Meshes, SceneAdd(n)
        PROVE  Fresh(m)'
    BY <1>7, UntouchedFresh DEF SceneAdd, meshVars
  <1>8. ASSUME Compile
        PROVE  Fresh(m)'
    <2>1. Hull(Held(m))' = Hull(Held(m)) /\ TreeOf(Held(m))' = TreeOf(Held(m))
      BY <1>8, SamePlaces DEF Compile
    <2>2. tree'[m] \in {tree[m], TreeOf(Held(m))}
      BY <1>8 DEF Compile
    <2>3. box'[m] = box[m] \/ box'[m] = {Hull(Held(m))}
      <3>1. CASE m \in shapes /\ sceneTree = nil
        BY <1>8, <3>1, BoxOfType DEF Compile, MadeOnly
      <3>2. CASE ~(m \in shapes /\ sceneTree = nil)
        BY <1>8, <3>2 DEF Compile
      <3> QED
        BY <3>1, <3>2
    <2> QED
      BY <2>1, <2>2, <2>3 DEF Fresh
  <1>9. ASSUME UNCHANGED vars
        PROVE  Fresh(m)'
    BY <1>9, UntouchedFresh DEF vars, meshVars, sceneVars
  <1>10. Shifts \subseteq Int
    BY PlacesApart DEF Shifts
  <1> QED
    BY <1>1, <1>2, <1>3, <1>4, <1>5, <1>6, <1>7, <1>8, <1>9, <1>10 DEF Next

\* A mesh never loses a triangle.
LEMMA HeldGrows ==
    ASSUME TypeOK, [Next]_vars, NEW m \in Meshes
    PROVE  Held(m) \subseteq Held(m)'
  <1> USE DEF TypeOK
  <1>1. ASSUME NEW n \in Meshes, NEW S \in SUBSET Triangles, NewMesh(n, S)
        PROVE  Held(m) \subseteq Held(m)'
    BY <1>1 DEF NewMesh, Made, Held
  <1>2. ASSUME NEW a \in Meshes, NEW n \in Meshes, Copy(a, n)
        PROVE  Held(m) \subseteq Held(m)'
    BY <1>2 DEF Copy, Made, Held
  <1>3. ASSUME NEW a \in Meshes, NEW b \in Meshes, Add(a, b)
        PROVE  Held(m) \subseteq Held(m)'
    BY <1>3 DEF Add, Held
  <1>4. CASE UNCHANGED tris
    BY <1>4 DEF Held
  <1> QED
    BY <1>1, <1>2, <1>3, <1>4
    DEF Next, Transform, MoveTo, BoundingBox, SceneAdd, Compile, meshVars, vars

\* The invariant holds.
THEOREM CacheInvariant == Spec => []CacheInv
  <1>1. CacheInv /\ [Next]_vars => CacheInv'
    <2> SUFFICES ASSUME CacheInv, [Next]_vars
                 PROVE  UnsharedFresh'
      BY TypeStep DEF CacheInv
    <2> SUFFICES ASSUME NEW m \in Meshes, Unshared(m)'
                 PROVE  Fresh(m)'
      BY DEF UnsharedFresh
    <2>1. \A n \in Meshes : Held(n) \subseteq Held(n)'
      BY HeldGrows DEF CacheInv
    <2>2. \A n \in Meshes \ {m} : ~Shares(m, n)
      BY <2>1 DEF Unshared, Shares
    <2>3. Fresh(m)
      BY <2>2 DEF CacheInv, UnsharedFresh, Unshared
    <2> QED
      BY <2>2, <2>3, StaleStep
  <1> QED
    BY CacheInit, <1>1, PTL DEF Spec

\* Every variable keeps its type, for any meshes, triangles and places.
THEOREM SceneCacheTypeCorrect == Spec => []TypeOK
  BY CacheInvariant, PTL DEF CacheInv

\* A mesh with triangles of its own is never traced where it was.
THEOREM UnsharedFreshInvariant == Spec => []UnsharedFresh
  BY CacheInvariant, PTL DEF CacheInv

\* Sharing triangles with a mesh that is moved is the only way to go stale.
THEOREM StaleOnlyByAliasingHolds == Spec => StaleOnlyByAliasing
  <1>1. CacheInv /\ [Next]_vars =>
          [\A m \in Meshes :
              Fresh(m) /\ ~Fresh(m)' =>
                  \E n \in Meshes \ {m} :
                      /\ Shares(m, n)
                      /\ \E t \in Held(n) : place'[t] # place[t]
                      /\ box'[n] = nil /\ tree'[n] = nil]_vars
    BY StaleStep
  <1> QED
    BY <1>1, CacheInvariant, PTL DEF Spec, StaleOnlyByAliasing

\* MoveTo of a mesh that is not stale and holds no triangle twice puts its
\* corner where it was told.
THEOREM MoveToLandsHolds == Spec => MoveToLands
  <1>1. ASSUME CacheInv, NEW m \in Meshes, NEW p \in Places,
               MoveTo(m, p), Fresh(m), tris[m] = Once(Held(m))
        PROVE  First(Held(m))' = p
    <2> USE DEF CacheInv, TypeOK
    <2> DEFINE S == Held(m)
    <2>1. S \in SUBSET Triangles /\ S # {}
      BY <1>1 DEF MoveTo, Made, Held
    <2>2. BoxOf(m) = Hull(S)
      BY <1>1, BoxOfType DEF MoveTo
    <2> DEFINE a == First(S)
    <2>3. a \in {place[t] : t \in S} /\ \A t \in S : a <= place[t]
      BY <1>1, <2>1, HullEnds
    <2>4. PICK s \in S : a = place[s]
      BY <2>3
    <2>5. a \in Int /\ p \in Int /\ \A t \in S : place[t] \in Int
      <3>1. \A t \in S : place[t] \in Places
        BY <1>1, <2>1
      <3>2. Places \subseteq Int
        BY PlacesAssumption
      <3> QED
        BY <2>4, <3>1, <3>2
    <2>6. \A t \in S : tris[m][t] = 1
      BY <1>1, <2>1 DEF Once
    <2>7. \A t \in S : place'[t] = place[t] + (p - a)
      <3>1. Transform(m, p - a)
        BY <1>1, <2>2 DEF MoveTo, Hull
      <3>2. \A t \in S : place'[t] = place[t] + tris[m][t] * (p - a)
        BY <2>1, <3>1 DEF Transform
      <3>3. 1 * (p - a) = p - a
        BY <2>5
      <3> QED
        BY <2>6, <3>2, <3>3
    <2>8. S' = S
      BY <1>1 DEF MoveTo, Transform, Held
    <2>9. place'[s] = p
      BY <2>4, <2>5, <2>7
    <2>10. \A t \in S : p <= place'[t]
      BY <2>3, <2>5, <2>7
    <2>11. p \in {place'[t] : t \in S}
      BY <2>4, <2>9
    <2>12. \A q \in {place'[t] : t \in S} :
             (\A t \in S : q <= place'[t]) => q = p
      <3> SUFFICES ASSUME NEW u \in S, \A t \in S : place'[u] <= place'[t]
                   PROVE  place'[u] = p
        OBVIOUS
      <3>1. place'[u] <= p /\ p <= place'[u]
        BY <2>9, <2>10
      <3>2. place'[u] \in Int
        BY <2>5, <2>7
      <3> QED
        BY <2>5, <3>1, <3>2
    <2> HIDE DEF S
    <2>13. First(S)' = p
      BY <2>8, <2>10, <2>11, <2>12 DEF First
    <2> QED
      BY <2>13 DEF S
  <1>2. CacheInv /\ [Next]_vars =>
          [\A m \in Meshes, p \in Places :
              MoveTo(m, p) /\ Fresh(m) /\ tris[m] = Once(Held(m)) =>
                  First(Held(m))' = p]_vars
    BY <1>1
  <1> QED
    BY <1>2, CacheInvariant, PTL DEF Spec, MoveToLands

\* The first Compile indexes every shape where it is; every Compile gives every
\* shape that is not stale a tree of where its triangles are.
THEOREM CompileIndexesHolds == Spec => CompileIndexes
  <1>1. ASSUME CacheInv, Compile, NEW m \in shapes, Fresh(m)
        PROVE  /\ tree'[m] = TreeOf(Held(m))
               /\ sceneTree = nil => <<m, Hull(Held(m))>> \in sceneTree'
    <2> USE DEF CacheInv, TypeOK
    <2>1. m \in Meshes /\ Made(m)
      BY <1>1 DEF MadeOnly
    <2>2. tree'[m] = IF tree[m] = nil THEN TreeOf(Held(m)) ELSE tree[m]
      BY <1>1, <2>1 DEF Compile
    <2>3. tree'[m] = TreeOf(Held(m))
      BY <1>1, <2>2 DEF Fresh
    <2>4. BoxOf(m) = Hull(Held(m))
      BY <1>1, <2>1, BoxOfType
    <2> QED
      BY <1>1, <2>3, <2>4 DEF Compile
  <1>2. CacheInv /\ [Next]_vars =>
          [Compile =>
             \A m \in shapes : Fresh(m) =>
                 /\ tree'[m] = TreeOf(Held(m))
                 /\ sceneTree = nil => <<m, Hull(Held(m))>> \in sceneTree']_vars
    BY <1>1
  <1> QED
    BY <1>2, CacheInvariant, PTL DEF Spec, CompileIndexes
=============================================================================
