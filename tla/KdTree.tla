-------------------------------- MODULE KdTree --------------------------------
(***************************************************************************)
(* The k-d tree over the shapes of a scene or a mesh, in Go (pt-go/tree.go, *)
(* box.go) and in turbo (turbo/src/turbo/tree.tts, box.tts), there over    *)
(* the triangles of a mesh.  Split builds it, Intersect finds what a ray   *)
(* hits first.                                                             *)
(*                                                                         *)
(* Coordinates are even integers and the components of a ray's direction   *)
(* are 1, -1, 0 or the negative zero of floating-point arithmetic, so every *)
(* quotient is an integer, an infinity or not a number.                    *)
(***************************************************************************)
EXTENDS Integers, FiniteSets

CONSTANTS
    TurboScenes, GoScenes,   \* the sets of shapes a tree is built for
    Origins, Directions

VARIABLE turbo   \* the code that runs is the turbo code, not the Go code

Axes == 1 .. 3
Components == {"-1", "-0", "0", "1"}
Sign(d) == IF d \in {"-1", "-0"} THEN -1 ELSE 1

\* Numbers: everything measured is smaller than INF, the T of a ray that hits
\* nothing (common.go); Infinity and NaN are those of the processor.
INF == 900
Infinity == 1000
NaN == 1001
NoHit == IF turbo THEN Infinity ELSE INF

ASSUME KdTreeAssumption ==
    /\ Directions \subseteq [Axes -> Components]
    /\ \A o \in Origins, a \in Axes : o[a] \in -99 .. 99
    /\ \A scene \in TurboScenes : \A s \in scene : s.kind = "triangle"
    /\ \A scene \in TurboScenes \cup GoScenes : \A s \in scene :
          /\ s.kind \in {"triangle", "cube"}
          /\ \A a \in Axes : s.min[a] <= s.max[a]
          /\ \A a \in Axes : {s.min[a], s.max[a]} \subseteq {2 * k : k \in -49 .. 49}

\* Comparisons with NaN are false.
Less(x, y) == NaN \notin {x, y} /\ x < y
AtMost(x, y) == NaN \notin {x, y} /\ x <= y

Over(n, d) ==
    CASE d \in {"1", "-1"}  -> n * Sign(d)
      [] n = 0              -> NaN
      [] n * Sign(d) > 0    -> Infinity
      [] OTHER              -> -Infinity

\* math.Max: in Go +Inf wins over NaN, in JavaScript NaN does.  Likewise Min.
MathMax(x, y) ==
    CASE ~turbo /\ Infinity \in {x, y} -> Infinity
      [] NaN \in {x, y}                -> NaN
      [] OTHER                         -> IF x > y THEN x ELSE y

MathMin(x, y) ==
    CASE ~turbo /\ -Infinity \in {x, y} -> -Infinity
      [] NaN \in {x, y}                 -> NaN
      [] OTHER                          -> IF x < y THEN x ELSE y

-----------------------------------------------------------------------------
(***************************************************************************)
(* Shapes and boxes.                                                       *)
(***************************************************************************)
\* Where the ray crosses the plane at a coordinate of an axis.
Crossing(point, axis, ray) == Over(point - ray.origin[axis], ray.direction[axis])

BoxIntersect(box, ray) ==
    LET t1 == [a \in Axes |-> Crossing(box.min[a], a, ray)]
        t2 == [a \in Axes |-> Crossing(box.max[a], a, ray)]
        near == [a \in Axes |-> IF Less(t2[a], t1[a]) THEN t2[a] ELSE t1[a]]
        far  == [a \in Axes |-> IF Less(t2[a], t1[a]) THEN t1[a] ELSE t2[a]]
    IN  [tmin |-> MathMax(MathMax(near[1], near[2]), near[3]),
         tmax |-> MathMin(MathMin(far[1], far[2]), far[3])]

CubeIntersect(cube, ray) ==
    LET n == [a \in Axes |-> Crossing(cube.min[a], a, ray)]
        f == [a \in Axes |-> Crossing(cube.max[a], a, ray)]
        t0 == LET m == [a \in Axes |-> MathMin(n[a], f[a])]
              IN  MathMax(MathMax(m[1], m[2]), m[3])
        t1 == LET m == [a \in Axes |-> MathMax(n[a], f[a])]
              IN  MathMin(MathMin(m[1], m[2]), m[3])
    IN  IF Less(0, t0) /\ Less(t0, t1) THEN t0 ELSE NoHit

\* A right triangle in a plane of the grid, its right angle at the corner min
\* of its box: u and v are measured along the two sides.
TriangleIntersect(triangle, ray) ==
    LET size == [a \in Axes |-> triangle.max[a] - triangle.min[a]]
        flat == {a \in Axes : size[a] = 0}
        n == CHOOSE a \in flat : TRUE
        d == Crossing(triangle.min[n], n, ray)
        at == [a \in Axes |-> ray.origin[a] - triangle.min[a]
                  + (IF ray.direction[a] \in {"1", "-1"}
                     THEN d * Sign(ray.direction[a]) ELSE 0)]
        u == CHOOSE a \in Axes : a # n
        v == CHOOSE a \in Axes : a \notin {n, u}
    IN  IF /\ Cardinality(flat) = 1
           /\ ray.direction[n] \in {"1", "-1"}
           /\ at[u] >= 0 /\ at[v] >= 0
           /\ at[u] * size[v] + at[v] * size[u] <= size[u] * size[v]
           /\ d > 0
        THEN d
        ELSE NoHit

ShapeIntersect(shape, ray) ==
    IF shape.kind = "cube" THEN CubeIntersect(shape, ray)
                           ELSE TriangleIntersect(shape, ray)

\* Turbo starts from a box that holds only the origin.
BoxForShapes(shapes) ==
    LET Coordinates(a) == {s.min[a] : s \in shapes} \cup {s.max[a] : s \in shapes}
                             \cup (IF turbo \/ shapes = {} THEN {0} ELSE {})
        Least(S) == CHOOSE x \in S : \A y \in S : x <= y
        Greatest(S) == CHOOSE x \in S : \A y \in S : x >= y
    IN  [min |-> [a \in Axes |-> Least(Coordinates(a))],
         max |-> [a \in Axes |-> Greatest(Coordinates(a))]]

-----------------------------------------------------------------------------
(***************************************************************************)
(* Building: Split.  A node is a leaf, axis 0 (AxisNone), or has children. *)
(***************************************************************************)
Leaf(shapes) == [axis |-> 0, shapes |-> shapes]

\* Mutant: a shape that begins at the plane is not on its left.
LeftOfOpen(shapes, axis, point) == {s \in shapes : s.min[axis] < point}
LeftOf(shapes, axis, point) == {s \in shapes : s.min[axis] <= point}

RightOf(shapes, axis, point) == {s \in shapes : s.max[axis] >= point}

PartitionScore(shapes, axis, point) ==
    LET left == Cardinality(LeftOf(shapes, axis, point))
        right == Cardinality(RightOf(shapes, axis, point))
    IN  IF left >= right THEN left ELSE right

\* Median of the two coordinates of every shape, the mean of the middle two.
Median(shapes, axis) ==
    LET Ends == {<<s, s.min, 1>> : s \in shapes} \cup {<<s, s.max, 2>> : s \in shapes}
        Nth(k) == CHOOSE x \in {e[2][axis] : e \in Ends} :
                     /\ Cardinality({e \in Ends : e[2][axis] < x}) < k
                     /\ k <= Cardinality({e \in Ends : e[2][axis] <= x})
        n == Cardinality(shapes)
    IN  (Nth(n) + Nth(n + 1)) \div 2

\* 85% of the shapes: Go truncates, turbo rounds.
Best(n) == IF turbo THEN (85 * n + 50) \div 100 ELSE (85 * n) \div 100

RECURSIVE Split(_)
Split(shapes) ==
    LET n == Cardinality(shapes)
        point == [a \in Axes |-> Median(shapes, a)]
        score == [a \in Axes |-> PartitionScore(shapes, a, point[a])]
        good == {a \in Axes : score[a] < Best(n)}
        axis == CHOOSE a \in good : \A b \in good :
                   score[a] < score[b] \/ (score[a] = score[b] /\ a <= b)
    IN  IF n < 8 \/ good = {} THEN Leaf(shapes)
        ELSE [axis |-> axis, point |-> point[axis],
              left |-> Split(LeftOf(shapes, axis, point[axis])),
              right |-> Split(RightOf(shapes, axis, point[axis]))]

NewTree(shapes) == [box |-> BoxForShapes(shapes), root |-> Split(shapes)]

-----------------------------------------------------------------------------
(***************************************************************************)
(* Finding the first hit: its T.                                           *)
(***************************************************************************)
IntersectShapes(shapes, ray) ==
    LET hits == {ShapeIntersect(s, ray) : s \in shapes} \cup {NoHit}
    IN  CHOOSE t \in hits : \A u \in hits : t <= u

LeftFirst(node, ray) ==
    LET o == ray.origin[node.axis] IN
    o < node.point \/ (o = node.point /\ ray.direction[node.axis] # "1")

\* Mutant: the first child's hit is returned wherever it is.
AcceptsAny(h1, tsplit) == h1 # NoHit
Accepts(h1, tsplit) == AtMost(h1, tsplit)

RECURSIVE NodeIntersect(_, _, _, _)
NodeIntersect(node, ray, tmin, tmax) ==
    IF node.axis = 0 THEN IntersectShapes(node.shapes, ray)
    ELSE LET tsplit == Crossing(node.point, node.axis, ray)
             first  == IF LeftFirst(node, ray) THEN node.left ELSE node.right
             second == IF LeftFirst(node, ray) THEN node.right ELSE node.left
         IN  IF Less(tmax, tsplit) \/ AtMost(tsplit, 0)
             THEN NodeIntersect(first, ray, tmin, tmax)
             ELSE IF Less(tsplit, tmin)
             THEN NodeIntersect(second, ray, tmin, tmax)
             ELSE LET h1 == NodeIntersect(first, ray, tmin, tsplit) IN
                  IF Accepts(h1, tsplit) THEN h1
                  ELSE LET h2 == NodeIntersect(second, ray, tsplit, MathMin(tmax, h1))
                       IN  IF h1 <= h2 THEN h1 ELSE h2

TreeIntersect(tree, ray) ==
    LET t == BoxIntersect(tree.box, ray) IN
    IF Less(t.tmax, t.tmin) \/ AtMost(t.tmax, 0) THEN NoHit
    ELSE NodeIntersect(tree.root, ray, t.tmin, t.tmax)

-----------------------------------------------------------------------------
(***************************************************************************)
(* A tree is built once; every ray after that meets the same tree.         *)
(***************************************************************************)
VARIABLES shapes, tree, ray, hit

vars == <<turbo, shapes, tree, ray, hit>>
None == [axis |-> -1]

Init ==
    /\ turbo \in BOOLEAN
    /\ shapes \in IF turbo THEN TurboScenes ELSE GoScenes
    /\ tree = None
    /\ ray = None
    /\ hit = NoHit

Compile ==
    /\ tree = None
    /\ tree' = NewTree(shapes)
    /\ UNCHANGED <<turbo, shapes, ray, hit>>

Intersect ==
    /\ tree # None
    /\ ray = None
    /\ \E o \in Origins, d \in Directions :
          /\ ray' = [origin |-> o, direction |-> d]
          /\ hit' = TreeIntersect(tree, ray')
    /\ UNCHANGED <<turbo, shapes, tree>>

Next == Compile \/ Intersect

Spec == Init /\ [][Next]_vars

-----------------------------------------------------------------------------
\* Every leaf holds exactly those shapes whose box reaches the leaf's cell, the
\* shapes in a splitting plane included: a ray inside the cell needs no other.
RECURSIVE LeavesHold(_, _, _)
LeavesHold(node, low, high) ==
    IF node.axis = 0
    THEN node.shapes = {s \in shapes : \A a \in Axes : low[a] <= s.max[a] /\ s.min[a] <= high[a]}
    ELSE /\ LeavesHold(node.left, low, [high EXCEPT ![node.axis] = node.point])
         /\ LeavesHold(node.right, [low EXCEPT ![node.axis] = node.point], high)

LeavesComplete ==
    tree # None =>
        LeavesHold(tree.root, [a \in Axes |-> -Infinity], [a \in Axes |-> Infinity])

\* A ray that runs in a face of the tree's box, with a negative zero for the
\* component across it.  One of the two quotients is NaN, so they are not
\* exchanged, and the infinite one stays in the wrong place: tmax is -Inf in
\* the first face, tmin is +Inf in the last.
InFace ==
    \E a \in Axes : /\ ray.direction[a] = "-0"
                    /\ ray.origin[a] \in {tree.box.min[a], tree.box.max[a]}

\* The tree finds the hit that trying every shape finds, wherever the splitting
\* planes are and whatever the traversal leaves out, except for such a ray.
NearestHit == ray # None => (hit = IntersectShapes(shapes, ray) \/ InFace)

=============================================================================
