-------------------------- MODULE EmbreeScene_proofs --------------------------
(* The invariant of a scene, for every number of meshes and contents and every *)
(* width of the counters: Spec => []SceneInv.  What rays see is right after a   *)
(* commit because every hierarchy below the tree is that of its mesh unless     *)
(* the mesh is marked as modified, and because a static scene that is built     *)
(* cannot be changed.                                                           *)
(* Source: src/embree/kernels/common/{scene,geometry,buffer}.cpp.               *)
EXTENDS EmbreeScene, FiniteSetTheorems, SequenceTheorems, TLAPS

\* No ID is free twice.
UsedDistinct == \A j, k \in DOMAIN usedIDs : usedIDs[j] = usedIDs[k] => j = k

\* Rays see enabled meshes as they were written last.
TreeFresh == \A r \in tree : r.id \in Enabled /\ r.content = geometries[r.id].content

\* The hierarchy of a mesh that is not marked is that of its content, or there is none.
ObjectsKept == \A i \in Live : ~geometries[i].modified =>
    objects[i] \in {geometries[i].content, Empty, Nullptr}

\* And there is one, unless a failed commit has cleared it.
ObjectsThere == \A i \in Live \ missing :
    ~Static /\ ~geometries[i].modified => objects[i] = geometries[i].content

\* Rays see every mesh but those that are missing.
TreeWhole == \A i \in Enabled \ missing : [id |-> i, content |-> geometries[i].content] \in tree

\* A static scene has no hierarchies of its meshes, and what is built of it stays right.
StaticKept == /\ Static => \A i \in Ids : objects[i] = Nullptr
              /\ immutable => Static /\ is_build /\ TreeFresh /\ TreeWhole

SceneIndInv == SceneInv /\ UsedDistinct /\ ObjectsKept /\ ObjectsThere /\ StaticKept

Filtered == {i \in Enabled : geometries[i].filter}
Mapped == {i \in Live : geometries[i].mapped}
FreeIDs == {usedIDs[k] : k \in DOMAIN usedIDs}
One(b) == IF b THEN 1 ELSE 0

------------------------------------------------------------------------------
\* Counting

\* Two sets that differ in one element at most differ by one at most.
LEMMA CountChange ==
    ASSUME NEW S, NEW T, NEW i, IsFiniteSet(S), S \ {i} = T \ {i}
    PROVE  /\ IsFiniteSet(T) /\ Cardinality(S) \in Nat /\ Cardinality(T) \in Nat
           /\ Cardinality(T) = Cardinality(S) + One(i \in T) - One(i \in S)
  <1> DEFINE R == S \ {i}
  <1>1. IsFiniteSet(R) /\ Cardinality(R) = Cardinality(S) - One(i \in S) /\ Cardinality(S) \in Nat
    BY FS_RemoveElement, FS_CardinalityType DEF One
  <1>2. Cardinality(R) \in Nat
    BY <1>1, FS_CardinalityType
  <1>3. IsFiniteSet(R \cup {i}) /\ Cardinality(R \cup {i}) = Cardinality(R) + 1
    BY <1>1, FS_AddElement
  <1>4. CASE i \in T
    <2>1. T = R \cup {i}
      BY <1>4
    <2> HIDE DEF R
    <2> QED
      BY <1>1, <1>2, <1>3, <1>4, <2>1 DEF One
  <1>5. CASE i \notin T
    <2>1. T = R
      BY <1>5
    <2> HIDE DEF R
    <2> QED
      BY <1>1, <1>2, <1>5, <2>1 DEF One
  <1> QED
    BY <1>4, <1>5

\* A number is its quotient's multiple and its remainder.
LEMMA Remainder ==
    ASSUME NEW w \in Nat \ {0}, NEW n \in Int
    PROVE  n \div w \in Int /\ n % w \in 0 .. w - 1 /\ n = w * (n \div w) + (n % w)
  OBVIOUS

\* There is but one remainder.
LEMMA RemainderUnique ==
    ASSUME NEW w \in Nat \ {0}, NEW p \in Int, NEW q \in Int,
           NEW r \in 0 .. w - 1, NEW s \in 0 .. w - 1, w * p + r = w * q + s
    PROVE  r = s
  <1>1. w * (p - q) = s - r
    OBVIOUS
  <1>2. CASE p - q >= 1
    <2>1. w * (p - q) >= w
      BY <1>2
    <2> QED
      BY <1>1, <2>1
  <1>3. CASE p - q <= -1
    <2>1. w * (p - q) <= -w
      BY <1>3
    <2> QED
      BY <1>1, <2>1
  <1>4. CASE p = q
    BY <1>1, <1>4
  <1> QED
    BY <1>2, <1>3, <1>4

\* A counter may be reduced to a word before more is added or after.
LEMMA CountSum ==
    ASSUME NEW a \in Int, NEW b \in Int
    PROVE  Count(Count(a) + b) = Count(a + b) /\ Count(a) \in 0 .. WORD - 1
  <1>1. WORD \in Nat \ {0}
    BY SceneAssumption
  <1>2. PICK p \in Int, r \in 0 .. WORD - 1 : a = WORD * p + r /\ r = a % WORD
    BY <1>1, Remainder
  <1>3. r + b \in Int /\ a + b \in Int
    BY <1>1
  <1>4. PICK q \in Int, s \in 0 .. WORD - 1 : r + b = WORD * q + s /\ s = (r + b) % WORD
    BY <1>1, <1>3, Remainder
  <1>5. PICK m \in Int, t \in 0 .. WORD - 1 : a + b = WORD * m + t /\ t = (a + b) % WORD
    BY <1>1, <1>3, Remainder
  <1>6. WORD * (p + q) + s = WORD * m + t /\ p + q \in Int
    BY <1>1, <1>2, <1>4, <1>5
  <1>7. s = t
    BY <1>1, <1>6, RemainderUnique
  <1> QED
    BY <1>2, <1>4, <1>5, <1>7 DEF Count

\* A word holds a number that is smaller.
LEMMA CountSmall == ASSUME NEW n \in 0 .. WORD - 1 PROVE Count(n) = n
  <1>1. WORD \in Nat \ {0}
    BY SceneAssumption
  <1>2. /\ n \div WORD \in Int /\ n % WORD \in 0 .. WORD - 1
        /\ n = WORD * (n \div WORD) + (n % WORD)
    BY <1>1, Remainder
  <1>3. WORD * (n \div WORD) + (n % WORD) = WORD * 0 + n
    BY <1>1, <1>2
  <1> QED
    BY <1>1, <1>2, <1>3, RemainderUnique DEF Count

------------------------------------------------------------------------------
\* The meshes

\* There are finitely many IDs.
LEMMA IdSets ==
    ASSUME NEW S \in SUBSET Ids
    PROVE  IsFiniteSet(S) /\ Cardinality(S) \in 0 .. MaxGeometries
  <1>1. MaxGeometries \in Nat
    BY SceneAssumption
  <1>2. IsFiniteSet(Ids) /\ Cardinality(Ids) = MaxGeometries
    BY <1>1, FS_Interval DEF Ids
  <1>3. IsFiniteSet(S) /\ Cardinality(S) <= MaxGeometries
    BY <1>2, FS_Subset
  <1> QED
    BY <1>1, <1>3, FS_CardinalityType

\* The IDs of meshes are IDs.
LEMMA Meshes ==
    ASSUME TypeOK
    PROVE  /\ Len(geometries) \in 0 .. MaxGeometries /\ DOMAIN geometries = 1 .. Len(geometries)
           /\ DOMAIN geometries \subseteq Ids /\ Live \subseteq DOMAIN geometries
           /\ Enabled \subseteq Live /\ Filtered \subseteq Enabled /\ Mapped \subseteq Live
           /\ \A i \in Live : geometries[i] \in Geometry
  <1>1. /\ geometries \in Seq(Geometry \union {Nullptr})
        /\ Len(geometries) <= MaxGeometries /\ MaxGeometries \in Nat
    BY SceneAssumption DEF TypeOK
  <1>2. /\ Len(geometries) \in 0 .. MaxGeometries /\ DOMAIN geometries = 1 .. Len(geometries)
        /\ DOMAIN geometries \subseteq Ids
    BY <1>1 DEF Ids
  <1>3. /\ Live \subseteq DOMAIN geometries /\ Enabled \subseteq Live
        /\ Filtered \subseteq Enabled /\ Mapped \subseteq Live
    BY DEF Live, Enabled, Filtered, Mapped
  <1>4. \A i \in Live : geometries[i] \in Geometry
    BY <1>1, <1>2 DEF Live
  <1> QED
    BY <1>1, <1>2, <1>3, <1>4

\* The meshes that the scene counts, which are no more than the IDs.
LEMMA Counted ==
    ASSUME Enabled \subseteq Ids, Live \subseteq Ids
    PROVE  /\ IsFiniteSet(Enabled) /\ IsFiniteSet(Filtered) /\ IsFiniteSet(Mapped)
           /\ Cardinality(Enabled) \in 0 .. MaxGeometries
           /\ Cardinality(Filtered) \in 0 .. MaxGeometries
           /\ Cardinality(Mapped) \in Nat
  <1>1. Enabled \in SUBSET Ids /\ Filtered \in SUBSET Ids /\ Mapped \in SUBSET Ids
    BY DEF Filtered, Mapped
  <1> QED
    BY <1>1, IdSets

\* A step changes no mesh but one, which may come or go.
Apart(i) == /\ Live' \ {i} = Live \ {i}
            /\ \A k \in Live \ {i} : geometries'[k] = geometries[k]

LEMMA ChangeCounts ==
    ASSUME TypeOK, NEW i, Apart(i)
    PROVE  /\ Cardinality(Enabled)' = Cardinality(Enabled) + One(i \in Enabled') - One(i \in Enabled)
           /\ Cardinality(Filtered)' =
                  Cardinality(Filtered) + One(i \in Filtered') - One(i \in Filtered)
           /\ Cardinality(Mapped)' = Cardinality(Mapped) + One(i \in Mapped') - One(i \in Mapped)
  <1>1. Enabled \ {i} = Enabled' \ {i}
    BY DEF Apart, Enabled
  <1>2. Filtered \ {i} = Filtered' \ {i}
    BY <1>1 DEF Apart, Filtered, Enabled
  <1>3. Mapped \ {i} = Mapped' \ {i}
    BY DEF Apart, Mapped
  <1>4. IsFiniteSet(Enabled) /\ IsFiniteSet(Filtered) /\ IsFiniteSet(Mapped)
    BY Meshes, Counted
  <1>5. Cardinality(Enabled') = Cardinality(Enabled) + One(i \in Enabled') - One(i \in Enabled)
    BY <1>1, <1>4, CountChange
  <1>6. Cardinality(Filtered') = Cardinality(Filtered) + One(i \in Filtered') - One(i \in Filtered)
    BY <1>2, <1>4, CountChange
  <1>7. Cardinality(Mapped') = Cardinality(Mapped) + One(i \in Mapped') - One(i \in Mapped)
    BY <1>3, <1>4, CountChange
  <1> QED
    BY <1>5, <1>6, <1>7

\* The counters follow the meshes.
LEMMA CountersFollow ==
    ASSUME TypeOK, PrimitivesCounted, FiltersCounted, MappedCounted, NEW i, Apart(i),
           numPrimitives' = numPrimitives + One(i \in Enabled') - One(i \in Enabled),
           NEW x \in Int, NEW y \in Int,
           numIntersectionFilters' = Count(numIntersectionFilters + x), drift' = Count(drift + y),
           x - y = One(i \in Filtered') - One(i \in Filtered),
           numMappedBuffers' + lost =
               numMappedBuffers + lost' + One(i \in Mapped') - One(i \in Mapped),
           lost' \in Nat, numMappedBuffers' \in Int
    PROVE  /\ PrimitivesCounted' /\ FiltersCounted' /\ MappedCounted'
           /\ numIntersectionFilters' \in 0 .. WORD - 1 /\ drift' \in 0 .. WORD - 1
  <1> DEFINE c == Cardinality(Filtered)
             d == Cardinality(Filtered)'
  <1>1. /\ d = c + One(i \in Filtered') - One(i \in Filtered)
        /\ c \in Int /\ d \in Int /\ drift \in Int /\ numIntersectionFilters \in Int
    <2>1. c \in Nat
      BY Meshes, Counted
    <2>2. d = c + One(i \in Filtered') - One(i \in Filtered)
      BY ChangeCounts
    <2>3. drift \in Int /\ numIntersectionFilters \in Int
      BY SceneAssumption DEF TypeOK
    <2> QED
      BY <2>1, <2>2, <2>3 DEF One
  <1>2. PrimitivesCounted'
    BY ChangeCounts DEF PrimitivesCounted
  <1>3. MappedCounted'
    <2>1. Cardinality(Mapped) \in Nat /\ lost \in Nat /\ numMappedBuffers = Cardinality(Mapped) + lost
      BY Meshes, Counted DEF TypeOK, MappedCounted, Mapped
    <2>2. Cardinality(Mapped)' = Cardinality(Mapped) + One(i \in Mapped') - One(i \in Mapped)
      BY ChangeCounts
    <2>3. numMappedBuffers' = Cardinality(Mapped)' + lost'
      BY <2>1, <2>2 DEF One
    <2> QED
      BY <2>3 DEF MappedCounted, Mapped
  <1>4. numIntersectionFilters = Count(c + drift)
    BY DEF FiltersCounted, Filtered
  <1> HIDE DEF c, d
  <1>5. numIntersectionFilters' = Count(c + drift + x)
    BY <1>1, <1>4, CountSum
  <1>6. c + drift + x = (drift + y) + d
    BY <1>1 DEF One
  <1>7. Count(drift' + d) = Count((drift + y) + d)
    BY <1>1, CountSum
  <1>8. numIntersectionFilters' = Count(d + drift')
    <2>1. drift + y \in Int
      BY <1>1
    <2>2. drift' \in Int
      BY <2>1, CountSum
    <2>3. drift' + d = d + drift'
      BY <1>1, <2>2
    <2> QED
      BY <1>5, <1>6, <1>7, <2>3
  <1>9. FiltersCounted'
    BY <1>8 DEF FiltersCounted, Filtered, d
  <1>10. numIntersectionFilters + x \in Int /\ drift + y \in Int
    BY <1>1
  <1> QED
    BY <1>2, <1>3, <1>9, <1>10, CountSum

\* What the builders have left is left alone, and the list of meshes keeps its places.
LEMMA ChangeStep ==
    ASSUME SceneIndInv, NEW i \in Live, NEW g \in Geometry, ~Frozen,
           geometries' = [geometries EXCEPT ![i] = g],
           UNCHANGED <<usedIDs, treeVars, is_build, lost, Static>>,
           numPrimitives' = numPrimitives + One(IsEnabled(g)) - One(i \in Enabled),
           NEW x \in Int, NEW y \in Int,
           numIntersectionFilters' = Count(numIntersectionFilters + x), drift' = Count(drift + y),
           x - y = One(IsEnabled(g) /\ g.filter) - One(i \in Filtered),
           numMappedBuffers' = numMappedBuffers + One(g.mapped) - One(i \in Mapped),
           \/ modified'
           \/ /\ ~modified' /\ modified' = modified
              /\ IsEnabled(g) <=> i \in Enabled
              /\ g.content = geometries[i].content /\ missing' = missing
              /\ \/ refiltered'
                 \/ ~refiltered' /\ refiltered' = refiltered /\ drift' = drift
                    /\ g.filter = geometries[i].filter,
           ~g.modified => /\ ~geometries[i].modified /\ g.content = geometries[i].content
                          /\ missing' = missing,
           missing' = missing \/ missing' = missing \ {i},
           contents' \in Contents, modified' \in BOOLEAN, refiltered' \in BOOLEAN
    PROVE  SceneIndInv'
  <1>1. TypeOK /\ SceneInv /\ UsedDistinct /\ ObjectsKept /\ ObjectsThere /\ StaticKept
    BY DEF SceneIndInv, SceneInv
  <1>2. /\ i \in DOMAIN geometries /\ i \in Ids /\ Nullptr \notin Geometry
        /\ geometries \in Seq(Geometry \union {Nullptr})
    BY <1>1, Meshes, SceneAssumption DEF TypeOK
  <1>3. /\ DOMAIN geometries' = DOMAIN geometries /\ Len(geometries') = Len(geometries)
        /\ geometries' \in Seq(Geometry \union {Nullptr})
        /\ geometries'[i] = g /\ \A k \in DOMAIN geometries \ {i} : geometries'[k] = geometries[k]
    BY <1>2
  <1>4. Live' = Live
    BY <1>2, <1>3 DEF Live
  <1>5. Apart(i)
    BY <1>1, <1>3, <1>4, Meshes DEF Apart
  <1>6. /\ i \in Enabled' <=> IsEnabled(g)
        /\ i \in Filtered' <=> IsEnabled(g) /\ g.filter
        /\ i \in Mapped' <=> g.mapped
    BY <1>3, <1>4 DEF Enabled, Filtered, Mapped
  <1>7. /\ PrimitivesCounted' /\ FiltersCounted' /\ MappedCounted'
        /\ numIntersectionFilters' \in 0 .. WORD - 1 /\ drift' \in 0 .. WORD - 1
    <2>1. /\ numPrimitives' = numPrimitives + One(i \in Enabled') - One(i \in Enabled)
          /\ x - y = One(i \in Filtered') - One(i \in Filtered)
      BY <1>6 DEF One
    <2>2. numMappedBuffers \in Nat /\ lost \in Nat /\ lost' = lost
      BY <1>1 DEF TypeOK
    <2>3. numMappedBuffers' + lost =
              numMappedBuffers + lost' + One(i \in Mapped') - One(i \in Mapped)
      BY <1>6, <2>2 DEF One
    <2> QED
      BY <1>1, <1>5, <2>1, <2>2, <2>3, CountersFollow DEF SceneInv
  <1>8. TypeOK'
    <2>1. numPrimitives' \in 0 .. MaxGeometries /\ numMappedBuffers' \in Nat
      <3>1. Cardinality(Enabled)' \in 0 .. MaxGeometries /\ Cardinality(Mapped)' \in Nat
        <4>1. Enabled' \in SUBSET Ids /\ Mapped' \in SUBSET Ids
          BY <1>1, <1>4, Meshes DEF Enabled, Mapped
        <4> QED
          BY <4>1, IdSets
      <3>2. lost' \in Nat
        BY <1>1 DEF TypeOK
      <3> QED
        BY <1>7, <3>1, <3>2 DEF PrimitivesCounted, MappedCounted, Mapped
    <2> QED
      BY <1>1, <1>3, <1>7, <2>1 DEF TypeOK, treeVars
  <1>9. NothingStale' /\ TreeComplete'
    <2>1. CASE modified'
      BY <2>1 DEF NothingStale, TreeComplete
    <2>2. CASE ~modified'
      <3>1. Enabled' = Enabled
        BY <1>4, <1>5, <1>6, <2>2 DEF Apart, Enabled
      <3>2. \A k \in Enabled : geometries'[k].content = geometries[k].content
        BY <1>1, <1>3, <2>2, Meshes
      <3> QED
        BY <1>1, <2>2, <3>1, <3>2 DEF SceneInv, NothingStale, TreeComplete, treeVars
    <2> QED
      BY <2>1, <2>2
  <1>10. DeletedProperly' /\ UsedDistinct'
    BY <1>1, <1>3, <1>4 DEF SceneInv, DeletedProperly, UsedDistinct, treeVars
  <1>11. FiltersSelected'
    <2>1. CASE modified' \/ refiltered'
      BY <2>1 DEF FiltersSelected
    <2>2. CASE ~modified' /\ ~refiltered'
      <3>1. Enabled' = Enabled
        BY <1>4, <1>5, <1>6, <2>2 DEF Apart, Enabled
      <3>2. \A k \in Enabled : geometries'[k].filter = geometries[k].filter
        BY <1>1, <1>3, <2>2, Meshes
      <3>3. ~modified /\ ~refiltered /\ drift' = drift /\ filterPath' = filterPath
        BY <2>2 DEF treeVars
      <3> QED
        BY <1>1, <3>1, <3>2, <3>3 DEF SceneInv, FiltersSelected
    <2> QED
      BY <2>1, <2>2
  <1>12. ObjectsKept' /\ ObjectsThere'
    <2>1. ObjectsKept'
      BY <1>1, <1>3, <1>4, Meshes DEF ObjectsKept, treeVars
    <2>2. \A k \in Live \ missing' : ~geometries'[k].modified =>
              /\ k \notin missing /\ ~geometries[k].modified
              /\ geometries'[k].content = geometries[k].content
      BY <1>1, <1>3, Meshes
    <2>3. ObjectsThere'
      BY <1>1, <1>4, <2>2 DEF ObjectsThere, treeVars
    <2> QED
      BY <2>1, <2>3
  <1>13. StaticKept'
    BY <1>1 DEF StaticKept, treeVars, Frozen
  <1> QED
    BY <1>7, <1>8, <1>9, <1>10, <1>11, <1>12, <1>13 DEF SceneIndInv, SceneInv
------------------------------------------------------------------------------
\* The calls that change one mesh in its place

\* What a call finds.
LEMMA Found ==
    ASSUME SceneIndInv, NEW i \in Live
    PROVE  /\ i \in Ids /\ geometries[i] \in Geometry
           /\ i \in Enabled <=> IsEnabled(geometries[i])
           /\ i \in Filtered <=> IsEnabled(geometries[i]) /\ geometries[i].filter
           /\ i \in Mapped <=> geometries[i].mapped
           /\ numPrimitives \in Nat /\ numMappedBuffers \in Nat /\ contents \in Contents
           /\ drift \in Int /\ Count(drift + 0) = drift
           /\ numIntersectionFilters \in Int
           /\ Count(numIntersectionFilters + 0) = numIntersectionFilters
           /\ modified \in BOOLEAN /\ refiltered \in BOOLEAN
  <1>1. /\ i \in Ids /\ geometries[i] \in Geometry
        /\ i \in Enabled <=> IsEnabled(geometries[i])
        /\ i \in Filtered <=> IsEnabled(geometries[i]) /\ geometries[i].filter
        /\ i \in Mapped <=> geometries[i].mapped
    BY Meshes DEF SceneIndInv, SceneInv, Enabled, Filtered, Mapped
  <1>2. /\ numPrimitives \in 0 .. MaxGeometries /\ numMappedBuffers \in Nat /\ contents \in Contents
        /\ drift \in 0 .. WORD - 1 /\ numIntersectionFilters \in 0 .. WORD - 1
        /\ modified \in BOOLEAN /\ refiltered \in BOOLEAN
    BY DEF SceneIndInv, SceneInv, TypeOK
  <1>3. /\ numPrimitives \in Nat /\ drift \in Int /\ numIntersectionFilters \in Int
        /\ drift + 0 = drift /\ numIntersectionFilters + 0 = numIntersectionFilters
    BY <1>2, SceneAssumption
  <1> QED
    BY <1>1, <1>2, <1>3, CountSmall

LEMMA EnableStep ==
    ASSUME SceneIndInv, NEW i \in Ids, Enable(i), UNCHANGED Static PROVE SceneIndInv'
  <1> DEFINE old == geometries[i]
             g == [old EXCEPT !.enabled = TRUE]
             x == Filters(old)
             y == IF old.prims = 0 THEN Filters(old) ELSE 0
  <1>1. i \in Live /\ i \notin Enabled /\ ~Frozen
    BY DEF Enable
  <1>2. old \in Geometry /\ g \in Geometry
    BY <1>1, Found DEF Geometry
  <1>3. /\ g.filter = old.filter /\ g.mapped = old.mapped /\ g.content = old.content
        /\ g.modified = old.modified /\ (IsEnabled(g) <=> old.prims = 1)
        /\ old.prims \in {0, 1} /\ old.filter \in BOOLEAN
    BY <1>2 DEF Geometry, IsEnabled
  <1>4. geometries' = [geometries EXCEPT ![i] = g]
    BY <1>1, <1>2 DEF Enable
  <1>5. numPrimitives' = numPrimitives + One(IsEnabled(g)) - One(i \in Enabled)
    BY <1>1, <1>3, Found DEF Enable, Switch, One
  <1>6. x \in Int /\ y \in Int
    BY DEF Filters
  <1>7. numIntersectionFilters' = Count(numIntersectionFilters + x) /\ modified' = TRUE
    BY <1>6 DEF Enable, Switch
  <1>8. drift' = Count(drift + y)
    BY <1>1, Found DEF Enable
  <1>9. x - y = One(IsEnabled(g) /\ g.filter) - One(i \in Filtered)
    BY <1>1, <1>3, Found DEF Filters, One
  <1>10. numMappedBuffers' = numMappedBuffers + One(g.mapped) - One(i \in Mapped)
    BY <1>1, <1>3, Found DEF Enable, One
  <1>11. /\ UNCHANGED <<usedIDs, treeVars, is_build, lost, missing>>
         /\ contents' \in Contents /\ refiltered' \in BOOLEAN
    BY <1>1, Found DEF Enable
  <1> HIDE DEF g, x, y
  <1> QED
    BY <1>1, <1>2, <1>3, <1>4, <1>5, <1>6, <1>7, <1>8, <1>9, <1>10, <1>11, ChangeStep

LEMMA DisableStep ==
    ASSUME SceneIndInv, NEW i \in Ids, Disable(i), UNCHANGED Static PROVE SceneIndInv'
  <1> DEFINE old == geometries[i]
             g == [old EXCEPT !.enabled = FALSE]
             x == (-1) * Filters(old)
             y == 0
  <1>1. i \in Live /\ i \in Enabled /\ ~Frozen
    BY DEF Disable, Enabled
  <1>2. old \in Geometry /\ g \in Geometry
    BY <1>1, Found DEF Geometry
  <1>3. /\ g.filter = old.filter /\ g.mapped = old.mapped /\ g.content = old.content
        /\ g.modified = old.modified /\ ~IsEnabled(g)
        /\ old.prims = 1 /\ old.filter \in BOOLEAN
    BY <1>1, <1>2, Found DEF Geometry, IsEnabled
  <1>4. geometries' = [geometries EXCEPT ![i] = g]
    BY <1>1, <1>2 DEF Disable
  <1>5. numPrimitives' = numPrimitives + One(IsEnabled(g)) - One(i \in Enabled)
    BY <1>1, <1>3, Found DEF Disable, Switch, One
  <1>6. x \in Int /\ y \in Int
    BY DEF Filters
  <1>7. numIntersectionFilters' = Count(numIntersectionFilters + x) /\ modified' = TRUE
    BY <1>6 DEF Disable, Switch
  <1>8. drift' = Count(drift + y)
    BY <1>1, Found DEF Disable
  <1>9. x - y = One(IsEnabled(g) /\ g.filter) - One(i \in Filtered)
    BY <1>1, <1>3, Found DEF Filters, One
  <1>10. numMappedBuffers' = numMappedBuffers + One(g.mapped) - One(i \in Mapped)
    BY <1>1, <1>3, Found DEF Disable, One
  <1>11. /\ UNCHANGED <<usedIDs, treeVars, is_build, lost, missing>>
         /\ contents' \in Contents /\ refiltered' \in BOOLEAN
    BY <1>1, Found DEF Disable
  <1> HIDE DEF g, x, y
  <1> QED
    BY <1>1, <1>2, <1>3, <1>4, <1>5, <1>6, <1>7, <1>8, <1>9, <1>10, <1>11, ChangeStep

LEMMA UpdateStep ==
    ASSUME SceneIndInv, NEW i \in Ids, Update(i), UNCHANGED Static PROVE SceneIndInv'
  <1> DEFINE old == geometries[i]
             g == [old EXCEPT !.modified = TRUE, !.content = contents + 1]
             none == 0
  <1>1. i \in Live /\ ~Frozen /\ contents' \in Contents /\ contents + 1 \in Contents
    BY Found, SceneAssumption DEF Update, Contents
  <1>2. old \in Geometry /\ g \in Geometry
    BY <1>1, Found DEF Geometry
  <1>3. /\ g.filter = old.filter /\ g.mapped = old.mapped
        /\ g.modified /\ (IsEnabled(g) <=> IsEnabled(old))
    BY <1>2 DEF Geometry, IsEnabled
  <1>4. geometries' = [geometries EXCEPT ![i] = g]
    BY <1>1, <1>2 DEF Update
  <1>5. numPrimitives' = numPrimitives + One(IsEnabled(g)) - One(i \in Enabled)
    BY <1>1, <1>3, Found DEF Update, One
  <1>6. /\ numIntersectionFilters' = Count(numIntersectionFilters + none) /\ modified' = TRUE
        /\ drift' = Count(drift + none)
    BY <1>1, Found DEF Update
  <1>7. none \in Int /\ none - none = One(IsEnabled(g) /\ g.filter) - One(i \in Filtered)
    BY <1>1, <1>3, Found DEF One
  <1>8. numMappedBuffers' = numMappedBuffers + One(g.mapped) - One(i \in Mapped)
    BY <1>1, <1>3, Found DEF Update, One
  <1>9. /\ UNCHANGED <<usedIDs, treeVars, is_build, lost>> /\ refiltered' \in BOOLEAN
        /\ missing' = missing \ {i}
    BY <1>1, Found DEF Update
  <1> HIDE DEF g, none
  <1> QED
    BY <1>1, <1>2, <1>3, <1>4, <1>5, <1>6, <1>7, <1>8, <1>9, ChangeStep

LEMMA SetFilterStep ==
    ASSUME SceneIndInv, NEW i \in Ids, NEW f \in BOOLEAN, SetFilter(i, f), UNCHANGED Static
    PROVE  SceneIndInv'
  <1> DEFINE old == geometries[i]
             g == [old EXCEPT !.filter = f]
             x == One(f) - Filters(old)
             y == IF i \in Enabled THEN 0 ELSE x
  <1>1. i \in Live /\ ~Frozen /\ modified' = modified /\ refiltered' = TRUE
    BY DEF SetFilter
  <1>2. old \in Geometry /\ g \in Geometry
    BY <1>1, Found DEF Geometry
  <1>3. /\ g.filter = f /\ g.mapped = old.mapped /\ g.content = old.content
        /\ g.modified = old.modified /\ (IsEnabled(g) <=> IsEnabled(old)) /\ old.filter \in BOOLEAN
    BY <1>2 DEF Geometry, IsEnabled
  <1>4. geometries' = [geometries EXCEPT ![i] = g]
    BY <1>1, <1>2 DEF SetFilter
  <1>5. numPrimitives' = numPrimitives + One(IsEnabled(g)) - One(i \in Enabled)
    BY <1>1, <1>3, Found DEF SetFilter, One
  <1>6. x \in Int /\ y \in Int
    BY DEF Filters, One
  <1>7. numIntersectionFilters - Filters(old) + One(f) = numIntersectionFilters + x
    BY <1>1, Found DEF Filters, One
  <1>8. numIntersectionFilters' = Count(numIntersectionFilters + x)
    BY <1>7 DEF SetFilter, One
  <1>9. drift - Filters(old) + One(f) = drift + x
    BY <1>1, Found DEF Filters, One
  <1>10. drift' = Count(drift + y)
    BY <1>1, <1>9, Found DEF SetFilter, One
  <1>11. x - y = One(IsEnabled(g) /\ g.filter) - One(i \in Filtered)
    BY <1>1, <1>3, Found DEF Filters, One
  <1>12. numMappedBuffers' = numMappedBuffers + One(g.mapped) - One(i \in Mapped)
    BY <1>1, <1>3, Found DEF SetFilter, One
  <1>13. /\ UNCHANGED <<usedIDs, treeVars, is_build, lost, missing>> /\ contents' \in Contents
         /\ modified' \in BOOLEAN /\ refiltered' \in BOOLEAN
         /\ (IsEnabled(g) <=> i \in Enabled)
    BY <1>1, <1>3, Found DEF SetFilter
  <1> HIDE DEF g, x, y
  <1> QED
    BY <1>1, <1>2, <1>3, <1>4, <1>5, <1>6, <1>8, <1>10, <1>11, <1>12, <1>13, ChangeStep

LEMMA MapStep ==
    ASSUME SceneIndInv, NEW i \in Ids, NEW b \in BOOLEAN, Map(i, b), UNCHANGED Static
    PROVE  SceneIndInv'
  <1> DEFINE old == geometries[i]
             g == [old EXCEPT !.mapped = b]
             none == 0
  <1>1. /\ i \in Live /\ ~Frozen /\ modified' = modified /\ refiltered' = refiltered
        /\ drift' = drift /\ old.mapped # b
    BY DEF Map
  <1>2. old \in Geometry /\ g \in Geometry
    BY <1>1, Found DEF Geometry
  <1>3. /\ g.filter = old.filter /\ g.mapped = b /\ g.content = old.content
        /\ g.modified = old.modified /\ (IsEnabled(g) <=> IsEnabled(old)) /\ old.mapped \in BOOLEAN
    BY <1>2 DEF Geometry, IsEnabled
  <1>4. geometries' = [geometries EXCEPT ![i] = g]
    BY <1>1, <1>2 DEF Map
  <1>5. numPrimitives' = numPrimitives + One(IsEnabled(g)) - One(i \in Enabled)
    BY <1>1, <1>3, Found DEF Map, One
  <1>6. numIntersectionFilters' = Count(numIntersectionFilters + none) /\ drift' = Count(drift + none)
    BY <1>1, Found DEF Map
  <1>7. none \in Int /\ none - none = One(IsEnabled(g) /\ g.filter) - One(i \in Filtered)
    BY <1>1, <1>3, Found DEF One
  <1>8. numMappedBuffers' = numMappedBuffers + One(g.mapped) - One(i \in Mapped)
    BY <1>1, <1>3, Found DEF Map, One
  <1>9. /\ UNCHANGED <<usedIDs, treeVars, is_build, lost, missing>> /\ contents' \in Contents
        /\ modified' \in BOOLEAN /\ refiltered' \in BOOLEAN
        /\ (IsEnabled(g) <=> i \in Enabled)
    BY <1>1, <1>3, Found DEF Map
  <1> HIDE DEF g, none
  <1> QED
    BY <1>1, <1>2, <1>3, <1>4, <1>5, <1>6, <1>7, <1>8, <1>9, ChangeStep
------------------------------------------------------------------------------
\* The calls by which a mesh comes and goes

\* A sequence without repetition has as many elements as places.
LEMMA DistinctCount ==
    ASSUME NEW S, NEW s \in Seq(S), \A j, k \in DOMAIN s : s[j] = s[k] => j = k
    PROVE  Cardinality({s[k] : k \in DOMAIN s}) = Len(s)
  <1> DEFINE T == {s[k] : k \in DOMAIN s}
  <1>1. Len(s) \in Nat /\ DOMAIN s = 1 .. Len(s) /\ s = [k \in 1 .. Len(s) |-> s[k]]
    OBVIOUS
  <1>2. s \in [1 .. Len(s) -> T]
    BY <1>1
  <1>3. s \in Injection(1 .. Len(s), T) /\ s \in Surjection(1 .. Len(s), T)
    <2>1. \A j, k \in 1 .. Len(s) : s[j] = s[k] => j = k
      BY <1>1
    <2>2. \A e \in T : \E k \in 1 .. Len(s) : s[k] = e
      BY <1>1
    <2> HIDE DEF T
    <2> QED
      BY <1>1, <1>2, <2>1, <2>2 DEF Injection, Surjection, IsInjective
  <1>4. ExistsBijection(1 .. Len(s), T)
    BY <1>3 DEF ExistsBijection, Bijection
  <1> QED
    BY <1>1, <1>4, FS_CountingElements

\* A free ID, or the next one, becomes a mesh; the IDs that are free then.
LEMMA NewID ==
    ASSUME SceneIndInv, NEW n \in {0, 1}, NewTriangleMesh(n)
    PROVE  \E i \in Ids \ Live :
              /\ geometries' \in Seq(Geometry \union {Nullptr}) /\ Len(geometries') <= MaxGeometries
              /\ geometries'[i] = [prims |-> n, enabled |-> TRUE, modified |-> TRUE, filter |-> FALSE,
                                   mapped |-> FALSE, content |-> contents + 1]
              /\ DOMAIN geometries' = DOMAIN geometries \union {i}
              /\ \A k \in DOMAIN geometries \ {i} : geometries'[k] = geometries[k]
              /\ usedIDs' \in Seq(Ids) /\ UsedDistinct' /\ FreeIDs' = FreeIDs \ {i}
  <1> DEFINE geom == [prims |-> n, enabled |-> TRUE, modified |-> TRUE, filter |-> FALSE,
                      mapped |-> FALSE, content |-> contents + 1]
  <1>1. /\ geometries \in Seq(Geometry \union {Nullptr}) /\ usedIDs \in Seq(Ids)
        /\ contents \in Contents /\ UsedDistinct /\ FreeIDs = DOMAIN geometries \ Live
        /\ Len(geometries) <= MaxGeometries /\ MaxGeometries \in Nat
    BY SceneAssumption DEF SceneIndInv, SceneInv, TypeOK, DeletedProperly, FreeIDs
  <1>2. geom \in Geometry
    BY <1>1, SceneAssumption DEF NewTriangleMesh, Geometry, Contents
  <1> HIDE DEF geom
  <1>3. CASE usedIDs # <<>>
    <2> DEFINE L == Len(usedIDs)
               i == usedIDs[L]
    <2>1. L \in Nat \ {0} /\ DOMAIN usedIDs = 1 .. L /\ i \in FreeIDs
      BY <1>1, <1>3 DEF FreeIDs
    <2>2. i \in DOMAIN geometries /\ i \notin Live /\ i \in Ids
      BY <1>1, <2>1, Meshes DEF SceneIndInv, SceneInv
    <2>3. geometries' = [geometries EXCEPT ![i] = geom] /\ usedIDs' = SubSeq(usedIDs, 1, L - 1)
      BY <1>3 DEF NewTriangleMesh, geom
    <2>4. /\ usedIDs' \in Seq(Ids) /\ DOMAIN usedIDs' = 1 .. L - 1
          /\ \A k \in 1 .. L - 1 : usedIDs'[k] = usedIDs[k]
      BY <1>1, <2>1, <2>3
    <2>5. UsedDistinct'
      BY <1>1, <2>1, <2>4 DEF UsedDistinct
    <2>6. FreeIDs' = FreeIDs \ {i}
      BY <1>1, <2>1, <2>4 DEF UsedDistinct, FreeIDs
    <2>7. /\ geometries' \in Seq(Geometry \union {Nullptr}) /\ Len(geometries') <= MaxGeometries
          /\ geometries'[i] = geom /\ DOMAIN geometries' = DOMAIN geometries \union {i}
          /\ \A k \in DOMAIN geometries \ {i} : geometries'[k] = geometries[k]
      <3> HIDE DEF i
      <3>1. geom \in Geometry \union {Nullptr}
        BY <1>2
      <3>2. /\ geometries' \in Seq(Geometry \union {Nullptr}) /\ Len(geometries') = Len(geometries)
            /\ DOMAIN geometries' = DOMAIN geometries /\ geometries'[i] = geom
            /\ \A k \in DOMAIN geometries \ {i} : geometries'[k] = geometries[k]
        BY <1>1, <3>1, <2>2, <2>3
      <3> QED
        BY <1>1, <2>2, <3>2
    <2> HIDE DEF i
    <2> QED
      BY <2>2, <2>4, <2>5, <2>6, <2>7 DEF geom
  <1>4. CASE usedIDs = <<>>
    <2> DEFINE i == Len(geometries) + 1
    <2>1. /\ geometries' = Append(geometries, geom) /\ usedIDs' = usedIDs
          /\ Len(geometries) < MaxGeometries
      BY <1>4 DEF NewTriangleMesh, geom
    <2>2. i \in Ids /\ i \notin DOMAIN geometries /\ i \notin Live
      BY <1>1, <2>1, Meshes DEF Ids, SceneIndInv, SceneInv
    <2>3. /\ geometries' \in Seq(Geometry \union {Nullptr}) /\ Len(geometries') = i
          /\ geometries'[i] = geom /\ DOMAIN geometries' = DOMAIN geometries \union {i}
          /\ \A k \in DOMAIN geometries : geometries'[k] = geometries[k]
      BY <1>1, <1>2, <2>1
    <2>4. UsedDistinct' /\ FreeIDs' = FreeIDs \ {i}
      BY <1>1, <2>1, <2>2 DEF UsedDistinct, FreeIDs
    <2> QED
      BY <1>1, <2>1, <2>2, <2>3, <2>4 DEF geom
  <1> QED
    BY <1>3, <1>4

LEMMA NewTriangleMeshStep ==
    ASSUME SceneIndInv, NEW n \in {0, 1}, NewTriangleMesh(n), UNCHANGED Static PROVE SceneIndInv'
  <1>1. PICK i \in Ids \ Live :
              /\ geometries' \in Seq(Geometry \union {Nullptr}) /\ Len(geometries') <= MaxGeometries
              /\ geometries'[i] = [prims |-> n, enabled |-> TRUE, modified |-> TRUE, filter |-> FALSE,
                                   mapped |-> FALSE, content |-> contents + 1]
              /\ DOMAIN geometries' = DOMAIN geometries \union {i}
              /\ \A k \in DOMAIN geometries \ {i} : geometries'[k] = geometries[k]
              /\ usedIDs' \in Seq(Ids) /\ UsedDistinct' /\ FreeIDs' = FreeIDs \ {i}
    BY NewID
  <1>2. TypeOK /\ SceneInv /\ ObjectsKept /\ ObjectsThere /\ StaticKept
    BY DEF SceneIndInv, SceneInv
  <1>3. /\ numPrimitives' = numPrimitives + n /\ modified' = TRUE /\ contents' = contents + 1
        /\ contents' \in Contents
        /\ UNCHANGED <<numIntersectionFilters, numMappedBuffers, is_build, objects, tree, filterPath,
                       immutable, refiltered, drift, lost>>
    BY <1>2, SceneAssumption DEF NewTriangleMesh, treeVars, TypeOK, Contents
  <1>4. /\ geometries'[i] # Nullptr /\ ~geometries'[i].filter /\ ~geometries'[i].mapped
        /\ geometries'[i].modified /\ (IsEnabled(geometries'[i]) <=> n = 1)
    <2>1. geometries'[i] \in Geometry
      BY <1>1, <1>3 DEF Geometry
    <2>2. /\ geometries'[i].filter = FALSE /\ geometries'[i].mapped = FALSE
          /\ geometries'[i].modified = TRUE /\ geometries'[i].enabled = TRUE
          /\ geometries'[i].prims = n
      BY <1>1
    <2> QED
      BY <2>1, <2>2, SceneAssumption DEF IsEnabled
  <1>5. Live' = Live \union {i} /\ Apart(i)
    BY <1>1, <1>2, <1>4, Meshes DEF Live, Apart
  <1>6. missing' = (IF immutable THEN missing \union {i} ELSE missing) /\ missing' \subseteq Ids
    BY <1>1, <1>2, <1>5 DEF NewTriangleMesh, TypeOK
  <1>7. /\ i \in Enabled' <=> n = 1
        /\ i \notin Filtered' /\ i \notin Mapped'
        /\ i \notin Enabled /\ i \notin Filtered /\ i \notin Mapped
    BY <1>4, <1>5 DEF Enabled, Filtered, Mapped
  <1>8. /\ PrimitivesCounted' /\ FiltersCounted' /\ MappedCounted'
    <2> DEFINE none == 0
    <2>1. /\ numIntersectionFilters \in 0 .. WORD - 1 /\ drift \in 0 .. WORD - 1
          /\ numPrimitives \in 0 .. MaxGeometries /\ numMappedBuffers \in Nat /\ lost \in Nat
      BY <1>2 DEF TypeOK
    <2>2. /\ numIntersectionFilters + none = numIntersectionFilters /\ drift + none = drift
          /\ numPrimitives \in Nat
      BY <2>1, SceneAssumption
    <2>3. /\ numIntersectionFilters' = Count(numIntersectionFilters + none)
          /\ drift' = Count(drift + none)
      BY <1>3, <2>1, <2>2, CountSmall
    <2>4. /\ numPrimitives' = numPrimitives + One(i \in Enabled') - One(i \in Enabled)
          /\ none \in Int /\ none - none = One(i \in Filtered') - One(i \in Filtered)
          /\ numMappedBuffers' + lost =
                 numMappedBuffers + lost' + One(i \in Mapped') - One(i \in Mapped)
          /\ lost' \in Nat /\ numMappedBuffers' \in Int
      BY <1>3, <1>7, <2>1, <2>2 DEF One
    <2> HIDE DEF none
    <2> QED
      BY <1>2, <1>5, <2>3, <2>4, CountersFollow DEF SceneInv
  <1>9. TypeOK'
    <2>1. numPrimitives' \in 0 .. MaxGeometries
      <3>1. Enabled' \in SUBSET Ids
        BY <1>2, <1>5, Meshes DEF Enabled
      <3> QED
        BY <1>8, <3>1, IdSets DEF PrimitivesCounted
    <2> QED
      BY <1>1, <1>2, <1>3, <1>6, <2>1 DEF TypeOK
  <1>10. DeletedProperly'
    <2>1. FreeIDs' = DOMAIN geometries' \ Live'
      BY <1>1, <1>2, <1>5 DEF SceneInv, DeletedProperly, FreeIDs
    <2>2. Cardinality(FreeIDs') = Len(usedIDs')
      BY <1>1, DistinctCount DEF UsedDistinct, FreeIDs
    <2> QED
      BY <1>2, <1>3, <1>5, <2>1, <2>2 DEF SceneInv, DeletedProperly, FreeIDs
  <1>11. ObjectsKept' /\ ObjectsThere'
    <2>1. missing \subseteq missing'
      BY <1>6
    <2> QED
      BY <1>1, <1>2, <1>3, <1>4, <1>5, <2>1, Meshes DEF ObjectsKept, ObjectsThere
  <1>12. StaticKept'
    <2>1. TreeFresh => TreeFresh'
      BY <1>1, <1>2, <1>3, <1>5, Meshes DEF TreeFresh, Apart, Enabled
    <2>2. immutable /\ TreeWhole => TreeWhole'
      <3>1. immutable => Enabled' \ missing' \subseteq Enabled \ missing
        BY <1>1, <1>2, <1>5, <1>6, Meshes DEF Apart, Enabled
      <3> QED
        BY <1>1, <1>2, <1>3, <3>1, Meshes DEF TreeWhole
    <2> QED
      BY <1>2, <1>3, <2>1, <2>2 DEF StaticKept
  <1>13. NothingStale' /\ TreeComplete' /\ FiltersSelected'
    BY <1>3 DEF NothingStale, TreeComplete, FiltersSelected
  <1> QED
    BY <1>1, <1>8, <1>9, <1>10, <1>11, <1>12, <1>13 DEF SceneIndInv, SceneInv

LEMMA DeleteGeometryStep ==
    ASSUME SceneIndInv, NEW i \in Ids, DeleteGeometry(i), UNCHANGED Static PROVE SceneIndInv'
  <1>1. TypeOK /\ SceneInv /\ UsedDistinct /\ ObjectsKept /\ ObjectsThere /\ StaticKept
    BY DEF SceneIndInv, SceneInv
  <1>2. /\ i \in Live /\ ~Static /\ ~immutable
        /\ geometries' = [geometries EXCEPT ![i] = Nullptr]
        /\ usedIDs' = Append(usedIDs, i) /\ objects' = [objects EXCEPT ![i] = Nullptr]
        /\ lost' = lost + One(geometries[i].mapped) /\ missing' = missing \ {i}
        /\ UNCHANGED <<numMappedBuffers, contents, is_build, tree, filterPath, immutable, refiltered,
                       drift>>
    BY <1>1 DEF DeleteGeometry, StaticKept, One
  <1>3. /\ geometries \in Seq(Geometry \union {Nullptr}) /\ usedIDs \in Seq(Ids)
        /\ objects \in [Ids -> Contents \union {Empty, Nullptr}] /\ i \in DOMAIN geometries
        /\ FreeIDs = DOMAIN geometries \ Live
    BY <1>1, <1>2, Meshes DEF TypeOK, SceneInv, DeletedProperly, FreeIDs
  <1>4. /\ geometries' \in Seq(Geometry \union {Nullptr}) /\ Len(geometries') = Len(geometries)
        /\ DOMAIN geometries' = DOMAIN geometries /\ geometries'[i] = Nullptr
        /\ \A k \in DOMAIN geometries \ {i} : geometries'[k] = geometries[k]
        /\ objects' \in [Ids -> Contents \union {Empty, Nullptr}] /\ objects'[i] = Nullptr
        /\ \A k \in Ids \ {i} : objects'[k] = objects[k]
    BY <1>2, <1>3
  <1>5. Live' = Live \ {i} /\ Apart(i)
    BY <1>1, <1>4, Meshes DEF Live, Apart
  <1>6. Enabled' = Enabled \ {i} /\ i \notin Enabled' /\ i \notin Filtered' /\ i \notin Mapped'
    BY <1>5 DEF Enabled, Filtered, Mapped, Apart
  <1>7. /\ numPrimitives' = numPrimitives - One(i \in Enabled)
        /\ numIntersectionFilters' = Count(numIntersectionFilters - One(i \in Filtered))
        /\ (i \in Enabled /\ modified') \/ (i \notin Enabled /\ modified' = modified)
        /\ modified' \in BOOLEAN
    <2>1. CASE i \in Enabled
      <3>1. geometries[i].prims = 1 /\ Filters(geometries[i]) = One(i \in Filtered)
        BY <1>2, <2>1, Found DEF Geometry, IsEnabled, Filters, One
      <3>2. /\ numPrimitives' = numPrimitives + (-1) * geometries[i].prims /\ modified' = TRUE
            /\ numIntersectionFilters' =
                   Count(numIntersectionFilters + (-1) * Filters(geometries[i]))
        BY <2>1 DEF DeleteGeometry, Switch
      <3>3. /\ numPrimitives + (-1) * geometries[i].prims = numPrimitives - One(i \in Enabled)
            /\ numIntersectionFilters + (-1) * Filters(geometries[i]) =
                   numIntersectionFilters - One(i \in Filtered)
        BY <1>2, <2>1, <3>1, Found DEF One
      <3> QED
        BY <2>1, <3>2, <3>3
    <2>2. CASE i \notin Enabled
      <3>1. UNCHANGED <<numPrimitives, numIntersectionFilters, modified>>
        BY <2>2 DEF DeleteGeometry
      <3>2. numPrimitives - 0 = numPrimitives /\ numIntersectionFilters - 0 = numIntersectionFilters + 0
        BY <1>2, Found
      <3>3. i \notin Filtered
        BY <2>2 DEF Filtered
      <3> QED
        BY <1>2, <2>2, <3>1, <3>2, <3>3, Found DEF One
    <2> QED
      BY <2>1, <2>2
  <1>8. /\ PrimitivesCounted' /\ FiltersCounted' /\ MappedCounted'
        /\ numIntersectionFilters' \in 0 .. WORD - 1 /\ lost' \in Nat
    <2> DEFINE x == -One(i \in Filtered)
               y == 0
    <2>1. x \in Int /\ y \in Int /\ drift' = Count(drift + y)
      BY <1>2, Found DEF One
    <2>2. numIntersectionFilters' = Count(numIntersectionFilters + x)
      <3>1. numIntersectionFilters - One(i \in Filtered) = numIntersectionFilters + x
        BY <1>2, Found DEF One
      <3> QED
        BY <1>7, <3>1
    <2>3. numPrimitives' = numPrimitives + One(i \in Enabled') - One(i \in Enabled)
      BY <1>2, <1>6, <1>7, Found DEF One
    <2>4. x - y = One(i \in Filtered') - One(i \in Filtered)
      BY <1>6 DEF One
    <2>5. lost \in Nat /\ numMappedBuffers \in Nat /\ lost' = lost + One(i \in Mapped)
      <3>1. i \in Mapped <=> geometries[i].mapped
        BY <1>2, Found
      <3> QED
        BY <1>1, <1>2, <3>1 DEF TypeOK, One
    <2>6. /\ numMappedBuffers' + lost =
                 numMappedBuffers + lost' + One(i \in Mapped') - One(i \in Mapped)
          /\ lost' \in Nat /\ numMappedBuffers' \in Int
      BY <1>2, <1>6, <2>5 DEF One
    <2> HIDE DEF x, y
    <2> QED
      BY <1>1, <1>5, <2>1, <2>2, <2>3, <2>4, <2>6, CountersFollow DEF SceneInv
  <1>9. TypeOK'
    <2>1. numPrimitives' \in 0 .. MaxGeometries
      <3>1. Enabled' \in SUBSET Ids
        BY <1>1, <1>6, Meshes
      <3> QED
        BY <1>8, <3>1, IdSets DEF PrimitivesCounted
    <2>2. usedIDs' \in Seq(Ids)
      BY <1>2, <1>3
    <2> QED
      BY <1>1, <1>2, <1>4, <1>7, <1>8, <2>1, <2>2 DEF TypeOK
  <1>10. UsedDistinct' /\ FreeIDs' = FreeIDs \union {i}
    <2>1. /\ Len(usedIDs) \in Nat /\ DOMAIN usedIDs = 1 .. Len(usedIDs)
          /\ DOMAIN usedIDs' = 1 .. Len(usedIDs) + 1 /\ usedIDs'[Len(usedIDs) + 1] = i
          /\ \A k \in 1 .. Len(usedIDs) : usedIDs'[k] = usedIDs[k]
      BY <1>2, <1>3
    <2>2. \A k \in DOMAIN usedIDs : usedIDs[k] # i
      BY <1>2, <1>3 DEF FreeIDs
    <2> QED
      BY <1>1, <2>1, <2>2 DEF UsedDistinct, FreeIDs
  <1>11. DeletedProperly'
    <2>1. Cardinality(FreeIDs') = Len(usedIDs')
      BY <1>9, <1>10, DistinctCount DEF UsedDistinct, FreeIDs, TypeOK
    <2>2. FreeIDs' = DOMAIN geometries' \ Live'
      BY <1>2, <1>3, <1>4, <1>5, <1>10
    <2> QED
      BY <1>1, <1>4, <1>5, <2>1, <2>2 DEF SceneInv, DeletedProperly, FreeIDs
  <1>12. ObjectsKept' /\ ObjectsThere' /\ StaticKept'
    BY <1>1, <1>2, <1>4, <1>5, Meshes DEF ObjectsKept, ObjectsThere, StaticKept
  <1>13. NothingStale' /\ TreeComplete' /\ FiltersSelected'
    <2>1. CASE modified'
      BY <2>1 DEF NothingStale, TreeComplete, FiltersSelected
    <2>2. CASE ~modified'
      <3>1. ~modified /\ Enabled' = Enabled /\ i \notin Enabled
        BY <1>6, <1>7, <2>2
      <3>2. \A k \in Enabled : geometries'[k] = geometries[k] /\ objects'[k] = objects[k]
        BY <1>1, <1>4, <3>1, Meshes
      <3> QED
        BY <1>1, <1>2, <3>1, <3>2 DEF SceneInv, NothingStale, TreeComplete, FiltersSelected
    <2> QED
      BY <2>1, <2>2
  <1> QED
    BY <1>8, <1>9, <1>10, <1>11, <1>12, <1>13 DEF SceneIndInv, SceneInv
------------------------------------------------------------------------------
\* The commits

\* A commit changes no more of the meshes than that they are marked.
LEMMA CommitMeshes ==
    ASSUME TypeOK, Commit
    PROVE  /\ geometries' \in Seq(Geometry \union {Nullptr}) /\ Len(geometries') = Len(geometries)
           /\ DOMAIN geometries' = DOMAIN geometries
           /\ Live' = Live /\ Enabled' = Enabled /\ Filtered' = Filtered /\ Mapped' = Mapped
           /\ \A k \in Live : /\ geometries'[k].content = geometries[k].content
                              /\ geometries'[k].filter = geometries[k].filter
           /\ \A k \in Enabled : ~geometries'[k].modified
           /\ \A k \in DOMAIN geometries \ Enabled : geometries'[k] = geometries[k]
  <1> DEFINE G(k) == IF k \in Enabled THEN [geometries[k] EXCEPT !.modified = FALSE]
                     ELSE geometries[k]
  <1>1. geometries' = [k \in DOMAIN geometries |-> G(k)]
    BY DEF Commit
  <1>2. /\ geometries \in Seq(Geometry \union {Nullptr}) /\ Nullptr \notin Geometry
        /\ DOMAIN geometries = 1 .. Len(geometries) /\ Len(geometries) \in Nat
        /\ Enabled \subseteq Live /\ Live \subseteq DOMAIN geometries
        /\ \A k \in Live : geometries[k] \in Geometry
    BY Meshes, SceneAssumption DEF TypeOK
  <1>3. \A k \in Live : /\ G(k) \in Geometry /\ G(k) # Nullptr
                        /\ G(k).content = geometries[k].content
                        /\ G(k).filter = geometries[k].filter /\ G(k).mapped = geometries[k].mapped
                        /\ (IsEnabled(G(k)) <=> IsEnabled(geometries[k]))
    BY <1>2 DEF Geometry, IsEnabled
  <1>4. \A k \in Enabled : ~G(k).modified
    BY <1>2 DEF Geometry
  <1>5. \A k \in DOMAIN geometries : G(k) \in Geometry \union {Nullptr}
    BY <1>2, <1>3
  <1>6. \A k \in DOMAIN geometries \ Enabled : G(k) = geometries[k]
    OBVIOUS
  <1> HIDE DEF G
  <1>7. /\ geometries' \in Seq(Geometry \union {Nullptr}) /\ Len(geometries') = Len(geometries)
        /\ DOMAIN geometries' = DOMAIN geometries
        /\ \A k \in DOMAIN geometries : geometries'[k] = G(k)
    BY <1>1, <1>2, <1>5
  <1>8. Live' = Live
    BY <1>2, <1>3, <1>6, <1>7 DEF Live
  <1>9. Enabled' = Enabled
    BY <1>2, <1>3, <1>7, <1>8 DEF Enabled
  <1>10. Filtered' = Filtered /\ Mapped' = Mapped
    BY <1>2, <1>3, <1>7, <1>8, <1>9 DEF Filtered, Mapped
  <1> QED
    BY <1>2, <1>3, <1>4, <1>6, <1>7, <1>8, <1>9, <1>10

\* What a commit builds: a static scene once, and otherwise a hierarchy of each mesh.
LEMMA CommitTree ==
    ASSUME SceneIndInv, Commit, UNCHANGED Static
    PROVE  /\ objects' \in [Ids -> Contents \union {Empty, Nullptr}]
           /\ tree' \subseteq [id : Ids, content : Contents]
           /\ TreeFresh' /\ TreeWhole' /\ ObjectsKept' /\ ObjectsThere'
           /\ \A k \in Ids \ Live : objects'[k] = objects[k]
           /\ Static => objects' = objects
  <1>1. TypeOK /\ SceneInv /\ ObjectsKept /\ ObjectsThere /\ StaticKept /\ PrimitivesCounted
    BY DEF SceneIndInv, SceneInv
  <1>2. /\ objects \in [Ids -> Contents \union {Empty, Nullptr}]
        /\ tree \subseteq [id : Ids, content : Contents]
        /\ Empty \notin Contents /\ Nullptr \notin Contents \union {Empty}
    BY <1>1, SceneAssumption DEF TypeOK, Empty, Contents
  <1>3. /\ Live \subseteq Ids /\ Enabled \subseteq Live
        /\ \A k \in Live : geometries[k].content \in Contents
    BY <1>1, Meshes DEF Geometry
  <1>4. /\ Live' = Live /\ Enabled' = Enabled
        /\ \A k \in Live : geometries'[k].content = geometries[k].content
        /\ \A k \in Enabled : ~geometries'[k].modified
        /\ \A k \in Live \ Enabled : geometries'[k] = geometries[k]
        /\ missing' = missing /\ modified' = FALSE
    BY <1>1, <1>3, CommitMeshes, Meshes DEF Commit
  <1>5. CASE Static
    <2>1. objects' = objects /\ \A k \in Ids : objects[k] = Nullptr
      BY <1>1, <1>5 DEF Commit, BuildStatic, StaticKept
    <2>2. TreeFresh' /\ TreeWhole' /\ tree' \subseteq [id : Ids, content : Contents]
      <3>1. CASE immutable
        <4>1. tree' = tree /\ TreeFresh /\ TreeWhole
          BY <1>1, <1>5, <3>1 DEF Commit, BuildStatic, StaticKept
        <4> QED
          BY <1>2, <1>3, <1>4, <4>1 DEF TreeFresh, TreeWhole
      <3>2. CASE ~immutable
        <4>1. tree' = {[id |-> k, content |-> geometries[k].content] : k \in Enabled}
          BY <1>5, <3>2 DEF Commit, BuildStatic
        <4> QED
          BY <1>3, <1>4, <4>1 DEF TreeFresh, TreeWhole
      <3> QED
        BY <3>1, <3>2
    <2>3. ObjectsKept' /\ ObjectsThere'
      BY <1>3, <1>4, <1>5, <2>1 DEF ObjectsKept, ObjectsThere
    <2> QED
      BY <1>2, <2>1, <2>2, <2>3
  <1>6. CASE ~Static /\ numPrimitives = 0
    <2>1. objects' = objects /\ tree' = {}
      BY <1>6 DEF Commit, BuildTwoLevel
    <2>2. Enabled = {}
      BY <1>1, <1>3, <1>6, Counted, FS_EmptySet DEF PrimitivesCounted
    <2> QED
      BY <1>1, <1>2, <1>3, <1>4, <1>6, <2>1, <2>2 DEF ObjectsKept, ObjectsThere, TreeWhole, TreeFresh
  <1>7. CASE ~Static /\ numPrimitives # 0
    <2>1. /\ objects' = BuiltObjects
          /\ tree' = {[id |-> k, content |-> objects'[k]] : k \in {m \in Enabled : objects'[m] # Empty}}
      BY <1>7 DEF Commit, BuildTwoLevel
    <2>2. \A k \in Ids \ Live : objects'[k] = objects[k]
      BY <2>1 DEF BuiltObjects
    <2>3. \A k \in Live \ Enabled : objects'[k] \in {objects[k], Empty}
      BY <1>3, <2>1 DEF BuiltObjects
    <2>4. \A k \in Enabled : objects'[k] \in {geometries[k].content, Empty}
      BY <1>1, <1>3, <2>1 DEF BuiltObjects, ObjectsKept
    <2>5. objects' \in [Ids -> Contents \union {Empty, Nullptr}]
      <3>1. \A k \in Ids : objects'[k] \in Contents \union {Empty, Nullptr}
        BY <1>2, <1>3, <2>2, <2>3, <2>4
      <3>2. objects' = [k \in Ids |-> objects'[k]]
        BY <2>1 DEF BuiltObjects
      <3> QED
        BY <3>1, <3>2
    <2>6. TreeFresh' /\ tree' \subseteq [id : Ids, content : Contents]
      <3>1. \A r \in tree' : \E k \in Enabled : r = [id |-> k, content |-> geometries[k].content]
        BY <2>1, <2>4
      <3> QED
        BY <1>3, <1>4, <3>1 DEF TreeFresh
    <2>7. \A k \in Enabled \ missing : objects'[k] = geometries[k].content
      BY <1>1, <1>2, <1>3, <1>7, <2>1 DEF BuiltObjects, ObjectsThere
    <2>8. TreeWhole'
      <3>1. \A k \in Enabled \ missing : [id |-> k, content |-> geometries[k].content] \in tree'
        BY <1>2, <1>3, <2>1, <2>7
      <3> QED
        BY <1>3, <1>4, <3>1 DEF TreeWhole
    <2>9. ObjectsKept'
      BY <1>1, <1>3, <1>4, <2>3, <2>4 DEF ObjectsKept
    <2>10. ObjectsThere'
      <3>1. \A k \in Live \ Enabled : ~geometries[k].modified /\ k \notin missing =>
                objects'[k] = geometries[k].content
        BY <1>1, <1>2, <1>3, <1>7, <2>1 DEF BuiltObjects, ObjectsThere
      <3> QED
        BY <1>3, <1>4, <2>7, <3>1 DEF ObjectsThere
    <2> QED
      BY <1>7, <2>2, <2>5, <2>6, <2>8, <2>9, <2>10
  <1> QED
    BY <1>5, <1>6, <1>7

LEMMA CommitStep ==
    ASSUME SceneIndInv, Commit, UNCHANGED Static PROVE SceneIndInv'
  <1>1. TypeOK /\ SceneInv /\ UsedDistinct /\ StaticKept
    BY DEF SceneIndInv, SceneInv
  <1>2. /\ is_build' = TRUE /\ modified' = FALSE /\ refiltered' = FALSE /\ immutable' = Static
        /\ filterPath' = (numIntersectionFilters # 0)
        /\ UNCHANGED <<usedIDs, numPrimitives, numIntersectionFilters, numMappedBuffers, contents,
                       drift, lost, missing>>
    BY DEF Commit, select
  <1>3. TypeOK'
    BY <1>1, <1>2, CommitMeshes, CommitTree DEF TypeOK
  <1>4. PrimitivesCounted' /\ FiltersCounted' /\ MappedCounted'
    BY <1>1, <1>2, CommitMeshes DEF SceneInv, PrimitivesCounted, FiltersCounted, MappedCounted,
                                    Filtered, Mapped
  <1>5. NothingStale' /\ TreeComplete' /\ ObjectsKept' /\ ObjectsThere'
    BY CommitTree DEF NothingStale, TreeComplete, TreeFresh, TreeWhole
  <1>6. DeletedProperly' /\ UsedDistinct'
    BY <1>1, <1>2, CommitMeshes, CommitTree, Meshes DEF SceneInv, DeletedProperly, UsedDistinct
  <1>7. FiltersSelected'
    <2>1. SUFFICES ASSUME drift = 0
                   PROVE  filterPath' <=> \E k \in Enabled' : geometries'[k].filter
      BY <1>2 DEF FiltersSelected
    <2>2. Cardinality(Filtered) \in 0 .. MaxGeometries /\ IsFiniteSet(Filtered)
      BY <1>1, Meshes, Counted
    <2>3. Cardinality(Filtered) + drift \in 0 .. WORD - 1
      BY <2>1, <2>2, SceneAssumption
    <2>4. numIntersectionFilters = Cardinality(Filtered)
      BY <1>1, <2>1, <2>2, <2>3, CountSmall DEF SceneInv, FiltersCounted, Filtered
    <2>5. filterPath' <=> Filtered # {}
      BY <1>2, <2>2, <2>4, FS_EmptySet
    <2> QED
      BY <1>1, <2>5, CommitMeshes, Meshes DEF Filtered
  <1>8. StaticKept'
    BY <1>1, <1>2, CommitTree DEF StaticKept
  <1> QED
    BY <1>3, <1>4, <1>5, <1>6, <1>7, <1>8 DEF SceneIndInv, SceneInv

\* A commit that fails leaves no hierarchy that is not empty.
LEMMA CommitFailsStep ==
    ASSUME SceneIndInv, CommitFails, UNCHANGED Static PROVE SceneIndInv'
  <1>1. TypeOK /\ SceneInv /\ UsedDistinct /\ ObjectsThere /\ StaticKept
    BY DEF SceneIndInv, SceneInv
  <1>2. /\ tree' = {} /\ is_build' = TRUE /\ refiltered' = FALSE /\ modified /\ ~immutable
        /\ filterPath' = (numIntersectionFilters # 0)
        /\ UNCHANGED <<geometries, usedIDs, numPrimitives, numIntersectionFilters, numMappedBuffers,
                       contents, modified, immutable, drift, lost>>
    BY DEF CommitFails, select, geomVars
  <1>3. objects \in [Ids -> Contents \union {Empty, Nullptr}]
    BY <1>1 DEF TypeOK
  <1>4. /\ objects' \in [Ids -> {Empty, Nullptr}]
        /\ \A k \in Ids : k \notin Live \/ Static => (objects[k] = Nullptr => objects'[k] = Nullptr)
    <2>1. CASE objects' = [k \in Ids |-> IF objects[k] = Nullptr THEN Nullptr ELSE Empty]
      BY <2>1
    <2>2. CASE ~Static /\ objects' = [k \in Ids |-> IF BuiltObjects[k] = Nullptr THEN Nullptr ELSE Empty]
      <3>1. \A k \in Ids : k \notin Live => BuiltObjects[k] = objects[k]
        BY DEF BuiltObjects
      <3> QED
        BY <2>2, <3>1
    <2> QED
      BY <2>1, <2>2 DEF CommitFails
  <1>5. Live' = Live /\ Enabled' = Enabled
    BY <1>2 DEF Live, Enabled
  <1>6. TypeOK'
    <2>1. objects' \in [Ids -> Contents \union {Empty, Nullptr}]
      BY <1>4
    <2>2. missing' \subseteq Ids
      BY <1>1, Meshes DEF CommitFails, TypeOK
    <2> QED
      BY <1>1, <1>2, <2>1, <2>2 DEF TypeOK
  <1>7. PrimitivesCounted' /\ FiltersCounted' /\ MappedCounted' /\ UsedDistinct'
    BY <1>1, <1>2, <1>5 DEF SceneInv, PrimitivesCounted, FiltersCounted, MappedCounted, UsedDistinct
  <1>8. DeletedProperly'
    BY <1>1, <1>2, <1>4, <1>5 DEF SceneInv, DeletedProperly
  <1>9. NothingStale' /\ TreeComplete' /\ FiltersSelected'
    BY <1>2 DEF NothingStale, TreeComplete, FiltersSelected
  <1>10. ObjectsKept' /\ ObjectsThere' /\ StaticKept'
    <2>1. \A k \in Ids : objects'[k] \in {Empty, Nullptr}
      BY <1>4
    <2>2. Live \subseteq Ids
      BY <1>1, Meshes
    <2>3. ObjectsKept' /\ StaticKept'
      BY <1>1, <1>2, <1>4, <1>5, <2>1, <2>2 DEF ObjectsKept, StaticKept
    <2>4. ObjectsThere'
      <3>1. SUFFICES ASSUME NEW k \in Live, k \notin missing', ~Static, ~geometries[k].modified
                     PROVE  FALSE
        BY <1>2, <1>5 DEF ObjectsThere
      <3>2. k \notin missing /\ objects'[k] # Empty
        BY <3>1 DEF CommitFails
      <3>3. objects'[k] = Nullptr /\ k \in Ids
        BY <2>1, <2>2, <3>1, <3>2
      <3>4. objects[k] = geometries[k].content /\ objects[k] # Nullptr
        BY <1>1, <3>1, <3>2, Meshes, SceneAssumption DEF ObjectsThere, Geometry
      <3>5. BuiltObjects[k] # Nullptr
        BY <3>1, <3>3, <3>4 DEF BuiltObjects
      <3>6. Empty # Nullptr
        BY SceneAssumption
      <3> QED
        BY <3>3, <3>4, <3>5, <3>6 DEF CommitFails
    <2> QED
      BY <2>3, <2>4
  <1> QED
    BY <1>6, <1>7, <1>8, <1>9, <1>10 DEF SceneIndInv, SceneInv

------------------------------------------------------------------------------
LEMMA SceneInit == Init => SceneIndInv
  <1> SUFFICES ASSUME Init PROVE SceneIndInv
    OBVIOUS
  <1>1. Live = {} /\ Enabled = {}
    BY DEF Init, Live, Enabled
  <1>2. Cardinality({}) = 0
    BY FS_EmptySet
  <1>3. Count(0) = 0
    <2>1. 0 \in 0 .. WORD - 1
      BY SceneAssumption
    <2> QED
      BY <2>1, CountSmall
  <1>4. TypeOK
    <2>1. /\ 0 \in 0 .. MaxGeometries /\ 0 \in 0 .. WORD - 1 /\ 0 \in Contents /\ 0 \in Nat
          /\ 0 <= MaxGeometries
      BY SceneAssumption DEF Contents
    <2>2. /\ geometries \in Seq(Geometry \union {Nullptr}) /\ usedIDs \in Seq(Ids)
          /\ Len(geometries) = 0
      BY DEF Init
    <2> QED
      BY <2>1, <2>2 DEF Init, TypeOK
  <1>5. DeletedProperly /\ UsedDistinct
    <2>1. /\ DOMAIN usedIDs = {} /\ DOMAIN geometries = {} /\ Len(usedIDs) = 0
          /\ objects = [i \in Ids |-> Nullptr]
      BY DEF Init
    <2>2. {usedIDs[k] : k \in DOMAIN usedIDs} = {}
      BY <2>1
    <2> QED
      BY <1>1, <1>2, <2>1, <2>2 DEF DeletedProperly, UsedDistinct
  <1>6. PrimitivesCounted /\ FiltersCounted /\ MappedCounted
    BY <1>1, <1>2, <1>3 DEF Init, PrimitivesCounted, FiltersCounted, MappedCounted
  <1>7. NothingStale /\ TreeComplete /\ FiltersSelected /\ ObjectsKept /\ ObjectsThere /\ StaticKept
    BY <1>1 DEF Init, NothingStale, TreeComplete, FiltersSelected, ObjectsKept, ObjectsThere,
                StaticKept
  <1> QED
    BY <1>4, <1>5, <1>6, <1>7 DEF SceneIndInv, SceneInv

LEMMA SceneStep == SceneIndInv /\ [Next]_<<vars, Static>> => SceneIndInv'
  <1> SUFFICES ASSUME SceneIndInv, [Next]_<<vars, Static>> PROVE SceneIndInv'
    OBVIOUS
  <1>1. CASE UNCHANGED <<vars, Static>>
    <2>1. UNCHANGED <<geometries, usedIDs, numPrimitives, numIntersectionFilters, numMappedBuffers,
                      contents, is_build, modified, objects, tree, filterPath, immutable, refiltered,
                      drift, lost, missing, Static>>
      BY <1>1 DEF vars, geomVars, treeVars
    <2>2. Live' = Live /\ Enabled' = Enabled
      BY <2>1 DEF Live, Enabled
    <2> QED
      BY <2>1, <2>2 DEF SceneIndInv, SceneInv, TypeOK, NothingStale, TreeComplete, DeletedProperly,
                        PrimitivesCounted, FiltersCounted, MappedCounted, FiltersSelected,
                        UsedDistinct, ObjectsKept, ObjectsThere, StaticKept, TreeFresh,
                        TreeWhole
  <1>2. CASE Next
    <2>1. UNCHANGED Static /\ Call
      BY <1>2 DEF Next
    <2>2. CASE \E n \in {0, 1} : NewTriangleMesh(n)
      BY <2>1, <2>2, NewTriangleMeshStep
    <2>3. CASE \E i \in Ids : Enable(i)
      BY <2>1, <2>3, EnableStep
    <2>4. CASE \E i \in Ids : Disable(i)
      BY <2>1, <2>4, DisableStep
    <2>5. CASE \E i \in Ids : DeleteGeometry(i)
      BY <2>1, <2>5, DeleteGeometryStep
    <2>6. CASE \E i \in Ids : Update(i)
      BY <2>1, <2>6, UpdateStep
    <2>7. CASE \E i \in Ids, b \in BOOLEAN : SetFilter(i, b)
      BY <2>1, <2>7, SetFilterStep
    <2>8. CASE \E i \in Ids, b \in BOOLEAN : Map(i, b)
      BY <2>1, <2>8, MapStep
    <2>9. CASE Commit
      BY <2>1, <2>9, CommitStep
    <2>10. CASE CommitFails
      BY <2>1, <2>10, CommitFailsStep
    <2> QED
      BY <2>1, <2>2, <2>3, <2>4, <2>5, <2>6, <2>7, <2>8, <2>9, <2>10 DEF Call
  <1> QED
    BY <1>1, <1>2

\* Whatever the application calls, and whichever commits fail, the scene, its counters and what
\* rays see agree (scene.cpp, geometry.cpp).
THEOREM SceneInvInvariant == Spec => []SceneInv
  <1>1. SceneIndInv => SceneInv
    BY DEF SceneIndInv
  <1> QED
    BY <1>1, SceneInit, SceneStep, PTL DEF Spec
===============================================================================
