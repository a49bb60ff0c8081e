----------------------------- MODULE EmbreeScene -----------------------------
(* A scene of triangle meshes between the calls of the application: adding,    *)
(* changing and deleting geometries, and commits, which may fail.  A dynamic   *)
(* scene keeps a hierarchy per mesh below the one of the scene, and builds     *)
(* only those of modified meshes; a static scene is built once.                *)
(* Source: src/embree/kernels/common/{scene,geometry,buffer}.cpp and           *)
(* kernels/bvh/bvh_builder_twolevel.cpp.                                       *)
EXTENDS Integers, Sequences, FiniteSets

CONSTANTS MaxGeometries, MaxContents,  \* bounds of the model
          WORD,            \* a size_t counter that falls below zero is large
          Nullptr

Ids == 1 .. MaxGeometries
Contents == 0 .. MaxContents
Empty == -1
Count(n) == n % WORD
Geometry == [prims : {0, 1}, enabled : BOOLEAN, modified : BOOLEAN, filter : BOOLEAN,
             mapped : BOOLEAN, content : Contents]

\* There are fewer meshes than a word counts.
ASSUME SceneAssumption ==
    /\ MaxGeometries \in Nat \ {0} /\ MaxContents \in Nat \ {0}
    /\ WORD \in Nat /\ MaxGeometries < WORD
    /\ Nullptr \notin Geometry \union Contents \union {Empty}

VARIABLES geometries,        \* the meshes by ID, Nullptr where one was deleted
          usedIDs,           \* the stack of free IDs
          numPrimitives,     \* world1.numTriangles
          numIntersectionFilters, numMappedBuffers,
          is_build, modified,
          objects,           \* of an ID: what its hierarchy holds, -1 empty, Nullptr none
          tree,              \* the hierarchy that rays see: meshes and their content
          filterPath,        \* the intersectors that call filters are selected
          immutable,         \* the builders are deleted
          Static,            \* a flag of the scene, chosen when it is made
          refiltered,        \* history: a filter was set since they were selected
          drift,             \* history: filters counted, less those uncounted, that are not enabled
          lost,              \* history: meshes deleted with a mapped buffer
          missing,           \* history: meshes that no build takes before they are updated
          contents           \* history: contents written so far

geomVars == <<geometries, usedIDs, numPrimitives, numIntersectionFilters, numMappedBuffers, contents>>
treeVars == <<objects, tree, filterPath, immutable>>
vars == <<geomVars, is_build, modified, treeVars, refiltered, drift, lost, missing>>

Init == /\ geometries = <<>> /\ usedIDs = <<>>
        /\ numPrimitives = 0 /\ numIntersectionFilters = 0 /\ numMappedBuffers = 0
        /\ is_build = FALSE /\ modified = TRUE
        /\ objects = [i \in Ids |-> Nullptr] /\ tree = {}
        /\ filterPath = FALSE /\ immutable = FALSE
        /\ Static \in BOOLEAN
        /\ refiltered = FALSE /\ contents = 0 /\ drift = 0 /\ lost = 0 /\ missing = {}

Live == {i \in DOMAIN geometries : geometries[i] # Nullptr}
IsEnabled(g) == g.prims > 0 /\ g.enabled
Enabled == {i \in Live : IsEnabled(geometries[i])}
Frozen == Static /\ is_build     \* "static scenes cannot get modified"
Filters(g) == IF g.filter THEN 1 ELSE 0

------------------------------------------------------------------------------
\* Calls of the application

NewTriangleMesh(n) ==
    LET geom == [prims |-> n, enabled |-> TRUE, modified |-> TRUE, filter |-> FALSE,
                 mapped |-> FALSE, content |-> contents + 1]
    IN /\ contents < MaxContents /\ contents' = contents + 1
       /\ \/ /\ usedIDs # <<>>
             /\ geometries' = [geometries EXCEPT ![usedIDs[Len(usedIDs)]] = geom]
             /\ usedIDs' = SubSeq(usedIDs, 1, Len(usedIDs) - 1)
          \/ /\ usedIDs = <<>> /\ Len(geometries) < MaxGeometries
             /\ geometries' = Append(geometries, geom) /\ UNCHANGED usedIDs
       /\ numPrimitives' = numPrimitives + n /\ modified' = TRUE
       /\ missing' = IF immutable THEN missing \union (Live' \ Live) ELSE missing
       /\ UNCHANGED <<numIntersectionFilters, numMappedBuffers, is_build, treeVars, refiltered, drift, lost>>

\* What enable() and disable() do to the scene; f is 1 or -1.
Switch(i, f) ==
    /\ numPrimitives' = numPrimitives + f * geometries[i].prims
    /\ numIntersectionFilters' = Count(numIntersectionFilters + f * Filters(geometries[i]))
    /\ modified' = TRUE

Enable(i) ==
    /\ ~Frozen /\ i \in Live \ Enabled
    /\ Switch(i, 1)
    /\ geometries' = [geometries EXCEPT ![i].enabled = TRUE]
    /\ drift' = IF geometries[i].prims = 0 THEN Count(drift + Filters(geometries[i])) ELSE drift
    /\ UNCHANGED <<usedIDs, numMappedBuffers, contents, is_build, treeVars, refiltered, lost, missing>>

Disable(i) ==
    /\ ~Frozen /\ i \in Enabled
    /\ Switch(i, -1)
    /\ geometries' = [geometries EXCEPT ![i].enabled = FALSE]
    /\ UNCHANGED <<usedIDs, numMappedBuffers, contents, is_build, treeVars, refiltered, drift, lost,
                   missing>>

DeleteGeometry(i) ==
    /\ ~Static /\ i \in Live
    /\ lost' = lost + (IF geometries[i].mapped THEN 1 ELSE 0)
    /\ IF i \in Enabled THEN Switch(i, -1)
       ELSE UNCHANGED <<numPrimitives, numIntersectionFilters, modified>>
    /\ objects' = [objects EXCEPT ![i] = Nullptr]
    /\ usedIDs' = Append(usedIDs, i)
    /\ geometries' = [geometries EXCEPT ![i] = Nullptr] /\ missing' = missing \ {i}
    /\ UNCHANGED <<numMappedBuffers, contents, is_build, tree, filterPath, immutable, refiltered,
                   drift>>

\* The application changes the data and calls rtcUpdate.
Update(i) ==
    /\ ~Frozen /\ i \in Live /\ contents < MaxContents
    /\ contents' = contents + 1 /\ modified' = TRUE /\ missing' = missing \ {i}
    /\ geometries' = [geometries EXCEPT ![i].modified = TRUE, ![i].content = contents + 1]
    /\ UNCHANGED <<usedIDs, numPrimitives, numIntersectionFilters, numMappedBuffers, is_build,
                   treeVars, refiltered, drift, lost>>

\* setIntersectionFilterFunction4 and its likes; the scene is not marked as modified.
SetFilter(i, f) ==
    /\ ~Frozen /\ i \in Live
    /\ geometries' = [geometries EXCEPT ![i].filter = f]
    /\ numIntersectionFilters' =
           Count(numIntersectionFilters - Filters(geometries[i]) + (IF f THEN 1 ELSE 0))
    /\ drift' = IF i \in Enabled THEN drift
                ELSE Count(drift - Filters(geometries[i]) + (IF f THEN 1 ELSE 0))
    /\ refiltered' = TRUE
    /\ UNCHANGED <<usedIDs, numPrimitives, numMappedBuffers, contents, is_build, modified, treeVars,
                   lost, missing>>

\* rtcMapBuffer (b) and rtcUnmapBuffer
Map(i, b) ==
    /\ ~Frozen /\ i \in Live /\ geometries[i].mapped # b
    /\ geometries' = [geometries EXCEPT ![i].mapped = b]
    /\ numMappedBuffers' = numMappedBuffers + (IF b THEN 1 ELSE -1)
    /\ UNCHANGED <<usedIDs, numPrimitives, numIntersectionFilters, contents, is_build, modified,
                   treeVars, refiltered, drift, lost, missing>>

------------------------------------------------------------------------------
\* rtcCommit

select == filterPath' = (numIntersectionFilters # 0) /\ refiltered' = FALSE

\* The hierarchies of the meshes after the two loops of the two-level builder
BuiltObjects ==
    [i \in Ids |->
        IF i \notin Live THEN objects[i]
        ELSE IF i \in Enabled /\ geometries[i].modified THEN geometries[i].content
        ELSE IF objects[i] = Nullptr THEN Empty ELSE objects[i]]

BuildTwoLevel ==
    IF numPrimitives = 0 THEN tree' = {} /\ UNCHANGED objects
    ELSE /\ objects' = BuiltObjects
         /\ tree' = {[id |-> i, content |-> objects'[i]] :
                        i \in {k \in Enabled : objects'[k] # Empty}}

\* The builder of a static scene takes all meshes, and is deleted when it is done.
BuildStatic ==
    /\ UNCHANGED objects
    /\ IF immutable THEN UNCHANGED tree
       ELSE tree' = {[id |-> i, content |-> geometries[i].content] : i \in Enabled}

\* Mutant of Commit.
CommitClearsAll ==
    /\ modified /\ numMappedBuffers = 0
    /\ select
    /\ IF Static THEN BuildStatic ELSE BuildTwoLevel
    /\ immutable' = Static
    /\ geometries' = [i \in DOMAIN geometries |->
                         IF i \in Live THEN [geometries[i] EXCEPT !.modified = FALSE]
                         ELSE geometries[i]]
    /\ is_build' = TRUE /\ modified' = FALSE
    /\ UNCHANGED <<usedIDs, numPrimitives, numIntersectionFilters, numMappedBuffers, contents,
                   drift, lost, missing>>

\* A scene that is not modified, or has a mapped buffer, is left as it is.
Commit ==
    /\ modified /\ numMappedBuffers = 0
    /\ select
    /\ IF Static THEN BuildStatic ELSE BuildTwoLevel
    /\ immutable' = Static
    /\ geometries' = [i \in DOMAIN geometries |->
                         IF i \in Enabled THEN [geometries[i] EXCEPT !.modified = FALSE]
                         ELSE geometries[i]]
    /\ is_build' = TRUE /\ modified' = FALSE
    /\ UNCHANGED <<usedIDs, numPrimitives, numIntersectionFilters, numMappedBuffers, contents,
                   drift, lost, missing>>

\* A builder throws: out of memory, or the progress monitor cancels.  The next commit builds again
\* with TBB; with Embree's own tasks it finds the scheduler of this one and does nothing.
CommitFails ==
    /\ modified /\ numMappedBuffers = 0 /\ numPrimitives > 0 /\ ~immutable
    /\ select
    /\ tree' = {}
    /\ \/ objects' = [i \in Ids |-> IF objects[i] = Nullptr THEN Nullptr ELSE Empty]
       \/ ~Static /\ objects' = [i \in Ids |-> IF BuiltObjects[i] = Nullptr THEN Nullptr ELSE Empty]
    /\ is_build' = TRUE
    /\ missing' = missing \union {i \in Live : objects'[i] = Empty /\ ~geometries[i].modified}
    /\ UNCHANGED <<geomVars, modified, immutable, drift, lost>>

Call == \/ \E n \in {0, 1} : NewTriangleMesh(n)
        \/ \E i \in Ids : \/ Enable(i) \/ Disable(i) \/ DeleteGeometry(i) \/ Update(i)
                          \/ \E b \in BOOLEAN : SetFilter(i, b) \/ Map(i, b)
        \/ Commit \/ CommitFails

Next == Call /\ UNCHANGED Static

Spec == Init /\ [][Next]_<<vars, Static>>

------------------------------------------------------------------------------
\* The kinds of the state, and the bounds of the counters.
TypeOK ==
    /\ geometries \in Seq(Geometry \union {Nullptr}) /\ Len(geometries) <= MaxGeometries
    /\ usedIDs \in Seq(Ids) /\ numPrimitives \in 0 .. MaxGeometries
    /\ numIntersectionFilters \in 0 .. WORD - 1 /\ numMappedBuffers \in Nat
    /\ is_build \in BOOLEAN /\ modified \in BOOLEAN
    /\ objects \in [Ids -> Contents \union {Empty, Nullptr}]
    /\ tree \subseteq [id : Ids, content : Contents]
    /\ filterPath \in BOOLEAN /\ immutable \in BOOLEAN
    /\ Static \in BOOLEAN /\ refiltered \in BOOLEAN /\ contents \in Contents
    /\ drift \in 0 .. WORD - 1 /\ lost \in Nat /\ missing \subseteq Ids

\* What rays may see of a scene that needs no commit is what the application wrote last into
\* meshes that are enabled, whatever was deleted, reused, switched off and on or failed before.
NothingStale ==
    ~modified => \A r \in tree : /\ r.id \in Enabled
                                 /\ r.content = geometries[r.id].content

\* And it is all of them, in whatever order they were switched off and on, updated and built, but
\* for two kinds of meshes that no build takes: those that were not modified when a failed commit
\* cleared their hierarchies, and those added to a static scene after it was built.
TreeComplete ==
    ~modified => \A i \in Enabled \ missing :
                     [id |-> i, content |-> geometries[i].content] \in tree

\* An ID is free or stands for a mesh, never both, and no hierarchy is left under a free one: the
\* two-level builder asserts that meshes were deleted properly.
DeletedProperly ==
    /\ \A i \in Ids : i \notin Live => objects[i] = Nullptr
    /\ Cardinality({usedIDs[k] : k \in DOMAIN usedIDs}) = Len(usedIDs)
    /\ {usedIDs[k] : k \in DOMAIN usedIDs} = DOMAIN geometries \ Live

\* The counters of the scene agree with its meshes, since builders size their arrays and skip
\* whole builds by them.
PrimitivesCounted == numPrimitives = Cardinality(Enabled)

\* The number of filters of enabled meshes, but for those that were set, reset or enabled
\* on a mesh that is disabled or empty: a filter set on a disabled mesh is counted at once,
\* and again when the mesh is enabled.
FiltersCounted ==
    numIntersectionFilters =
        Count(Cardinality({i \in Enabled : geometries[i].filter}) + drift)

\* The number of mapped buffers, which must fall to zero before the scene can be built, and those
\* of meshes that were deleted: one such leaves the scene without a build for ever.
MappedCounted == numMappedBuffers = Cardinality({i \in Live : geometries[i].mapped}) + lost

\* Rays take the intersectors that call filters exactly when there is a filter to call, but
\* for filters set since the last build.
FiltersSelected ==
    ~modified /\ ~refiltered /\ drift = 0 => (filterPath <=> \E i \in Enabled : geometries[i].filter)

\* The scene and its hierarchy agree in everything above.
SceneInv == /\ TypeOK /\ NothingStale /\ TreeComplete /\ DeletedProperly /\ PrimitivesCounted
            /\ FiltersCounted /\ MappedCounted /\ FiltersSelected
==============================================================================
