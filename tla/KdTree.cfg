\* The tree of a mesh in turbo, of triangles, and that of a scene in Go, of
\* triangles and cubes.
CONSTANTS
    TurboScenes <- TriangleScenes
    GoScenes <- MixedScenes
    Origins <- Level
    Directions <- Flat
SPECIFICATION Spec
INVARIANTS
    LeavesComplete
    NearestHit
CHECK_DEADLOCK FALSE
