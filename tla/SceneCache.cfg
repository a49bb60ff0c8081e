\* Two meshes of a pool of triangles that can be shared and copied.
CONSTANTS
    Meshes = {m1, m2}
    Triangles = {t1, t2, t3}
    Places = {1, 2, 3}
    MaxHeld = 2
SYMMETRY Symmetry
CONSTRAINT PointerBound
SPECIFICATION Spec
INVARIANTS
    TypeOK
    UnsharedFresh
PROPERTIES
    StaleOnlyByAliasing
    MoveToLands
    CompileIndexes
CHECK_DEADLOCK FALSE
