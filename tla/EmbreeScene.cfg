\* Two meshes, static and dynamic scenes, every call, commits that fail.
SPECIFICATION Spec
CONSTANTS
    MaxGeometries = 2
    MaxContents = 4
    WORD = 4
    Nullptr = Nullptr
INVARIANT SceneInv
CHECK_DEADLOCK FALSE
