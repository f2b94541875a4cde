SPECIFICATION Spec
CONSTANTS
    Apps = {a, b, c}
    MaxPosts = 2
SYMMETRY Symmetry
INVARIANTS PausePointKept NoteIsExact
