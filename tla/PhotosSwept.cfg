SPECIFICATION Spec
CONSTANTS
    File = {f1, f2}
    MaxPost = 2
CHECK_DEADLOCK FALSE
INVARIANTS KeptIsThere
