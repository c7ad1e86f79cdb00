SPECIFICATION Spec
CONSTANTS
    Commands = {c1, c2}
    Sessions = {s1}
    MaxRotation = 2
    MaxKeys = 2
INVARIANTS
    StatusIsHonest
