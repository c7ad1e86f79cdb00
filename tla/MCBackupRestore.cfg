SPECIFICATION Spec
CONSTANTS
    Restores = {r1, r2}
    Paths = {cfg, doc}
    ConfigPath = cfg
PROPERTIES
    ConfigRestored
