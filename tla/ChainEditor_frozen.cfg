\* Mutations of up to two steps that repeat the number of a frozen step.
SPECIFICATION Spec
CONSTANTS
    None = None
    Loads <- MCLoads
    Limits = {0, 2}
    MaxSteps = 3
    MaxIds = 3
    MaxSaves = 1
    MaxEvolved = 2
INVARIANTS
    CollidingDropped
CHECK_DEADLOCK FALSE
