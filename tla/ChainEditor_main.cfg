\* Chains of up to three steps, three of them told apart, mutations of up to two steps.
SPECIFICATION Spec
CONSTANTS
    None = None
    Loads <- MCLoads
    Limits = {0, 2}
    MaxSteps = 3
    MaxIds = 3
    MaxSaves = 1
    MaxEvolved = 2
INVARIANTS
    TypeOK
    SavesOwn
    FrozenKept
PROPERTIES
    DependenciesFollow
CHECK_DEADLOCK FALSE
