CONSTANTS
    NULL = NULL
    Atoi <- MCAtoi
    Truths = {"true", "TRUE"}
    OptionSets <- MCOptionSets
    ConfFiles <- MCConfFiles
    UsableDirs <- MCUsableDirs
SPECIFICATION FairSpec
INVARIANTS
    SettingsRead
    RunsAsTold
    
    ReleasedAtEnd
PROPERTIES
    SigintStops
CHECK_DEADLOCK FALSE
