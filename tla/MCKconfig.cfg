SPECIFICATION Spec
CONSTANTS
    SymType <- MCSymType
    Consts <- MCConsts
    Kconfigs <- MCKconfigs
    Configurable <- MCConfigurable
    Answers <- MCAnswers
    Draws <- MCDraws
    MaxSteps = 3
    Missing = Missing
INVARIANTS
    ConditionsKept
    LoopsAreFound
    NoStaleValues
    DependenciesHold
    SavedReadsBack
    DefconfigReadsBack
    ConfigNeverLost
    ChangedIsTouched

    
CHECK_DEADLOCK FALSE
