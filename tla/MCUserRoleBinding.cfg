CONSTANTS
    Bindings <- TwoBindings
    Roles <- TwoRoles
    Subjects <- TwoSubjects
    Specs <- ThreeSpecs
    Foreign <- OneOther
    MaxEdits = 1
    MaxTroubles = 1
SPECIFICATION Spec
PROPERTIES
    KeepsOthersSubjects
    GrantsHold
    RevokedSubjectsLeave
