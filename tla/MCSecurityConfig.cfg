SPECIFICATION Spec
CONSTANTS
    Confs <- TwoSetups
    Sources <- TwoSources
    Passwords = {1, 2}
    MaxRetryDelay = 3
    MaxEvents = 2
    None = None
INVARIANTS FilledCompletely
PROPERTIES ReadyMeansApplied ConfigIsApplied
