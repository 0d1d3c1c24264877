SPECIFICATION FairSpec
CONSTANTS
    Workers = {w1, w2}
    Actions = {a1}
    None = None
    LeaseSeconds = 2
    MaxRetry = 2
INVARIANTS
    TypeOK
    EffectsAuthorised
    ObservationIsCurrent
    SingleHolder
PROPERTIES SettledIsFinal RunningIsResolved KeepsPromise
