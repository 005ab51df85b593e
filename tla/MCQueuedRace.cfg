\* Two kernel processes race over one task: dispatch, cancellation, recovery
\* and review, with the fence changing hands once.
CONSTANTS
    Tasks = {t1}
    Workers = {w1, w2}
    NoWorker = NoWorker
    NoTask = NoTask
    NoAttempt = NoAttempt
    OwnerStates = {"canceled"}
    AuthLife = 3
    GuardLife = 3
    CallTimeout = 1
    MaxTime = 4
    MaxSeq = 2
SYMMETRY WorkerSymmetry
SPECIFICATION Spec
INVARIANTS
    EffectIsTheAttempt
PROPERTIES
    EffectUnderAuthority DecisionUnderPolicy ImplementsOneShot
