\* One kernel process, and an embedding service that pauses, resumes and fails
\* the task: what was dispatched can be settled, and the slot is freed.
CONSTANTS
    Tasks = {t1}
    Workers = {w1}
    NoWorker = NoWorker
    NoTask = NoTask
    NoAttempt = NoAttempt
    OwnerStates = {"working", "input-required", "failed"}
    AuthLife = 3
    GuardLife = 2
    CallTimeout = 1
    MaxTime = 4
    MaxSeq = 3
SPECIFICATION FairSpec
INVARIANTS
    TypeOK EffectSettleable MoneyFollowsEvidence
PROPERTIES
    EndedTaskStaysEnded  SlotReleased
