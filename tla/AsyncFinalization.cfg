CONSTANTS
    Fids = {f1, f2}
    Scenarios = {sc}
    Codes = {"USER_CANCELLED", "PROVER_INPUT_UPLOAD_FAILED", "SQS_PUBLISH_FAILED",
             "PROVER_IMAGE_SIGNATURE_FAILED", "PROVER_TASK_FAILED",
             "FINALIZATION_BUNDLE_RESTORE_FAILED", "FINALIZATION_DISPATCH_TIMEOUT",
             "FINALIZATION_OUTCOME_UNRECORDED", "PROVER_EXECUTION_FAILED", "PROVER_EXECUTION_ABORTED"}
    NoScenario = NoScenario
    NoRecord = NoRecord
    Dispatchers = {d1, d2}
    Grace = 1
    Deadline = 1
    Horizon = 1
    MaxReceives = 2
    MaxRetries = 1
    MaxFaults = 1
    LateContainers = TRUE
    r1 = r1
    r2 = r2
    r3 = r3
    r4 = r4
SYMMETRY Symmetry
SPECIFICATION SuiteSpec
INVARIANTS
    AttemptIsOne
    SuccessIsTrue
PROPERTIES
    OutcomeEndsWork
    HostEndsClean
    FileStoreSound
CHECK_DEADLOCK FALSE
