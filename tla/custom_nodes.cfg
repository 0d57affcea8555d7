CONSTANTS
    Index <- MCIndex
    Letters <- MCLetters
    Dotted <- MCDotted
    Depth <- MCDepth
    KafkaVariable = "true"
    Inputs <- MCInputs

SPECIFICATION Spec
CHECK_DEADLOCK FALSE
INVARIANTS
    ComparePartition
    RemapAccounted
    FilterPartition
    FailuresShow
    RunnableIsSavable
