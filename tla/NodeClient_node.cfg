CONSTANTS
    MaxStreams = 2
    MaxRev = 2
    Families = {v4}
    MaxBackoff = 2
SPECIFICATION Spec
INVARIANTS FirstIsRegister ReportFitsConfig
PROPERTIES DeadStreamReplaced ApprovalWakes
CHECK_DEADLOCK FALSE
