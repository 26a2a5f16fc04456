SPECIFICATION Spec
CONSTANTS
    Attempts = {a1}
    MaxPolls = 2
    MaxActivations = 2
    MaxFailures = 2
    MaxTaps = 4
PROPERTY
    TransferStaysOnScreen
CHECK_DEADLOCK FALSE
