CONSTANTS
    Task = {t1}
    MaxTokens = 3
    MaxCalls = 2
SPECIFICATION Spec
INVARIANT ExpiryIsSurvived
CHECK_DEADLOCK FALSE
