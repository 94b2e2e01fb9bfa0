CONSTANTS
    NKeys = 2
    PageSize = 1
    Bases <- MCBases
    Empty = ""
    Buckets <- MCBuckets
    MaxMk = 2
    Tasks = {t1, t2}
    Invocations <- MainInvocations
    ProvAliases <- MCProvAliases
    LinkValues <- MCLinkValues
    NoLimit = NoLimit
SPECIFICATION Spec
\* The plan is finite: once both tasks have answered, the provider waits
\* for invocations the model does not send.
CHECK_DEADLOCK FALSE
INVARIANT AliasMergeRule
PROPERTY MoveKeepsObject
