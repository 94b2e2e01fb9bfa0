CONSTANTS
    NKeys = 2
    PageSize = 1
    Bases <- MCBases
    Empty = ""
    Buckets <- MCBuckets
    MaxMk = 2
    Tasks = {t1}
    Invocations <- RangeInvocations
    ProvAliases <- MCProvAliases
    LinkValues <- MCLinkValues
    NoLimit = NoLimit
SPECIFICATION Spec
\* One invocation: once it is answered the provider waits for more.
CHECK_DEADLOCK FALSE
INVARIANT RangeRejected
