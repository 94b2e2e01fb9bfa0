\* put_link builds its client outside the write lock: a delete_link of the
\* same source that runs meanwhile is undone by the insert that follows.
CONSTANTS
    K = 1
    Sources = {s1}
    Configs = {c1}
    Invs = {}
    NoCtx = NoCtx
    NoLink = NoLink
    MaxResub = 0
SPECIFICATION Spec
INVARIANT RegistryFollowsHost
