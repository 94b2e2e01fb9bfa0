\* The dispatcher instance of MCBlobstoreProvider.cfg, checked against the
\* invocation lifecycle it implements.
CONSTANTS
    K = 2
    Sources = {s1}
    Configs = {c1}
    Invs = {i1, i2}
    NoCtx = NoCtx
    NoLink = NoLink
    MaxResub = 1
SPECIFICATION Spec
PROPERTY LifeSpec
