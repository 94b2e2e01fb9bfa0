\* Link commands racing handler tasks: two sources, two configurations, one
\* kind of stream and one invocation, so that shutdown, delete_link and two
\* put_links interleave with a task's client() lookup.
CONSTANTS
    K = 1
    Sources = {s1, s2}
    Configs = {c1, c2}
    Invs = {i1}
    NoCtx = NoCtx
    NoLink = NoLink
    MaxResub = 1
SPECIFICATION Spec
INVARIANTS
    OkReplyHadLink
