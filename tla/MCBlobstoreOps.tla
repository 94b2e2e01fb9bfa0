---------------------------- MODULE MCBlobstoreOps ----------------------------
(* Instances of BlobstoreOps for TLC: two buckets a and b, two keys, the    *)
(* link aliasing "pics" to a over the provider's alias of "pics" to b, and  *)
(* one set of invocations per question asked.                               *)
EXTENDS BlobstoreOps, TLC

N(m, b) == [mk |-> m, base |-> b]
A == N(0, "a")
B == N(0, "b")
Pics == N(0, "pics")
AliasPics == N(1, "pics")

MCBases == {"", "a", "b", "pics"}
MCBuckets == {A, B}
MCProvAliases == Pics :> B
\* alias_pics=a, and an alias_ key with an empty alias, which is skipped.
MCLinkValues == {<<AliasPics, A>>, <<N(1, ""), B>>}

\* Every handler, on a plain name, an alias and a missing bucket.
MainInvocations ==
    {[op |-> "move", c |-> AliasPics, k |-> 1, dc |-> B, dk |-> 1],
     [op |-> "move", c |-> A, k |-> 1, dc |-> Pics, dk |-> 1],
     [op |-> "copy", c |-> A, k |-> 2, dc |-> B, dk |-> 1],
     [op |-> "write", c |-> Pics, k |-> 1],
     [op |-> "clear", c |-> B],
     [op |-> "deletemany", c |-> A, ks |-> {1, 2}],
     [op |-> "deletemany", c |-> B, ks |-> {}],
     [op |-> "delete", c |-> B, k |-> 1],
     [op |-> "list", c |-> A, limit |-> NoLimit, offset |-> NoLimit],
     [op |-> "getdata", c |-> A, k |-> 1, start |-> 0, end |-> 1],
     [op |-> "has", c |-> AliasPics, k |-> 1],
     [op |-> "objinfo", c |-> A, k |-> 2],
     [op |-> "exists", c |-> B],
     [op |-> "info", c |-> N(0, "")],
     [op |-> "create", c |-> B],
     [op |-> "deletecontainer", c |-> B]}

\* A page of one key asked for with an offset.
ListInvocations == {[op |-> "list", c |-> A, limit |-> 1, offset |-> 1]}

ClearInvocations == {[op |-> "clear", c |-> A]}

\* start = end: an empty range.
RangeInvocations == {[op |-> "getdata", c |-> A, k |-> 1, start |-> 1, end |-> 1]}

\* A name carrying two alias_ prefixes.
AliasInvocations == {[op |-> "exists", c |-> N(2, "pics")]}

=============================================================================
