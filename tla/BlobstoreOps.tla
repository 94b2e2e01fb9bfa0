----------------------------- MODULE BlobstoreOps -----------------------------
(***************************************************************************)
(* What the operation handlers of the blobstore-s3 provider do to the S3   *)
(* store (src/crates/provider-blobstore-s3/src/lib.rs, serve_* and         *)
(* StorageClient).  Each task runs the handler of one invocation of the    *)
(* set Invocations, with the client of one link already looked up (the dispatcher    *)
(* and the link registry are module BlobstoreProvider).  Tasks interleave  *)
(* at every backend call, so a composite handler (clear-container, move-   *)
(* object) races the others on the shared store.                           *)
(*                                                                         *)
(* Data: object keys are 1..NKeys in S3's listing order; a container name  *)
(* is a record: `mk` copies of the "alias_" prefix before a base name.     *)
(***************************************************************************)
EXTENDS Naturals, Sequences, FiniteSets

CONSTANTS
    NKeys,      \* object keys 1..NKeys
    PageSize,   \* most keys one ListObjectsV2 call returns (1000 on S3)
    Bases,      \* base names of containers
    Buckets,    \* the bucket names of the S3 account
    Empty,      \* the empty base name, a member of Bases
    MaxMk,      \* most alias_ prefixes on one name
    Tasks,      \* handler tasks
    Invocations,\* the invocations a task may serve: records with field op
    ProvAliases,\* StorageConfig.aliases: a function from names to names
    LinkValues, \* the link's config values: a set of <<key, value>> names
    NoLimit     \* Option::None for limit and offset

Keys == 1..NKeys

Names == [mk: 0..MaxMk, base: Bases]

ASSUME OpsAssumptions ==
    /\ NKeys \in Nat /\ PageSize \in Nat \ {0} /\ MaxMk \in Nat
    /\ Empty \in Bases
    \* S3 bucket names have no underscore, hence no alias_ prefix, and are not empty.
    /\ Buckets \subseteq {n \in Names : n.mk = 0 /\ n.base # Empty}
    /\ NoLimit \notin Nat
    /\ DOMAIN ProvAliases \subseteq Names /\ LinkValues \subseteq Names \X Names

\* config_values is a HashMap<String, String>: one value per key.
ASSUME LinkValuesMap == \A a, b \in LinkValues : a[1] = b[1] => a = b

\* The container names an invocation carries are names of the model, and
\* its object names are object keys of the model.
ASSUME InvocationData ==
    \A v \in Invocations :
        /\ v.c \in Names
        /\ v.op \in {"copy", "move"} => v.dc \in Names
        /\ v.op \in {"write", "delete", "getdata", "has", "objinfo", "copy", "move"} => v.k \in Keys
        /\ v.op \in {"copy", "move"} => v.dk \in Keys
        /\ v.op = "deletemany" => v.ks \subseteq Keys

-----------------------------------------------------------------------------
(* The alias resolver.                                                      *)

\* `strip_prefix(ALIAS_PREFIX)`: the name without its first alias_, if any.
StripPrefix(n) == [n EXCEPT !.mk = @ - 1]

IsEmptyName(n) == n.mk = 0 /\ n.base = Empty

\* StorageClient::new: the provider's aliases, extended and overridden by
\* every link value keyed alias_<alias>, skipping an empty alias or value.
\* The config values are a HashMap, so a key occurs once.
LinkAliases == {<<StripPrefix(kv[1]), kv[2]>> :
                    kv \in {kv \in LinkValues : kv[1].mk > 0 /\ ~IsEmptyName(StripPrefix(kv[1]))
                                                /\ ~IsEmptyName(kv[2])}}

\* Mutant: the provider's aliases are applied last, so they win over the
\* link's alias_ entries.
AliasesProviderFirst ==
    [n \in DOMAIN ProvAliases \cup {a[1] : a \in LinkAliases} |->
        IF n \in DOMAIN ProvAliases THEN ProvAliases[n]
        ELSE (CHOOSE a \in LinkAliases : a[1] = n)[2]]

Aliases == [n \in DOMAIN ProvAliases \cup {a[1] : a \in LinkAliases} |->
               IF \E a \in LinkAliases : a[1] = n
               THEN (CHOOSE a \in LinkAliases : a[1] = n)[2]
               ELSE ProvAliases[n]]

\* StorageClient::unalias: strip one alias_ prefix, then map the name
\* through the alias table if it is a key of it.
Unalias(n) ==
    LET name == IF n.mk > 0 THEN StripPrefix(n) ELSE n
    IN  IF name \in DOMAIN Aliases THEN Aliases[name] ELSE name

-----------------------------------------------------------------------------
(* Listing.                                                                 *)

\* The keys of S in S3's listing order: 1..NKeys is that order.
Sorted(S) == SelectSeq([i \in Keys |-> i], LAMBDA k : k \in S)

\* `.collect::<HashSet<_>>()` of a listed page.
ToSet(s) == {s[i] : i \in DOMAIN s}

\* The iterator adapters .skip(n) and .take(n).
Skip(s, n) == IF n >= Len(s) THEN <<>> ELSE SubSeq(s, n + 1, Len(s))
Take(s, n) == IF n >= Len(s) THEN s ELSE SubSeq(s, 1, n)

\* The one ListObjectsV2 page: max_keys is the limit (None: the service
\* default), capped by the service at PageSize; keys come in order.
Page(keys, limit) ==
    Take(Sorted(keys), IF limit = NoLimit \/ limit > PageSize THEN PageSize ELSE limit)

\* StorageClient::list_container_objects: skip offset, take limit of the page.
ListObjects(keys, limit, offset) ==
    LET skipped == Skip(Page(keys, limit), IF offset = NoLimit THEN 0 ELSE offset)
    IN  IF limit = NoLimit THEN skipped ELSE Take(skipped, limit)

\* What spec.md section 4.4 promises: skip offset, take limit of all names.
SpecList(keys, limit, offset) ==
    LET skipped == Skip(Sorted(keys), IF offset = NoLimit THEN 0 ELSE offset)
    IN  IF limit = NoLimit THEN skipped ELSE Take(skipped, limit)

-----------------------------------------------------------------------------
VARIABLES
    inv,        \* inv[t]: the invocation task t serves
    live,       \* the buckets that exist
    store,      \* store[b]: the keys of the objects in bucket b
    pc,         \* pc[t]: "init", "second" (between the two calls of a
                \* composite handler) or "done"
    snap,       \* snap[t]: the keys clear-container listed
    res,        \* res[t]: "none", or the result transmitted: "ok" or "err"
    out         \* out[t]: the value of an ok result: a key list or a Boolean

\* The value of a result: the names list-container-objects returns, or the
\* Boolean of container-exists and has-object.
NoValue == [keys |-> <<>>, flag |-> FALSE]
KeysValue(s) == [NoValue EXCEPT !.keys = s]
FlagValue(b) == [NoValue EXCEPT !.flag = b]

vars == <<inv, live, store, pc, snap, res, out>>

TypeOK ==
    /\ inv \in [Tasks -> Invocations]
    /\ live \subseteq Buckets
    /\ store \in [Buckets -> SUBSET Keys]
    /\ pc \in [Tasks -> {"init", "second", "done"}]
    /\ snap \in [Tasks -> SUBSET Keys]
    /\ res \in [Tasks -> {"none", "ok", "err"}]
    /\ out \in [Tasks -> [keys: Seq(Keys), flag: BOOLEAN]]

Init ==
    /\ inv \in [Tasks -> Invocations]
    /\ live \in SUBSET Buckets
    /\ store \in [Buckets -> SUBSET Keys]
    /\ \A b \in Buckets \ live : store[b] = {}
    /\ pc = [t \in Tasks |-> "init"]
    /\ snap = [t \in Tasks |-> {}]
    /\ res = [t \in Tasks |-> "none"]
    /\ out = [t \in Tasks |-> NoValue]

\* The name resolves to a bucket that exists; any other name makes the
\* backend call fail (NoSuchBucket, or an invalid bucket name).
Usable(n) == Unalias(n) \in live

\* The handler transmits its result r (with value o) and ends.
Finish(t, r, o) ==
    /\ pc' = [pc EXCEPT ![t] = "done"]
    /\ res' = [res EXCEPT ![t] = r]
    /\ out' = [out EXCEPT ![t] = o]

\* A backend call fails (service, network or not-found error): the error
\* is transmitted and the store is left alone.
Fail(t) == Finish(t, "err", NoValue) /\ UNCHANGED <<live, store, snap>>

Put(b, k) == store' = [store EXCEPT ![b] = @ \cup {k}]
Del(b, ks) == store' = [store EXCEPT ![b] = @ \ ks]

Op(t) == inv[t].op
Init1(t, op) == pc[t] = "init" /\ Op(t) = op

-----------------------------------------------------------------------------
(* The handlers, one action per backend call.                               *)

\* serve_list_container_objects.
ListContainerObjects(t) ==
    /\ Init1(t, "list")
    /\ \/ /\ Usable(inv[t].c)
          /\ Finish(t, "ok", KeysValue(ListObjects(store[Unalias(inv[t].c)], inv[t].limit,
                                                   inv[t].offset)))
          /\ UNCHANGED <<live, store, snap>>
       \/ Fail(t)

\* serve_clear_container, first call: list_container_objects(bucket, None, None).
ClearList(t) ==
    /\ Init1(t, "clear")
    /\ \/ /\ Usable(inv[t].c)
          /\ snap' = [snap EXCEPT ![t] = ToSet(ListObjects(store[Unalias(inv[t].c)],
                                                           NoLimit, NoLimit))]
          /\ pc' = [pc EXCEPT ![t] = "second"]
          /\ UNCHANGED <<live, store, res, out>>
       \/ Fail(t)

\* StorageClient::delete_objects(bucket, ks): nothing to delete returns Ok
\* without a call; otherwise one DeleteObjects call that deletes the keys
\* but those it reports errors for, and any reported error is an Err.
DeleteObjectsCall(t, n, ks) ==
    \/ /\ ks = {}
       /\ Finish(t, "ok", NoValue)
       /\ UNCHANGED <<live, store, snap>>
    \/ /\ ks # {}
       /\ Usable(n)
       /\ \E failed \in SUBSET ks :
            /\ Del(Unalias(n), ks \ failed)
            /\ Finish(t, IF failed = {} THEN "ok" ELSE "err", NoValue)
       /\ UNCHANGED <<live, snap>>
    \/ ks # {} /\ Fail(t)

\* serve_clear_container, second call: delete what was listed.
ClearDelete(t) ==
    /\ pc[t] = "second" /\ Op(t) = "clear"
    /\ DeleteObjectsCall(t, inv[t].c, snap[t])

\* serve_delete_objects.
DeleteObjects(t) ==
    /\ Init1(t, "deletemany")
    /\ DeleteObjectsCall(t, inv[t].c, inv[t].ks)

\* copy_object(src_bucket, src_key, dest_bucket, dest_key): CopyObject
\* fails when the source object is missing, and S3 refuses to copy an
\* object onto itself.
CopyCall(p) ==
    /\ Usable(p.c) /\ Usable(p.dc)
    /\ p.k \in store[Unalias(p.c)]
    /\ <<Unalias(p.c), p.k>> # <<Unalias(p.dc), p.dk>>
    /\ Put(Unalias(p.dc), p.dk)

\* serve_copy_object.
CopyObject(t) ==
    /\ Init1(t, "copy")
    /\ \/ CopyCall(inv[t]) /\ Finish(t, "ok", NoValue) /\ UNCHANGED <<live, snap>>
       \/ Fail(t)

\* Mutant: the copy's error is not propagated (a dropped `?`), so the
\* source is deleted after a failed copy.
MoveCopyIgnoreError(t) ==
    /\ Init1(t, "move")
    /\ \/ CopyCall(inv[t])
       \/ UNCHANGED store
    /\ pc' = [pc EXCEPT ![t] = "second"]
    /\ UNCHANGED <<live, snap, res, out>>

\* serve_move_object, first call: copy; an error returns before the delete.
MoveCopy(t) ==
    /\ Init1(t, "move")
    /\ \/ /\ CopyCall(inv[t])
          /\ pc' = [pc EXCEPT ![t] = "second"]
          /\ UNCHANGED <<live, snap, res, out>>
       \/ Fail(t)

\* serve_move_object, second call: delete_object(src_bucket, src.object); an
\* error leaves the object in both places (no rollback of the copy).
MoveDelete(t) ==
    /\ pc[t] = "second" /\ Op(t) = "move"
    /\ \/ /\ Usable(inv[t].c)
          /\ Del(Unalias(inv[t].c), {inv[t].k})
          /\ Finish(t, "ok", NoValue)
          /\ UNCHANGED <<live, snap>>
       \/ Fail(t)

\* serve_delete_object: DeleteObject succeeds whether the key exists or not.
DeleteObject(t) ==
    /\ Init1(t, "delete")
    /\ \/ /\ Usable(inv[t].c)
          /\ Del(Unalias(inv[t].c), {inv[t].k})
          /\ Finish(t, "ok", NoValue)
          /\ UNCHANGED <<live, snap>>
       \/ Fail(t)

\* serve_write_container_data, after its data stream is buffered: PutObject.
WriteContainerData(t) ==
    /\ Init1(t, "write")
    /\ \/ /\ Usable(inv[t].c)
          /\ Put(Unalias(inv[t].c), inv[t].k)
          /\ Finish(t, "ok", NoValue)
          /\ UNCHANGED <<live, snap>>
       \/ Fail(t)

\* serve_get_container_data: `end.checked_sub(start)` fails before any call;
\* then GetObject, which fails for a missing object.
GetContainerData(t) ==
    /\ Init1(t, "getdata")
    /\ \/ /\ inv[t].end >= inv[t].start
          /\ Usable(inv[t].c)
          /\ inv[t].k \in store[Unalias(inv[t].c)]
          /\ Finish(t, "ok", NoValue)
          /\ UNCHANGED <<live, store, snap>>
       \/ Fail(t)

\* serve_has_object / serve_get_object_info: HeadObject; NotFound is
\* Ok(false) for has_object and an error for get_object_info.
HeadObject(t) ==
    /\ pc[t] = "init" /\ Op(t) \in {"has", "objinfo"}
    /\ \/ /\ Usable(inv[t].c)
          /\ Op(t) = "has" \/ inv[t].k \in store[Unalias(inv[t].c)]
          /\ Finish(t, "ok", FlagValue(Op(t) = "has" /\ inv[t].k \in store[Unalias(inv[t].c)]))
          /\ UNCHANGED <<live, store, snap>>
       \/ Fail(t)

\* serve_container_exists / serve_get_container_info: HeadBucket; NotFound
\* is Ok(false) for container_exists and an error for get_container_info.
HeadBucket(t) ==
    /\ pc[t] = "init" /\ Op(t) \in {"exists", "info"}
    /\ \/ /\ Op(t) = "exists" \/ Usable(inv[t].c)
          /\ Finish(t, "ok", FlagValue(Op(t) = "exists" /\ Usable(inv[t].c)))
          /\ UNCHANGED <<live, store, snap>>
       \/ Fail(t)

\* serve_create_container: CreateBucket; BucketAlreadyOwnedByYou is Ok.
CreateContainer(t) ==
    /\ Init1(t, "create")
    /\ \/ /\ Unalias(inv[t].c) \in Buckets
          /\ live' = live \cup {Unalias(inv[t].c)}
          /\ Finish(t, "ok", NoValue)
          /\ UNCHANGED <<store, snap>>
       \/ Fail(t)

\* serve_delete_container: DeleteBucket, which S3 refuses for a bucket that
\* still holds objects.
DeleteContainer(t) ==
    /\ Init1(t, "deletecontainer")
    /\ \/ /\ Usable(inv[t].c)
          /\ store[Unalias(inv[t].c)] = {}
          /\ live' = live \ {Unalias(inv[t].c)}
          /\ Finish(t, "ok", NoValue)
          /\ UNCHANGED <<store, snap>>
       \/ Fail(t)

-----------------------------------------------------------------------------
Step(t) ==
    /\ \/ ListContainerObjects(t) \/ ClearList(t) \/ ClearDelete(t) \/ DeleteObjects(t)
       \/ CopyObject(t) \/ MoveCopy(t) \/ MoveDelete(t) \/ DeleteObject(t)
       \/ WriteContainerData(t) \/ GetContainerData(t) \/ HeadObject(t) \/ HeadBucket(t)
       \/ CreateContainer(t) \/ DeleteContainer(t)
    /\ UNCHANGED inv

Next == \E t \in Tasks : Step(t)

\* tokio runs a spawned handler to completion; that every backend call
\* returns is an assumption, since the code sets no operation timeout.
Spec == Init /\ [][Next]_vars /\ \A t \in Tasks : WF_vars(Step(t))

-----------------------------------------------------------------------------
(* Properties.                                                              *)

\* The container an invocation writes into.
Dest(t) == IF Op(t) \in {"copy", "move"} THEN inv[t].dc ELSE inv[t].c

\* Task t holds the object it moves at its source, or has placed it at its
\* destination.
HoldsSource(t) == Op(t) = "move" /\ Usable(inv[t].c) /\ inv[t].k \in store[Unalias(inv[t].c)]
HoldsDest(t) == Op(t) = "move" /\ Usable(Dest(t)) /\ inv[t].dk \in store[Unalias(Dest(t))]

\* No task but t removes objects from t's containers.
NoOtherRemover(t) ==
    \A u \in Tasks \ {t} :
        Op(u) \in {"clear", "deletemany", "delete", "move"} =>
            Unalias(inv[u].c) \notin {Unalias(inv[t].c), Unalias(Dest(t))}

\* No task but t puts objects into the container of t.
NoOtherWriter(t) ==
    \A u \in Tasks \ {t} :
        Op(u) \in {"write", "copy", "move"} => Unalias(Dest(u)) # Unalias(inv[t].c)

\* serve_move_object copies before it deletes and stops at a failed copy,
\* so an object it moves is never gone from both places, whatever fails
\* and whatever else runs, as long as nobody else deletes there.
MoveKeepsObject ==
    \A t \in Tasks :
        Op(t) = "move" /\ NoOtherRemover(t) =>
            [](HoldsSource(t) /\ pc[t] = "init" => [](HoldsSource(t) \/ HoldsDest(t)))

\* spec.md section 4.4: list-container-objects skips `offset` names, then
\* returns at most `limit` of the rest, whatever the backend's pages.
\* (Checked where no other task writes the container.)
ListMatchesSpec ==
    \A t \in Tasks :
        Op(t) = "list" /\ res[t] = "ok" =>
            out[t].keys = SpecList(store[Unalias(inv[t].c)], inv[t].limit, inv[t].offset)

\* spec.md section 4.4: clear-container lists all objects and deletes them
\* all; once it returns Ok, a container nobody else writes to is empty.
ClearEmpties ==
    \A t \in Tasks :
        Op(t) = "clear" /\ res[t] = "ok" /\ NoOtherWriter(t) =>
            store[Unalias(inv[t].c)] = {}

\* spec.md section 4.4: get-container-data requires `end` strictly greater
\* than `start` and fails otherwise before any backend call.
RangeRejected ==
    \A t \in Tasks : Op(t) = "getdata" /\ res[t] = "ok" => inv[t].start < inv[t].end

\* The name unalias looks up: the name without its first alias_, if any.
Candidate(n) == IF n.mk > 0 THEN StripPrefix(n) ELSE n

\* The link's well-formed alias_<x> entries.
LinkedEntries(x) ==
    {kv \in LinkValues : kv[1].mk > 0 /\ StripPrefix(kv[1]) = x
                         /\ ~IsEmptyName(x) /\ ~IsEmptyName(kv[2])}

\* spec.md section 4.3: every container name resolves to the value of the
\* link's well-formed alias_<x> entry for its candidate x, over any
\* provider alias of x; without one, to the provider's alias of x; without
\* that, to x itself (an entry with an empty alias or value is skipped).
AliasMergeRule ==
    \A t \in Tasks : \A n \in {inv[t].c, Dest(t)} :
        /\ \A kv \in LinkedEntries(Candidate(n)) : Unalias(n) = kv[2]
        /\ LinkedEntries(Candidate(n)) = {} /\ Candidate(n) \in DOMAIN ProvAliases =>
               Unalias(n) = ProvAliases[Candidate(n)]
        /\ LinkedEntries(Candidate(n)) = {} /\ Candidate(n) \notin DOMAIN ProvAliases =>
               Unalias(n) = Candidate(n)

\* spec.md section 8: alias resolution is idempotent; the container name of
\* every invocation resolves to a name that resolves to itself.
UnaliasIdempotent == \A t \in Tasks : Unalias(Unalias(inv[t].c)) = Unalias(inv[t].c)

=============================================================================
