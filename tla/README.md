# TLA+ models of the blobstore-s3 capability provider

This directory holds a verification development of
`src/crates/provider-blobstore-s3/src/lib.rs`, the wasmCloud provider that serves
the `wasmcloud:blobstore` interface over Amazon S3 (or an S3-compatible store).
There are TLA+ modules, TLC configurations that check them on small instances,
and TLAPS proofs. `spec.md` at the repository root is the description the models
are compared with. The models themselves are translated from the Rust source.

## The system

The provider has four cooperating parts.

* **Invocation dispatcher** (`BlobstoreS3Provider::serve`, lib.rs 72-374).
  - It subscribes one wRPC invocation stream per operation kind, in sequence
    (lines 76-153).
  - If any subscription fails, serve returns the error.
  - It then `select!`s over all the streams and the shutdown future
    (`commands`).
  - `Some(Ok)` spawns a tokio task running the handler (lines 159-162).
  - `Some(Err)` is only logged.
  - `None` (a stream ended) does `continue 'outer`. This drops *every*
    subscription of the round and subscribes them all again (lines 166-169).
  - When `commands` resolves, serve returns. The spawned tasks are never
    awaited.
* **Link registry** (`actors: Arc<RwLock<HashMap<String, StorageClient>>>`
  and the `ProviderHandler` impl, lines 846-891).
  - `receive_link_config_as_target` builds the `StorageClient` *before* it
    takes the write lock, then inserts it.
  - `delete_link` removes one entry.
  - `shutdown` drains the map.
  - Handlers call `client()` (lines 54-69), which read-locks the map and
    clones the caller's client. A missing source id or a missing link is an
    error result.
* **Operation handlers** (`serve_*`, lines 377-844).
  - Each handler unaliases its container names, calls the client once or a
    few times, and transmits one result with `transmit_static`.
  - A failed transmission is only logged.
  - `serve_write_container_data` first buffers its data stream. If that
    fails, it transmits the error on the error subject and returns.
  - `clear_container` lists the objects, then deletes them.
  - `move_object` copies, then deletes the source.
* **Backend client facade and alias resolver** (`StorageClient`, lines
  893-1193).
  - `new` builds the alias table. It starts from the provider's aliases, and
    link values with an `alias_` key override them.
  - `unalias` strips one `alias_` prefix and maps the result once through the
    table.
  - `list_container_objects` makes one `ListObjectsV2` call with
    `max_keys = limit`, then skips `offset` and takes `limit`.
  - `delete_objects` turns the per-key errors of a `DeleteObjects` response
    into an error.

## Modules

| module | models | kind |
|---|---|---|
| `BlobstoreProvider` | the dispatcher, the link registry, the lifecycle of every handler task | component |
| `MCBlobstoreProvider` | an (empty) TLC wrapper for it | MC |
| `BlobstoreProviderProofs` | TLAPS proofs about `BlobstoreProvider` | proofs |
| `InvocationLifecycle` | what the provider promises each invocation (spec.md sections 2, 4.1, 4.2 and 7), with the dispatcher abstracted away | abstract spec |
| `ProviderRefinement` | the refinement mapping from `BlobstoreProvider` to `InvocationLifecycle` | refinement |
| `ProviderRefinementProofs` | TLAPS proofs of the refinement and of OkReplyHadLink | proofs |
| `BlobstoreOps` | what each handler does to the S3 store, one action per backend call | component |
| `BlobstoreOpsProofs` | TLAPS proofs about `BlobstoreOps` | proofs |
| `MCBlobstoreOps` | buckets, names, aliases and invocation plans for TLC | MC |

### BlobstoreProvider

**State.**
- `dpc` and `nsub` are serve's control point and the next kind it subscribes.
- `buf[k]` holds what the current k-stream has received and not yet yielded.
- `ended[k]` means the transport finished that stream.
- `commands` is the shutdown future.
- `actors` is the registry.
- `building` holds the `receive_link_config_as_target` calls that are between
  `StorageClient::new` and the insert.
- `req[i]` is the status of invocation `i` and its task: kind, source id,
  cloned client and result.
- `replies[i]` counts the transmissions that reached its caller.
- `hostLinks[s]` is the host's own view: the config of the last put_link it
  signalled for `s`, or none after its delete_link or shutdown. No code reads
  it. It is there so that a property can say what the registry should follow.
- `hostPuts` is a history: every (source, config) pair the host has signalled
  put_link for. No code reads it either. It lets OkReplyHadLink say whose link
  a client belongs to.

**Actions.** One action per step of the code.
- Subscribe is one `serve_<kind>().await?`, or its failure.
- Accept(k) is a `select!` branch yielding `Some(Ok)`, which spawns the task,
  or `Some(Err)`.
- Resubscribe(k) is the `None` branch.
- ServeReturn is the `commands` branch.
- ProcessExit: the process ends and kills the tasks still in flight.
- Collect: `try_collect` of write-container-data.
- Lookup: `client()`.
- Complete: the backend call and `transmit_static`.
- PutLinkBegin and PutLinkCommit are the two halves of
  `receive_link_config_as_target`.
- DeleteLink and Shutdown are the other two link commands.

The environment has three actions.
- Send: a caller publishes an invocation, and it reaches the live
  subscription of its kind or nobody.
- StreamFinish: the transport ends a stream. This is bounded by `MaxResub`.
- CommandsResolve.

Operation kinds are abstracted to `1..K`, with kind `K` being
write-container-data, the last one subscribed. The backend's answer is
abstracted to success or failure.

### InvocationLifecycle and ProviderRefinement

`InvocationLifecycle` is the abstract specification. It has one phase per
invocation:

```
idle -> waiting | lost
waiting -> serving | lost
serving -> bound | answered | unanswered | aborted
bound -> answered | unanswered | aborted
```

It also holds the invocation's context, its client, its ok flag, the link map,
the reply counts and whether the process is alive.
- `Bind` takes the link of the caller's source.
- `Answer` may succeed only from `bound`.
- `Exit` aborts whatever is being served.
- `Lose` loses any set of waiting invocations at once.
- Its liveness part says that an invocation being served is eventually
  answered or aborted, under weak fairness of `Serve(i)`.

`ProviderRefinement` defines `Life == INSTANCE InvocationLifecycle WITH ...`:
- `phase` is `PhaseOf[req[i].st]`:
  - queued is waiting;
  - unrouted, dropped, abandoned and rejected are lost;
  - collecting and lookup are serving;
  - calling is bound.
- `ctx`, `client` and `ok` are the fields of `req`.
- `links` is `actors`.
- `alive` is `dpc # "exited"`.

The subscriptions, the stream ends, the shutdown future, `building` and
`hostLinks` are hidden.

### BlobstoreOps

**State.**
- `live` is the set of existing buckets.
- `store[b]` is the set of object keys in bucket b.
- Every task `t` has a fixed invocation `inv[t]` (operation and arguments), a
  control point `pc[t]`, the keys a clear has listed (`snap[t]`), and a result
  `res[t]` / `out[t]`.

**Names.** A container name is `[mk, base]`, meaning `mk` copies of the
`alias_` prefix before a base name. `LinkAliases`, `Aliases` and `Unalias`
translate `StorageClient::new` and `unalias`.

**Actions.** Every handler is an action, or several where it makes several
backend calls that other tasks may interleave with:
- ListContainerObjects;
- ClearList, then ClearDelete;
- DeleteObjects;
- CopyObject;
- MoveCopy, then MoveDelete;
- DeleteObject;
- WriteContainerData;
- GetContainerData;
- HeadObject (has-object and get-object-info);
- HeadBucket (container-exists and get-container-info);
- CreateContainer;
- DeleteContainer.

Every backend call may fail.
- `DeleteObjectsCall` chooses any subset of keys to fail, and reports an
  error when that subset is non-empty.
- Listing is `Page` (one page capped at `PageSize`) followed by `Skip` and
  `Take`. `SpecList` is spec.md's definition.
- S3 lists keys in key order, and `1..NKeys` is that order. So `Sorted(S)` is
  `SelectSeq` of `S`'s keys from `<<1, ..., NKeys>>`. It needs no RECURSIVE
  operator, which keeps the module within the prover's reach.
- `InvocationData` assumes that the container names an invocation carries
  are `Names`, and that its object names are `Keys`. This is what the data
  abstraction means.
- `LinkValuesMap` assumes that the link's config values have one value per
  key, as the code's `HashMap<String, String>` does.

Object contents, metadata values and byte streams are abstracted to the
presence of keys.

## Runs

| run | cfg | result | what it shows |
|---|---|---|---|
| dispatcher | `MCBlobstoreProvider.cfg` | pass, 349k states | TypeOK, AtMostOneReply and SpawnedTaskAnswers hold under all interleavings of 2 stream kinds, 2 invocations, 1 resubscription, shutdown and link commands |
| link_registry | `MCLinkRegistry.cfg` | pass, 1.04M states | OkReplyHadLink: with 2 sources and 2 configs, put_link, delete_link and shutdown racing a lookup never give a successful answer without a link, or with another source's link |
| refinement | `MCProviderRefinement.cfg` (module `ProviderRefinement`) | pass, 320k states | `LifeSpec`: on the dispatcher instance, every behaviour is one of the lifecycle, including its liveness |
| link_resurrected | `MCLinkResurrected.cfg` | violation | RegistryFollowsHost: put_link starts building, the link is removed (the trace TLC prints uses shutdown; delete_link of the same source has the same effect), put_link inserts, and the registry holds a link the host removed |
| lost_on_resubscribe | `MCLostOnResubscribe.cfg` | violation | an invocation delivered to one stream is dropped when another stream ends |
| handlers_race | `MCBlobstoreOps.cfg` | pass, 41k states | two tasks over every pair of the 16 invocations: AliasMergeRule and MoveKeepsObject |
| list_offset | `MCListOffset.cfg` | violation | limit 1, offset 1 over two keys returns `<<>>` where spec.md expects `<<2>>` |
| clear_pagination | `MCClearPagination.cfg` | violation | clear with a page of 1 key leaves the second key and answers Ok |
| range_empty | `MCRangeEmpty.cfg` | violation | get-container-data with start = end is accepted |
| unalias_idempotent | `MCUnaliasIdempotent.cfg` | violation | `alias_alias_pics` resolves to `alias_pics`, which resolves again, to `a` |

### The properties

* **AtMostOneReply**: no invocation is ever answered twice. The write
  handler's early return after a buffering error is what keeps it.
* **OkReplyHadLink**: a successful answer was computed with a client that the
  host linked, by put_link, for the caller's own source id. It is checked with
  two sources and two configurations, so that a lookup serving one caller
  with another caller's link is seen.
  - The link may have been replaced or deleted since. That is the stale clone
    that `client()` allows, and it is also a documented hazard.
* **SpawnedTaskAnswers** (liveness): every spawned task ends up answered, or
  with a failed transmission, unless the process exits first.
* **LifeSpec** (refinement): the dispatcher implements the lifecycle. This
  ties the properties above together: a step that answers a task that was
  never delivered, that binds a client other than the caller's link, that
  succeeds without binding, or that leaves a served task unanswered, breaks
  it.
* **AliasMergeRule**: this is spec.md section 4.3. Every container name a task
  uses resolves as follows, where x is its candidate (the name without its
  first `alias_`):
  - to the value of the link's well-formed `alias_<x>` entry, which wins over
    a provider alias;
  - without such an entry, to the provider's alias of x;
  - without either, to x.
* **MoveKeepsObject**: once a move has started on an object that no other task
  removes, the object stays in the source, in the destination, or in both. A
  failed copy must therefore never be followed by the delete.
* The violation runs each state one sentence of spec.md:
  - DeliveredNotLost;
  - RegistryFollowsHost: once no put_link of `s` is in flight, the registry
    holds what the host last signalled for `s`. spec.md section 3 says a link
    is removed when the host signals its deletion. Because the client is
    built outside the lock, a delete_link that arrives meanwhile is undone.
  - ListMatchesSpec;
  - ClearEmpties, which excludes concurrent writers, because spec.md allows
    that race;
  - RangeRejected;
  - UnaliasIdempotent.

  Each is violated by what the code does. They are the project's findings
  (see `PROJECT.json`).

Every property of a passing run has a mutant that breaks it:

| mutant | what it does | property it breaks |
|---|---|---|
| `SubscribeOffByOne` | an off-by-one in the subscription round | TypeOK |
| `CollectNoReturn` | no return after the buffering error | AtMostOneReply |
| `LookupFallback` | serves a caller without a link of its own with another link's client | OkReplyHadLink |
| `LookupNoLinkCheck` (refinement run) | the lookup binds without a link, which the lifecycle's `Bind` forbids | LifeSpec |
| `LookupSilentError` | an error path that returns without transmitting | SpawnedTaskAnswers |
| `MoveCopyIgnoreError` | deletes after a failed copy | MoveKeepsObject |
| `AliasesProviderFirst` | applies the provider's aliases last, so they override the link's | AliasMergeRule |

### Bounds

**Dispatcher.**
- Two kinds are enough for one stream to end while another holds a buffered
  invocation.
- Two invocations are enough for a buffer with two entries and for two tasks
  in flight.
- One resubscription is enough to reach the drop.
- The link registry run takes two sources, which makes `shutdown` differ from
  a single `delete_link`, and two configs, which lets two put_links race.

**Handlers.**
- Two keys and two buckets, with a page size of 1, are enough to make
  pagination visible.
- An alias chain gives `alias_pics` → a over the provider's alias `pics` → b.
- There is a self-move through an alias (`a/1` moved to `pics/1`, which is
  b/1) and a self-copy is refused.
- Two tasks run every pair of invocations concurrently.

**Refinement and link race.**
- The refinement run uses the dispatcher instance: 2 kinds, 2 invocations,
  1 source, 1 config and 1 resubscription.
- The link race needs only one source and one config. The put_link must span
  a delete_link.

### Fairness

`Fairness` is weak fairness of each task's steps. One half of it comes from
the code and the other half is an assumption:
- tokio runs every spawned task until it completes while the process lives;
- every S3 call, and the caller's data stream of write-container-data, is
  assumed to finish. The code sets no operation timeout on the S3 client, so
  a hung call or a stalled stream would leave its task waiting forever. The
  liveness results hold only under this assumption.

No fairness is assumed of the environment: callers, transport and shutdown.
The handler model is a finite plan, so its runs set `CHECK_DEADLOCK FALSE`.
Once every task has answered, the provider simply waits.

The lifecycle asks for weak fairness of `Serve(i)`. The refinement run shows
that the tasks' fairness implies it. The abstract specification and the
mapping model spec.md's promise, not lines of code, so they have no entry in
the map of `PROJECT.json`.

## Proofs (checked by tlapm)

### `BlobstoreProviderProofs`

These hold for every value of the constants, under `Assumptions`:
- `K` is a positive natural;
- `MaxResub` is a natural;
- `NoCtx` and `NoLink` are fresh.

**Theorems.**
* `TypeCorrect`: `Spec => []TypeOK`.
* `ReplyAtMostOnce`: `Spec => []AtMostOneReply`.

**Why a stronger invariant is needed.** AtMostOneReply is not inductive: a
task in flight could be sitting on a counted reply. The inductive invariant
`IInv` adds four conjuncts:
- `ReplyCount`: `replies[i]` is 1 exactly when i is answered, and 0 otherwise;
- `BufQueued`: the stream buffers hold only queued invocations, so `select!`
  never restarts an answered one;
- `BufUnique`: an invocation sits in one buffer slot at most, so taking the
  head leaves the rest queued;
- `SubscribeBound`: while serve subscribes, the next kind is within `1..K`.

**Proof layout.**
- `InitIInv` proves `Init => IInv`.
- There is one lemma per action for `IInv /\ A => IInv'`.
- `NextIInv` assembles them.
- The theorems follow by PTL.
- Record updates (`[f EXCEPT ![i].st = ...]`) are handled by small lemmas
  proved by Zenon (`RecSt`, `UpdStOk`, `UpdStCl`, `UpdSend`), because the SMT
  backend does not encode them.

### `ProviderRefinementProofs`

**Theorems.**
* `Refinement`: `Spec => Life!Safety`. The dispatcher model implements the
  safety part of the lifecycle.
* `OkLinked`: `Spec => []OkReplyHadLink`.

**Refinement argument.**
- `InitRefined` shows that `Init` maps to `Life!Init`.
- `StepRefined` shows `IInv /\ [Next]_vars => [Life!Next]_Life!lvars`. There
  is one case per action, and each case rests on a lemma:
  - Accept is `Life!Begin`, or `Life!Lose` of the rejected invocation.
  - Send is `Life!Call`.
  - The three drops are `Life!Lose` of everything buffered. These are
    Subscribe's failure, ServeReturn and Resubscribe.
  - Collect and Lookup are `Bind`, `Answer` or a stutter.
  - Complete is `Answer`.
  - ProcessExit is `Exit`.
  - The link commands are `SetLink`, `ClearLinks` or a stutter.
  - Every other step stutters.
- `IInv` is needed here for two reasons. `BufQueued` makes the invocation
  `select!` takes a waiting one. The type part gives the records their
  fields.

**OkLinked argument.** It is proved on the lifecycle, through the mapping,
together with the host's put_link history.
- `RegistryPuts` says that every registry entry and every client being built
  is a pair in `hostPuts`. Lemma `PutsStep`: the link commands keep it
  (put_link records its pair before it builds, the insert takes a pair being
  built, delete_link and shutdown only remove), and `hostPuts` only grows.
- `ReqPuts` says that an invocation which is bound, or answered with
  success, has a source id as context, and that (source id, client) is in
  `hostPuts`.
- Every lifecycle step preserves `ReqPuts` (lemma `LinkedStep`):
  - only `Bind` makes an invocation bound, and it takes the registry entry
    of the caller's own source id, which `RegistryPuts` puts in `hostPuts`;
  - only `Answer` from bound makes a successful answer.
- `StepRefined` carries this to every step of the dispatcher.

### `BlobstoreOpsProofs`

These hold for every store, alias table, set of buckets, set of tasks and
set of invocations, under `OpsAssumptions`, `InvocationData` and
`LinkValuesMap`. `MoveKeeps` never unfolds `Unalias`, so they also
hold for every alias table.

**Theorems.**
* `MoveKeeps`: `Spec => MoveKeepsObject`.
* `AliasMerge`: `Spec => []AliasMergeRule`.

**AliasMerge argument.** This is a fact about constants: the alias tables
never change.
- `StripInjective`: two prefixed link keys that strip to the same alias are
  the same key. It rests on `StripFields`.
- `LinkValuesMap` then says they are the same entry. So the `CHOOSE` in
  `Aliases` picks the link's one entry for x (lemma `AliasTable`).
- Without such an entry, `Aliases` keeps the provider's alias, or has none.
- `Unalias` looks x up in that table.

**MoveKeeps typing.**
- `OpsTypes` is inductive: `InitOpsTypes`, `StepOpsTypes` with one case per
  handler, and `NextOpsTypes`.
- `OtherTask`: a step of another task leaves a task's `pc` and `res` alone.

**MoveKeeps argument.** `Kept(t)` means the object is at its source or at its
destination. It is not stable on its own: a move at its delete step with
nothing at the destination would lose the object. The inductive invariant
`MoveInv(t)` says that a move between its copy and its delete holds the
object at its destination, and that the destination differs from the
source. Three lemmas carry it:
- `OtherKeeps`: a step of another task never takes the object out of the
  source or the destination, and never removes those buckets while they hold
  it. Removers work elsewhere, by `NoOtherRemover`; DeleteBucket needs an
  empty bucket; everything else only puts or reads.
- `OwnMove`: a successful copy puts the object at the destination, a failed
  copy stops, and the delete takes only the source.
- `NextMove` combines these, and PTL turns it into the nested `[]` of the
  property.

### Only model-checked
- SpawnedTaskAnswers and the liveness part of `LifeSpec`, because liveness is
  out of the prover's reach.
- RegistryFollowsHost is violated, so there is nothing to prove.
- `TypeOK` of `BlobstoreOps`. Its key lists come from `SelectSeq`. Showing
  they are sequences of keys needs induction over the sequence, and the
  provers cannot instantiate the library's induction theorems. The proofs
  therefore use `OpsTypes`, which is the same typing without the result
  values and the listed keys.
- ListMatchesSpec, ClearEmpties, RangeRejected and UnaliasIdempotent are
  violated, so there is nothing to prove.

## Not modelled

* `StorageConfig` / `configure_aws`: `config.rs` is not in this source tree.
  Only the failure of `from_values`, which leaves the registry unchanged, is
  visible.
* Object bytes, metadata, the `Range` header's byte arithmetic and the
  chunking of the returned stream.
* The `max_keys` conversion to `i32` (saturating, lib.rs:1031). S3 caps a
  page at 1000 keys anyway, so the saturation changes nothing observable.
* The wRPC transport is the environment of the dispatcher model, with
  at-most-once delivery to the live subscription. The host's redelivery is not
  modelled.

## Plan for further work

* AtMostOneReply restated and proved on the lifecycle, which would make it a
  property of the abstract specification.
* Composing the dispatcher with the handler semantics, so that resubscription
  drops, task aborts and link deletion meet move and clear in one model.
* A recursion-free listing model (`Page` through a recursive function) so that
  `ListObjects` can be proved about.
