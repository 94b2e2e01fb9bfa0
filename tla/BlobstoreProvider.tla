-------------------------- MODULE BlobstoreProvider --------------------------
(***************************************************************************)
(* The invocation dispatcher of the blobstore-s3 capability provider       *)
(* (src/crates/provider-blobstore-s3/src/lib.rs), with the link registry   *)
(* it reads and the lifecycle of every spawned handler task.               *)
(*                                                                         *)
(*  - BlobstoreS3Provider::serve subscribes one wRPC stream per operation  *)
(*    kind, one after the other, then select!s over all of them and the    *)
(*    shutdown future.  A finished stream restarts the whole 'outer loop,  *)
(*    dropping every subscription of the round.                            *)
(*  - every accepted invocation runs in a task of its own (tokio::spawn):  *)
(*    write-container-data first buffers its data stream, then each        *)
(*    handler looks the caller's link up (client()), calls the backend and *)
(*    transmits one result.                                                *)
(*  - the host's link commands (ProviderHandler) write the `actors` map.   *)
(*                                                                         *)
(* Operation kinds are abstracted to 1..K; what each handler asks of the   *)
(* backend is abstracted to success or failure (module BlobstoreOps gives  *)
(* the handlers' semantics).  The transport and the callers are the        *)
(* environment.                                                            *)
(***************************************************************************)
EXTENDS Naturals, Sequences, FiniteSets

CONSTANTS
    K,          \* number of operation kinds served (14 in the code)
    Sources,    \* source ids of linked actors
    Configs,    \* link configurations (a built StorageClient is named by its config)
    Invs,       \* invocation ids: one request of a caller each
    NoCtx,      \* an invocation without a source id in its context
    NoLink,     \* no entry in the actors map
    MaxResub    \* bound on the streams the transport finishes

ASSUME Assumptions ==
    /\ K \in Nat \ {0}
    /\ MaxResub \in Nat
    /\ NoCtx \notin Sources
    /\ NoLink \notin Configs

Kinds == 1..K

\* write-container-data is the last stream serve subscribes (lib.rs:149)
WriteKind == K

Ctxs == Sources \cup {NoCtx}

Status == {"idle",        \* not yet sent by its caller
           "unrouted",    \* sent while no subscription of its kind was live
           "queued",      \* delivered to a subscription, not yet taken by select!
           "dropped",     \* delivered, then its subscription was dropped on resubscribe
           "abandoned",   \* delivered, then serve returned
           "rejected",    \* the stream yielded Some(Err): accepting it failed
           "collecting",  \* write-container-data buffering its data stream
           "lookup",      \* task about to look its link up
           "calling",     \* backend call in flight with the looked-up client
           "answered",    \* its one result was transmitted
           "unanswered",  \* transmitting its result failed
           "aborted"}     \* the process exited while the task was in flight

InFlight == {"collecting", "lookup", "calling"}

Req == [st: Status, kind: Kinds, ctx: Ctxs, client: Configs \cup {NoLink}, ok: BOOLEAN]

VARIABLES
    dpc,        \* serve's control point: "subscribing", "serving", "stopped", "failed", "exited"
    nsub,       \* next kind serve subscribes in the current 'outer round
    buf,        \* buf[k]: invocations the current k-stream has received, not yet yielded
    ended,      \* ended[k]: the transport has finished the current k-stream
    resubs,     \* streams finished by the transport so far
    commands,   \* the shutdown future passed to serve has resolved
    actors,     \* the link registry: actors[s] is the client of source s, or NoLink
    building,   \* receive_link_config_as_target calls between StorageClient::new and insert
    hostLinks,  \* the host's view: hostLinks[s] is the config of the last put_link it
                \* signalled for s, or NoLink after its delete_link or shutdown
    hostPuts,   \* history: every [src, cfg] the host has signalled put_link for
    req,        \* req[i]: the state of invocation i and of the task serving it
    replies     \* replies[i]: transmissions that reached i's result or error subject

vars == <<dpc, nsub, buf, ended, resubs, commands, actors, building, hostLinks, hostPuts,
         req, replies>>
dispatcherVars == <<dpc, nsub, buf, ended, resubs, commands>>
linkVars == <<actors, building, hostLinks, hostPuts>>

TypeOK ==
    /\ dpc \in {"subscribing", "serving", "stopped", "failed", "exited"}
    /\ nsub \in 1..(K + 1)
    /\ buf \in [Kinds -> Seq(Invs)]
    /\ ended \in [Kinds -> BOOLEAN]
    /\ resubs \in 0..MaxResub
    /\ commands \in BOOLEAN
    /\ actors \in [Sources -> Configs \cup {NoLink}]
    /\ building \subseteq [src: Sources, cfg: Configs]
    /\ hostLinks \in [Sources -> Configs \cup {NoLink}]
    /\ hostPuts \subseteq [src: Sources, cfg: Configs]
    /\ req \in [Invs -> Req]
    /\ replies \in [Invs -> Nat]

-----------------------------------------------------------------------------
Init ==
    /\ dpc = "subscribing"
    /\ nsub = 1
    /\ buf = [k \in Kinds |-> <<>>]
    /\ ended = [k \in Kinds |-> FALSE]
    /\ resubs = 0
    /\ commands = FALSE
    /\ actors = [s \in Sources |-> NoLink]
    /\ building = {}
    /\ hostLinks = [s \in Sources |-> NoLink]
    /\ hostPuts = {}
    /\ req = [i \in Invs |-> [st |-> "idle", kind |-> 1, ctx |-> NoCtx,
                              client |-> NoLink, ok |-> FALSE]]
    /\ replies = [i \in Invs |-> 0]

\* The k-stream of the current round is subscribed and not finished.
Live(k) == dpc \in {"subscribing", "serving"} /\ k < nsub /\ ~ended[k]

\* Invocations sitting in the buffers of the current subscriptions.
Buffered == {i \in Invs : req[i].st = "queued"}

\* Dropping every subscription of the round: what they buffered is lost
\* to status `to`.
DropBuffered(to) ==
    /\ req' = [i \in Invs |-> IF i \in Buffered THEN [req[i] EXCEPT !.st = to]
                                                ELSE req[i]]
    /\ buf' = [k \in Kinds |-> <<>>]

\* transmit_static(subject, value): the one transmission of a handler; the
\* transport may fail it, which the handler only logs.
Transmit(i, ok) ==
    \E delivered \in BOOLEAN :
        /\ req' = [req EXCEPT ![i].st = IF delivered THEN "answered" ELSE "unanswered",
                              ![i].ok = ok]
        /\ replies' = [replies EXCEPT ![i] = @ + (IF delivered THEN 1 ELSE 0)]

-----------------------------------------------------------------------------
(* serve: the dispatcher.                                                   *)

\* Mutant: the round's last subscription tested one kind too late.
SubscribeOffByOne ==
    /\ dpc = "subscribing"
    /\ nsub' = nsub + 1
    /\ buf' = [buf EXCEPT ![nsub] = <<>>]
    /\ ended' = [ended EXCEPT ![nsub] = FALSE]
    /\ dpc' = IF nsub = K + 1 THEN "serving" ELSE "subscribing"
    /\ UNCHANGED <<req, resubs, commands, linkVars, replies>>

\* `wrpc.serve_<kind>().await.context(..)?`: subscribe the next stream of
\* the round, or fail and return the error from serve.
Subscribe ==
    /\ dpc = "subscribing"
    /\ \/ /\ nsub' = nsub + 1
          /\ buf' = [buf EXCEPT ![nsub] = <<>>]
          /\ ended' = [ended EXCEPT ![nsub] = FALSE]
          /\ dpc' = IF nsub = K THEN "serving" ELSE "subscribing"
          /\ UNCHANGED req
       \/ /\ dpc' = "failed"
          /\ DropBuffered("abandoned")
          /\ UNCHANGED <<nsub, ended>>
    /\ UNCHANGED <<resubs, commands, linkVars, replies>>

\* A select! branch yields Some(..) from the k-stream: Some(Ok) spawns the
\* handler task, Some(Err) is logged and the invocation is never served.
Accept(k) ==
    /\ dpc = "serving"
    /\ buf[k] # <<>>
    /\ LET i == Head(buf[k]) IN
         \/ req' = [req EXCEPT ![i].st = IF req[i].kind = WriteKind
                                         THEN "collecting" ELSE "lookup"]
         \/ req' = [req EXCEPT ![i].st = "rejected"]
    /\ buf' = [buf EXCEPT ![k] = Tail(@)]
    /\ UNCHANGED <<dpc, nsub, ended, resubs, commands, linkVars, replies>>

\* A select! branch yields None: warn and `continue 'outer`, which drops all
\* subscriptions of the round and subscribes every stream again.
Resubscribe(k) ==
    /\ dpc = "serving"
    /\ ended[k]
    /\ buf[k] = <<>>
    /\ DropBuffered("dropped")
    /\ dpc' = "subscribing"
    /\ nsub' = 1
    /\ UNCHANGED <<ended, resubs, commands, linkVars, replies>>

\* The select! branch on `commands`: return Ok(()) from serve.
ServeReturn ==
    /\ dpc = "serving"
    /\ commands
    /\ dpc' = "stopped"
    /\ DropBuffered("abandoned")
    /\ UNCHANGED <<nsub, ended, resubs, commands, linkVars, replies>>

\* After serve has returned the process may exit; spawned tasks are never
\* awaited, so those still in flight die with it.
ProcessExit ==
    /\ dpc \in {"stopped", "failed"}
    /\ dpc' = "exited"
    /\ req' = [i \in Invs |-> IF req[i].st \in InFlight
                              THEN [req[i] EXCEPT !.st = "aborted"] ELSE req[i]]
    /\ UNCHANGED <<nsub, buf, ended, resubs, commands, linkVars, replies>>

-----------------------------------------------------------------------------
(* The spawned handler tasks.                                               *)

\* Mutant: the buffering error is transmitted but the handler goes on.
CollectNoReturn(i) ==
    /\ req[i].st = "collecting"
    /\ req' = [req EXCEPT ![i].st = "lookup"]
    /\ \E delivered \in BOOLEAN :
         replies' = [replies EXCEPT ![i] = @ + (IF delivered THEN 1 ELSE 0)]
    /\ UNCHANGED <<dispatcherVars, linkVars>>

\* serve_write_container_data: `data.try_collect().await`; on error transmit
\* the error on error_subject and return.
Collect(i) ==
    /\ req[i].st = "collecting"
    /\ \/ /\ req' = [req EXCEPT ![i].st = "lookup"]
          /\ UNCHANGED replies
       \/ Transmit(i, FALSE)
    /\ UNCHANGED <<dispatcherVars, linkVars>>

\* Mutant: a missing map entry is not checked (a default client is used).
LookupNoLinkCheck(i) ==
    /\ req[i].st = "lookup"
    /\ IF req[i].ctx # NoCtx
       THEN /\ req' = [req EXCEPT ![i].st = "calling",
                                  ![i].client = actors[req[i].ctx]]
            /\ UNCHANGED replies
       ELSE Transmit(i, FALSE)
    /\ UNCHANGED <<dispatcherVars, linkVars>>

\* Mutant: a failed lookup returns from the task without transmitting.
LookupSilentError(i) ==
    /\ req[i].st = "lookup"
    /\ IF req[i].ctx # NoCtx /\ actors[req[i].ctx] # NoLink
       THEN req' = [req EXCEPT ![i].st = "calling",
                               ![i].client = actors[req[i].ctx]]
       ELSE req' = [req EXCEPT ![i].st = "rejected"]
    /\ UNCHANGED <<dispatcherVars, linkVars, replies>>

\* Mutant: a caller without a link of its own is served with the client of
\* some other link (the shared-client fallback of spec.md section 9).
LookupFallback(i) ==
    /\ req[i].st = "lookup"
    /\ IF req[i].ctx # NoCtx /\ actors[req[i].ctx] # NoLink
       THEN /\ req' = [req EXCEPT ![i].st = "calling",
                                  ![i].client = actors[req[i].ctx]]
            /\ UNCHANGED replies
       ELSE IF \E s \in Sources : actors[s] # NoLink
       THEN /\ \E s \in Sources :
                 /\ actors[s] # NoLink
                 /\ req' = [req EXCEPT ![i].st = "calling", ![i].client = actors[s]]
            /\ UNCHANGED replies
       ELSE Transmit(i, FALSE)
    /\ UNCHANGED <<dispatcherVars, linkVars>>

\* `self.client(context).await?`: read-lock the actors map and clone the
\* caller's client; no source id, or no link for it, is an error result.
Lookup(i) ==
    /\ req[i].st = "lookup"
    /\ IF req[i].ctx # NoCtx /\ actors[req[i].ctx] # NoLink
       THEN /\ req' = [req EXCEPT ![i].st = "calling",
                                  ![i].client = actors[req[i].ctx]]
            /\ UNCHANGED replies
       ELSE Transmit(i, FALSE)
    /\ UNCHANGED <<dispatcherVars, linkVars>>

\* The backend call(s) with the cloned client complete, successfully or not,
\* and the handler transmits the result.
Complete(i) ==
    /\ req[i].st = "calling"
    /\ \E ok \in BOOLEAN : Transmit(i, ok)
    /\ UNCHANGED <<dispatcherVars, linkVars>>

-----------------------------------------------------------------------------
(* ProviderHandler: the host's link commands.                               *)

\* receive_link_config_as_target: StorageConfig::from_values succeeded and
\* StorageClient::new is being awaited, outside the lock.
PutLinkBegin(s, c) ==
    /\ building' = building \cup {[src |-> s, cfg |-> c]}
    /\ hostLinks' = [hostLinks EXCEPT ![s] = c]
    /\ hostPuts' = hostPuts \cup {[src |-> s, cfg |-> c]}
    /\ UNCHANGED <<dispatcherVars, actors, req, replies>>

\* ... then `self.actors.write().await` and insert, replacing any entry.
PutLinkCommit(b) ==
    /\ actors' = [actors EXCEPT ![b.src] = b.cfg]
    /\ building' = building \ {b}
    /\ UNCHANGED <<dispatcherVars, hostLinks, hostPuts, req, replies>>

\* delete_link: remove the entry under the write lock.
DeleteLink(s) ==
    /\ actors' = [actors EXCEPT ![s] = NoLink]
    /\ hostLinks' = [hostLinks EXCEPT ![s] = NoLink]
    /\ UNCHANGED <<dispatcherVars, building, hostPuts, req, replies>>

\* shutdown: drain the whole map under the write lock.
Shutdown ==
    /\ actors' = [s \in Sources |-> NoLink]
    /\ hostLinks' = [s \in Sources |-> NoLink]
    /\ UNCHANGED <<dispatcherVars, building, hostPuts, req, replies>>

-----------------------------------------------------------------------------
(* The environment: callers, the transport, the shutdown future.            *)

\* A caller publishes invocation i of kind k: the transport delivers it to
\* the live k-subscription, or nobody receives it.
Send(i, k, c) ==
    /\ req[i].st = "idle"
    /\ IF Live(k)
       THEN /\ req' = [req EXCEPT ![i].st = "queued", ![i].kind = k, ![i].ctx = c]
            /\ buf' = [buf EXCEPT ![k] = Append(@, i)]
       ELSE /\ req' = [req EXCEPT ![i].st = "unrouted", ![i].kind = k, ![i].ctx = c]
            /\ UNCHANGED buf
    /\ UNCHANGED <<dpc, nsub, ended, resubs, commands, linkVars, replies>>

\* The transport finishes the current k-stream (it yields None once drained).
StreamFinish(k) ==
    /\ Live(k)
    /\ resubs < MaxResub
    /\ ended' = [ended EXCEPT ![k] = TRUE]
    /\ resubs' = resubs + 1
    /\ UNCHANGED <<dpc, nsub, buf, commands, linkVars, req, replies>>

\* The shutdown future resolves.
CommandsResolve ==
    /\ ~commands
    /\ commands' = TRUE
    /\ UNCHANGED <<dpc, nsub, buf, ended, resubs, linkVars, req, replies>>

-----------------------------------------------------------------------------
Task(i) == Collect(i) \/ Lookup(i) \/ Complete(i)

Next ==
    \/ Subscribe \/ ServeReturn \/ ProcessExit
    \/ \E k \in Kinds : Accept(k) \/ Resubscribe(k) \/ StreamFinish(k)
    \/ \E i \in Invs : Task(i)
    \/ \E s \in Sources, c \in Configs : PutLinkBegin(s, c)
    \/ \E b \in building : PutLinkCommit(b)
    \/ Shutdown
    \/ \E s \in Sources : DeleteLink(s)
    \/ \E i \in Invs, k \in Kinds, c \in Ctxs : Send(i, k, c)
    \/ CommandsResolve

\* tokio runs every spawned task to completion while the process lives; that
\* every S3 call and every caller's data stream finishes is an assumption,
\* since the code sets no operation timeout.
Fairness == \A i \in Invs : WF_vars(Task(i))

Spec == Init /\ [][Next]_vars /\ Fairness

-----------------------------------------------------------------------------
(* Properties.                                                              *)

\* Every invocation gets at most one transmission on its result or error
\* subject: the handlers transmit once, and serve_write_container_data
\* returns after transmitting a buffering error.
AtMostOneReply == \A i \in Invs : replies[i] <= 1

\* client() looks the caller's own source id up, and a caller without a
\* link at lookup time gets an error, never a result computed with another
\* caller's link (spec.md sections 4.4 and 8): every successful reply was
\* computed with a client the host linked for the caller's source id, by a
\* put_link that may since have been replaced or deleted.
OkReplyHadLink ==
    \A i \in Invs : req[i].st = "answered" /\ req[i].ok =>
        /\ req[i].ctx \in Sources
        /\ [src |-> req[i].ctx, cfg |-> req[i].client] \in hostPuts

\* Every spawned handler task ends with its result transmitted (or the
\* transmission failing), unless the process exits under it first.
SpawnedTaskAnswers ==
    \A i \in Invs : req[i].st \in InFlight ~>
                    req[i].st \in {"answered", "unanswered", "aborted"}

\* spec.md section 8: invocations delivered to other streams while one stream
\* finishes and is resubscribed are neither lost nor duplicated.
DeliveredNotLost == \A i \in Invs : req[i].st # "dropped"

\* spec.md section 3: a link is replaced when its source links again and
\* removed on delete_link or shutdown.  Once no put_link of s is in flight,
\* the registry holds for s what the host last signalled for s.
RegistryFollowsHost ==
    \A s \in Sources : (\A b \in building : b.src # s) => actors[s] = hostLinks[s]

=============================================================================
