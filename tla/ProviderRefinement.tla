------------------------- MODULE ProviderRefinement --------------------------
(***************************************************************************)
(* The dispatcher model implements the invocation lifecycle: the statuses  *)
(* of BlobstoreProvider map to the phases of InvocationLifecycle, the      *)
(* link registry to its links, and the process being alive to serve not    *)
(* having exited.  The subscriptions, the stream ends, the shutdown        *)
(* future and the put_link calls still building their client are hidden.  *)
(***************************************************************************)
EXTENDS BlobstoreProvider

\* The phase of each status: buffered in a subscription is waiting; dropped,
\* abandoned, never routed or failed to decode is lost; a task collecting
\* its data or looking its link up is serving; one calling the backend has
\* bound its client.
PhaseOf ==
    [idle |-> "idle", queued |-> "waiting",
     unrouted |-> "lost", dropped |-> "lost", abandoned |-> "lost", rejected |-> "lost",
     collecting |-> "serving", lookup |-> "serving", calling |-> "bound",
     answered |-> "answered", unanswered |-> "unanswered", aborted |-> "aborted"]

Life == INSTANCE InvocationLifecycle WITH
    phase <- [i \in Invs |-> PhaseOf[req[i].st]],
    ctx <- [i \in Invs |-> req[i].ctx],
    client <- [i \in Invs |-> req[i].client],
    ok <- [i \in Invs |-> req[i].ok],
    links <- actors,
    replies <- replies,
    alive <- dpc # "exited"

\* Every behaviour of the dispatcher, its tasks and the link commands is one
\* of the lifecycle: each invocation is served only after it was delivered
\* to a live provider, binds the client registered for its caller, answers
\* at most once and with success only when bound, and (under the tasks'
\* fairness) is answered or aborted once served.
LifeSpec == Life!Spec

=============================================================================
