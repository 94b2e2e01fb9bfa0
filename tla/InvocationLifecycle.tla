------------------------- MODULE InvocationLifecycle -------------------------
(***************************************************************************)
(* What the blobstore-s3 provider promises each invocation, with the       *)
(* dispatcher, the subscriptions and the tasks abstracted away (spec.md    *)
(* sections 2, 4.1, 4.2 and 7).  An invocation is sent by its caller; it   *)
(* waits in a subscription until the provider starts serving it, or is     *)
(* lost; a handler serving it binds the client of its caller's link, if    *)
(* the registry has one, and answers once; a successful answer needs a     *)
(* bound client.  The process may exit, aborting what is being served.    *)
(* The link registry is a map the host's commands overwrite atomically.    *)
(*                                                                         *)
(* BlobstoreProvider implements this specification under the mapping of   *)
(* module ProviderRefinement.                                              *)
(***************************************************************************)
EXTENDS Naturals

CONSTANTS Invs, Sources, Configs, NoCtx, NoLink

VARIABLES
    phase,      \* phase[i]: where invocation i is in its life
    ctx,        \* ctx[i]: the source id its caller sent, or NoCtx
    client,     \* client[i]: the client it was served with, or NoLink
    ok,         \* ok[i]: its answer was a success
    links,      \* links[s]: the client registered for source s, or NoLink
    replies,    \* replies[i]: answers that reached its caller
    alive       \* the provider process has not exited

lvars == <<phase, ctx, client, ok, links, replies, alive>>

Serving == {"serving", "bound"}

Init ==
    /\ phase = [i \in Invs |-> "idle"]
    /\ ctx = [i \in Invs |-> NoCtx]
    /\ client = [i \in Invs |-> NoLink]
    /\ ok = [i \in Invs |-> FALSE]
    /\ links = [s \in Sources |-> NoLink]
    /\ replies = [i \in Invs |-> 0]
    /\ alive = TRUE

\* The caller sends i with context c: it reaches a subscription of a live
\* provider, or nobody.
Call(i, c) ==
    /\ phase[i] = "idle"
    /\ \E p \in {"waiting", "lost"} :
         /\ p = "waiting" => alive
         /\ phase' = [phase EXCEPT ![i] = p]
    /\ ctx' = [ctx EXCEPT ![i] = c]
    /\ UNCHANGED <<client, ok, links, replies, alive>>

\* Invocations waiting in subscriptions are lost all at once.
Lose(S) ==
    /\ \A i \in S : phase[i] = "waiting"
    /\ phase' = [i \in Invs |-> IF i \in S THEN "lost" ELSE phase[i]]
    /\ UNCHANGED <<ctx, client, ok, links, replies, alive>>

\* The live provider starts serving a waiting invocation.
Begin(i) ==
    /\ alive
    /\ phase[i] = "waiting"
    /\ phase' = [phase EXCEPT ![i] = "serving"]
    /\ UNCHANGED <<ctx, client, ok, links, replies, alive>>

\* The handler finds its caller's link and takes that link's client.
Bind(i) ==
    /\ phase[i] = "serving"
    /\ ctx[i] \in Sources
    /\ links[ctx[i]] # NoLink
    /\ phase' = [phase EXCEPT ![i] = "bound"]
    /\ client' = [client EXCEPT ![i] = links[ctx[i]]]
    /\ UNCHANGED <<ctx, ok, links, replies, alive>>

\* The handler answers once, with success only when bound; the answer may
\* not reach the caller.
Answer(i, r, delivered) ==
    /\ phase[i] \in Serving
    /\ r => phase[i] = "bound"
    /\ phase' = [phase EXCEPT ![i] = IF delivered THEN "answered" ELSE "unanswered"]
    /\ ok' = [ok EXCEPT ![i] = r]
    /\ replies' = [replies EXCEPT ![i] = @ + (IF delivered THEN 1 ELSE 0)]
    /\ UNCHANGED <<ctx, client, links, alive>>

\* The process exits, aborting every invocation being served.
Exit ==
    /\ alive
    /\ alive' = FALSE
    /\ phase' = [i \in Invs |-> IF phase[i] \in Serving THEN "aborted" ELSE phase[i]]
    /\ UNCHANGED <<ctx, client, ok, links, replies>>

\* The host links source s to v, or removes its link (v = NoLink).
SetLink(s, v) ==
    /\ links' = [links EXCEPT ![s] = v]
    /\ UNCHANGED <<phase, ctx, client, ok, replies, alive>>

\* The host shuts the provider down: every link is removed.
ClearLinks ==
    /\ links' = [s \in Sources |-> NoLink]
    /\ UNCHANGED <<phase, ctx, client, ok, replies, alive>>

Serve(i) == Bind(i) \/ \E r, d \in BOOLEAN : Answer(i, r, d)

Next ==
    \/ \E i \in Invs, c \in Sources \cup {NoCtx} : Call(i, c)
    \/ \E S \in SUBSET Invs : Lose(S)
    \/ \E i \in Invs : Begin(i) \/ Serve(i)
    \/ Exit
    \/ \E s \in Sources, v \in Configs \cup {NoLink} : SetLink(s, v)
    \/ ClearLinks

Safety == Init /\ [][Next]_lvars

\* An invocation being served is eventually answered or aborted.
Spec == Safety /\ \A i \in Invs : WF_lvars(Serve(i))

=============================================================================
