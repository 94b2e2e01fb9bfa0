----------------------- MODULE BlobstoreProviderProofs -----------------------
(***************************************************************************)
(* Proofs about the dispatcher model BlobstoreProvider, for every value    *)
(* of its constants:                                                       *)
(*  - TypeCorrect: Spec => []TypeOK;                                       *)
(*  - ReplyAtMostOnce: Spec => []AtMostOneReply, no invocation is ever     *)
(*    answered twice, whatever the interleaving of handler tasks, link     *)
(*    commands, resubscriptions and shutdown.                              *)
(* AtMostOneReply is not inductive by itself: a task still in flight could *)
(* already have a reply counted.  ReplyCount strengthens it: the count is  *)
(* exactly 1 for an answered invocation and 0 for every other, so a task   *)
(* in flight transmits onto a count of 0.  That in turn needs to know     *)
(* that select! only ever takes a "queued" invocation out of a buffer      *)
(* (BufQueued), so that accepting never touches an answered one, and that  *)
(* an invocation sits in one buffer slot at most (BufUnique), so that      *)
(* taking the head leaves the rest queued.  TypeOK needs SubscribeBound:   *)
(* while serve subscribes, the next kind is one of 1..K.                   *)
(***************************************************************************)
EXTENDS BlobstoreProvider, SequenceTheorems, TLAPS

ReplyCount == \A i \in Invs : replies[i] = IF req[i].st = "answered" THEN 1 ELSE 0

SubscribeBound == dpc = "subscribing" => nsub \in 1..K

BufQueued == \A k \in Kinds : \A n \in 1..Len(buf[k]) : req[buf[k][n]].st = "queued"

BufUnique ==
    \A k1, k2 \in Kinds : \A n1 \in 1..Len(buf[k1]) : \A n2 \in 1..Len(buf[k2]) :
        buf[k1][n1] = buf[k2][n2] => k1 = k2 /\ n1 = n2

IInv == TypeOK /\ SubscribeBound /\ BufQueued /\ BufUnique /\ ReplyCount

DStates == {"subscribing", "serving", "stopped", "failed", "exited"}

-----------------------------------------------------------------------------
(* Lemmas on the frame of a step.                                           *)

\* TypeOK' from the type of each primed variable.
LEMMA TypeOKPrime ==
    ASSUME dpc' \in DStates, nsub' \in 1..(K + 1), buf' \in [Kinds -> Seq(Invs)],
           ended' \in [Kinds -> BOOLEAN], resubs' \in 0..MaxResub, commands' \in BOOLEAN,
           actors' \in [Sources -> Configs \cup {NoLink}],
           building' \subseteq [src: Sources, cfg: Configs],
           hostLinks' \in [Sources -> Configs \cup {NoLink}],
           hostPuts' \subseteq [src: Sources, cfg: Configs],
           req' \in [Invs -> Req], replies' \in [Invs -> Nat]
    PROVE  TypeOK'
BY DEF TypeOK, DStates

\* The type of each variable, one by one.
LEMMA FrameTypes ==
    ASSUME TypeOK
    PROVE  /\ dpc \in DStates /\ nsub \in 1..(K + 1) /\ ended \in [Kinds -> BOOLEAN]
           /\ resubs \in 0..MaxResub /\ commands \in BOOLEAN
           /\ buf \in [Kinds -> Seq(Invs)]
           /\ actors \in [Sources -> Configs \cup {NoLink}]
           /\ building \subseteq [src: Sources, cfg: Configs]
           /\ hostLinks \in [Sources -> Configs \cup {NoLink}]
           /\ hostPuts \subseteq [src: Sources, cfg: Configs]
           /\ req \in [Invs -> Req] /\ replies \in [Invs -> Nat]
BY DEF TypeOK, DStates

\* What the record updates of the model leave in req.  The SMT backend
\* cannot encode an EXCEPT on a record field, so Zenon proves these once.
LEMMA RecSt ==
    ASSUME NEW r \in Req, NEW s \in Status
    PROVE  /\ [r EXCEPT !.st = s] \in Req
           /\ [r EXCEPT !.st = s].st = s
BY Zenon DEF Req

LEMMA UpdStOk ==
    ASSUME NEW f \in [Invs -> Req], NEW i \in Invs, NEW s \in Status, NEW b \in BOOLEAN
    PROVE  /\ [f EXCEPT ![i].st = s, ![i].ok = b] \in [Invs -> Req]
           /\ [f EXCEPT ![i].st = s, ![i].ok = b][i].st = s
           /\ \A j \in Invs : j # i => [f EXCEPT ![i].st = s, ![i].ok = b][j] = f[j]
BY Zenon DEF Req

LEMMA UpdStCl ==
    ASSUME NEW f \in [Invs -> Req], NEW i \in Invs, NEW s \in Status,
           NEW c \in Configs \cup {NoLink}
    PROVE  /\ [f EXCEPT ![i].st = s, ![i].client = c] \in [Invs -> Req]
           /\ [f EXCEPT ![i].st = s, ![i].client = c][i].st = s
           /\ \A j \in Invs : j # i => [f EXCEPT ![i].st = s, ![i].client = c][j] = f[j]
BY Zenon DEF Req

LEMMA UpdSend ==
    ASSUME NEW f \in [Invs -> Req], NEW i \in Invs, NEW s \in Status, NEW k \in Kinds,
           NEW c \in Ctxs
    PROVE  /\ [f EXCEPT ![i].st = s, ![i].kind = k, ![i].ctx = c] \in [Invs -> Req]
           /\ [f EXCEPT ![i].st = s, ![i].kind = k, ![i].ctx = c][i].st = s
           /\ \A j \in Invs : j # i => [f EXCEPT ![i].st = s, ![i].kind = k, ![i].ctx = c][j] = f[j]
BY Zenon DEF Req

\* A step that leaves replies alone and moves no invocation to or from
\* "answered" keeps ReplyCount.
LEMMA NoAnswerReplyCount ==
    ASSUME ReplyCount, UNCHANGED replies,
           \A i \in Invs : req'[i].st = "answered" <=> req[i].st = "answered"
    PROVE  ReplyCount'
BY DEF ReplyCount

\* A step that leaves the buffers alone and keeps every queued invocation
\* queued keeps BufQueued and BufUnique.
LEMMA BufFrame ==
    ASSUME TypeOK, BufQueued, BufUnique, UNCHANGED buf,
           \A j \in Invs : req[j].st = "queued" => req'[j].st = "queued"
    PROVE  BufQueued' /\ BufUnique'
<1>1. buf \in [Kinds -> Seq(Invs)]
  BY FrameTypes
<1>2. BufQueued'
  BY <1>1 DEF BufQueued
<1>. QED  BY <1>2 DEF BufUnique

\* Emptied buffers satisfy BufQueued and BufUnique.
LEMMA EmptyBuffers ==
    ASSUME buf' = [k \in Kinds |-> <<>>]
    PROVE  BufQueued' /\ BufUnique'
BY DEF BufQueued, BufUnique

\* Dropping the buffers of the round keeps the types and answers nobody.
LEMMA DropBufferedIInv ==
    ASSUME TypeOK, NEW to \in {"dropped", "abandoned"}, DropBuffered(to)
    PROVE  /\ req' \in [Invs -> Req]
           /\ buf' \in [Kinds -> Seq(Invs)]
           /\ \A i \in Invs : req'[i].st = "answered" <=> req[i].st = "answered"
           /\ BufQueued' /\ BufUnique'
<1>1. req \in [Invs -> Req]
  BY FrameTypes
<1>2. req' \in [Invs -> Req]
  BY <1>1 DEF DropBuffered, Buffered, Req, Status
<1>3. \A i \in Invs : req'[i].st = "answered" <=> req[i].st = "answered"
  BY <1>1 DEF DropBuffered, Buffered, Req
<1>4. buf' = [k \in Kinds |-> <<>>]
  BY DEF DropBuffered
<1>. QED  BY <1>2, <1>3, <1>4, EmptyBuffers

-----------------------------------------------------------------------------
(* One lemma per action.                                                    *)

LEMMA InitIInv == Init => IInv
<1> SUFFICES ASSUME Init PROVE IInv
  OBVIOUS
<1>1. buf \in [Kinds -> Seq(Invs)]
  BY DEF Init
<1>2. req \in [Invs -> Req]
  BY Assumptions DEF Init, Req, Status, Kinds, Ctxs
<1>3. nsub \in 1..(K + 1) /\ resubs \in 0..MaxResub
  BY Assumptions DEF Init
<1>4. dpc \in DStates /\ ended \in [Kinds -> BOOLEAN] /\ commands \in BOOLEAN
  BY DEF Init, DStates
<1>5. /\ actors \in [Sources -> Configs \cup {NoLink}]
      /\ building \subseteq [src: Sources, cfg: Configs]
      /\ hostLinks \in [Sources -> Configs \cup {NoLink}]
      /\ hostPuts \subseteq [src: Sources, cfg: Configs]
      /\ replies \in [Invs -> Nat]
  BY DEF Init
<1>6. TypeOK
  BY <1>1, <1>2, <1>3, <1>4, <1>5 DEF TypeOK, DStates
<1>7. SubscribeBound
  BY Assumptions DEF Init, SubscribeBound
<1>8. BufQueued /\ BufUnique
  BY DEF Init, BufQueued, BufUnique
<1>9. ReplyCount
  BY DEF Init, ReplyCount
<1>. QED  BY <1>6, <1>7, <1>8, <1>9 DEF IInv

\* The one transmission of a task in flight keeps the invariant.
LEMMA TransmitIInv ==
    ASSUME IInv, NEW i \in Invs, NEW ok \in BOOLEAN,
           req[i].st \in InFlight,
           Transmit(i, ok),
           UNCHANGED <<dispatcherVars, linkVars>>
    PROVE  IInv'
<1>0. TypeOK /\ req \in [Invs -> Req] /\ replies \in [Invs -> Nat]
  BY FrameTypes DEF IInv
<1>1. PICK delivered \in BOOLEAN :
          /\ req' = [req EXCEPT ![i].st = IF delivered THEN "answered" ELSE "unanswered",
                                ![i].ok = ok]
          /\ replies' = [replies EXCEPT ![i] = @ + (IF delivered THEN 1 ELSE 0)]
  BY DEF Transmit
<1>2. replies[i] = 0
  BY DEF IInv, ReplyCount, InFlight
<1>3. req' \in [Invs -> Req] /\ replies' \in [Invs -> Nat]
  <2>1. (IF delivered THEN "answered" ELSE "unanswered") \in Status
    BY DEF Status
  <2>2. req' \in [Invs -> Req]
    <3>0. PICK st \in Status : st = IF delivered THEN "answered" ELSE "unanswered"
      BY <2>1
    <3>1. [req EXCEPT ![i].st = st, ![i].ok = ok] \in [Invs -> Req]
      BY <1>0, UpdStOk
    <3>. QED  BY <1>1, <3>0, <3>1
  <2>3. replies' \in [Invs -> Nat]
    BY <1>0, <1>1
  <2>. QED  BY <2>2, <2>3
<1>4. TypeOK'
  BY <1>0, <1>3, FrameTypes, TypeOKPrime DEF dispatcherVars, linkVars
<1>5. SubscribeBound'
  BY DEF IInv, SubscribeBound, dispatcherVars
<1>6. BufQueued' /\ BufUnique'
  <2>1. \A j \in Invs : req[j].st = "queued" => req'[j].st = "queued"
    BY <1>0, <1>1 DEF InFlight
  <2>. QED  BY <1>0, <2>1, BufFrame DEF IInv, dispatcherVars
<1>7. ReplyCount'
  BY <1>0, <1>1, <1>2 DEF IInv, ReplyCount
<1>. QED  BY <1>4, <1>5, <1>6, <1>7 DEF IInv

LEMMA SubscribeIInv == IInv /\ Subscribe => IInv'
<1> SUFFICES ASSUME IInv, Subscribe PROVE IInv'
  OBVIOUS
<1>0. TypeOK /\ buf \in [Kinds -> Seq(Invs)] /\ ended \in [Kinds -> BOOLEAN]
  BY FrameTypes DEF IInv
<1>1. CASE /\ nsub' = nsub + 1
           /\ buf' = [buf EXCEPT ![nsub] = <<>>]
           /\ ended' = [ended EXCEPT ![nsub] = FALSE]
           /\ dpc' = IF nsub = K THEN "serving" ELSE "subscribing"
           /\ UNCHANGED req
  <2>1. nsub \in 1..K
    BY DEF Subscribe, IInv, SubscribeBound
  <2>2. nsub' \in 1..(K + 1) /\ dpc' \in DStates
    BY <1>1, <2>1, Assumptions DEF DStates
  <2>3. buf' \in [Kinds -> Seq(Invs)] /\ ended' \in [Kinds -> BOOLEAN]
    BY <1>0, <1>1, <2>1 DEF Kinds
  <2>4. TypeOK'
    BY <1>0, <1>1, <2>2, <2>3, FrameTypes, TypeOKPrime DEF Subscribe, linkVars
  <2>5. SubscribeBound'
    BY <1>1, <2>1, Assumptions DEF SubscribeBound
  <2>6. BufQueued'
    BY <1>0, <1>1 DEF IInv, BufQueued
  <2>7. BufUnique'
    BY <1>0, <1>1 DEF IInv, BufUnique
  <2>8. ReplyCount'
    BY <1>1, NoAnswerReplyCount DEF Subscribe, IInv
  <2>. QED  BY <2>4, <2>5, <2>6, <2>7, <2>8 DEF IInv
<1>2. CASE /\ dpc' = "failed"
           /\ DropBuffered("abandoned")
           /\ UNCHANGED <<nsub, ended>>
  <2>1. /\ req' \in [Invs -> Req]
        /\ buf' \in [Kinds -> Seq(Invs)]
        /\ \A i \in Invs : req'[i].st = "answered" <=> req[i].st = "answered"
        /\ BufQueued' /\ BufUnique'
    BY <1>0, <1>2, DropBufferedIInv
  <2>2. TypeOK'
    BY <1>0, <1>2, <2>1, FrameTypes, TypeOKPrime DEF Subscribe, linkVars, DStates
  <2>. QED  BY <1>2, <2>1, <2>2, NoAnswerReplyCount DEF Subscribe, IInv, SubscribeBound
<1>. QED  BY <1>1, <1>2 DEF Subscribe

\* serve returning, or resubscribing, drops the buffers of the round.
LEMMA DropStepIInv ==
    ASSUME IInv, NEW to \in {"dropped", "abandoned"}, DropBuffered(to),
           dpc' \in {"subscribing", "stopped"},
           dpc' = "subscribing" => nsub' = 1,
           nsub' \in {1, nsub},
           UNCHANGED <<ended, resubs, commands, linkVars, replies>>
    PROVE  IInv'
<1>0. TypeOK
  BY DEF IInv
<1>1. /\ req' \in [Invs -> Req]
      /\ buf' \in [Kinds -> Seq(Invs)]
      /\ \A i \in Invs : req'[i].st = "answered" <=> req[i].st = "answered"
      /\ BufQueued' /\ BufUnique'
  BY <1>0, DropBufferedIInv
<1>2. nsub' \in 1..(K + 1)
  BY <1>0, Assumptions DEF TypeOK
<1>3. TypeOK'
  BY <1>0, <1>1, <1>2, FrameTypes, TypeOKPrime DEF linkVars, DStates
<1>4. SubscribeBound'
  BY Assumptions DEF SubscribeBound
<1>. QED  BY <1>1, <1>3, <1>4, NoAnswerReplyCount DEF IInv

LEMMA ServeReturnIInv == IInv /\ ServeReturn => IInv'
BY DropStepIInv DEF ServeReturn

LEMMA ResubscribeIInv == ASSUME IInv, NEW k \in Kinds, Resubscribe(k) PROVE IInv'
BY DropStepIInv DEF Resubscribe

LEMMA ProcessExitIInv == IInv /\ ProcessExit => IInv'
<1> SUFFICES ASSUME IInv, ProcessExit PROVE IInv'
  OBVIOUS
<1>0. TypeOK /\ req \in [Invs -> Req]
  BY FrameTypes DEF IInv
<1>1. req' \in [Invs -> Req]
  BY <1>0 DEF ProcessExit, Req, Status, InFlight
<1>2. \A i \in Invs : /\ req'[i].st = "answered" <=> req[i].st = "answered"
                      /\ req[i].st = "queued" => req'[i].st = "queued"
  BY <1>0 DEF ProcessExit, InFlight
<1>3. TypeOK'
  BY <1>0, <1>1, FrameTypes, TypeOKPrime DEF ProcessExit, linkVars, DStates
<1>4. BufQueued' /\ BufUnique'
  BY <1>0, <1>2, BufFrame DEF IInv, ProcessExit
<1>. QED  BY <1>2, <1>3, <1>4, NoAnswerReplyCount DEF ProcessExit, IInv, SubscribeBound

LEMMA AcceptIInv == ASSUME IInv, NEW k \in Kinds, Accept(k) PROVE IInv'
<1>0. TypeOK /\ req \in [Invs -> Req] /\ buf \in [Kinds -> Seq(Invs)]
  BY FrameTypes DEF IInv
<1> DEFINE i == Head(buf[k])
<1>1. /\ buf[k] # <<>>
      /\ Len(buf[k]) >= 1
      /\ i = buf[k][1]
      /\ i \in Invs
      /\ Tail(buf[k]) \in Seq(Invs)
      /\ Len(Tail(buf[k])) = Len(buf[k]) - 1
      /\ \A n \in 1..Len(Tail(buf[k])) : Tail(buf[k])[n] = buf[k][n + 1]
  BY <1>0, HeadTailProperties DEF Accept
<1>2. req[i].st = "queued"
  BY <1>1 DEF IInv, BufQueued
<1>3. PICK st \in {"collecting", "lookup", "rejected"} : req' = [req EXCEPT ![i].st = st]
  BY DEF Accept
<1>4. buf' = [buf EXCEPT ![k] = Tail(buf[k])]
  BY DEF Accept
<1>5. req' \in [Invs -> Req] /\ buf' \in [Kinds -> Seq(Invs)]
  BY <1>0, <1>1, <1>3, <1>4 DEF Req, Status
<1>6. TypeOK'
  BY <1>0, <1>5, FrameTypes, TypeOKPrime DEF Accept, linkVars
\* An invocation still buffered after the step is not the head taken.
<1>7. ASSUME NEW k2 \in Kinds, NEW n \in 1..Len(buf'[k2])
      PROVE  /\ buf'[k2][n] # i
             /\ \E m \in 1..Len(buf[k2]) : /\ buf'[k2][n] = buf[k2][m]
                                           /\ k2 = k => m = n + 1
                                           /\ k2 # k => m = n
  <2>1. CASE k2 = k
    <3>1. buf'[k2][n] = buf[k][n + 1] /\ n + 1 \in 1..Len(buf[k])
      BY <1>0, <1>1, <1>4, <2>1
    <3>2. buf[k][n + 1] # buf[k][1]
      BY <1>1, <3>1 DEF IInv, BufUnique
    <3>. QED  BY <1>1, <2>1, <3>1, <3>2
  <2>2. CASE k2 # k
    <3>1. buf'[k2] = buf[k2]
      BY <1>0, <1>4, <2>2
    <3>2. buf[k2][n] # buf[k][1]
      BY <1>1, <2>2, <3>1 DEF IInv, BufUnique
    <3>. QED  BY <1>1, <2>2, <3>1, <3>2
  <2>. QED  BY <2>1, <2>2
<1>8. BufQueued'
  <2> SUFFICES ASSUME NEW k2 \in Kinds, NEW n \in 1..Len(buf'[k2])
               PROVE  req'[buf'[k2][n]].st = "queued"
    BY DEF BufQueued
  <2>1. PICK m \in 1..Len(buf[k2]) : buf'[k2][n] = buf[k2][m]
    BY <1>7
  <2>2. buf[k2][m] \in Invs /\ req[buf[k2][m]].st = "queued"
    BY <1>0 DEF IInv, BufQueued
  <2>. QED  BY <1>3, <1>7, <2>1, <2>2
<1>9. BufUnique'
  <2> SUFFICES ASSUME NEW k1 \in Kinds, NEW k2 \in Kinds,
                      NEW n1 \in 1..Len(buf'[k1]), NEW n2 \in 1..Len(buf'[k2]),
                      buf'[k1][n1] = buf'[k2][n2]
               PROVE  k1 = k2 /\ n1 = n2
    BY DEF BufUnique
  <2>1. PICK m1 \in 1..Len(buf[k1]) : /\ buf'[k1][n1] = buf[k1][m1]
                                      /\ k1 = k => m1 = n1 + 1
                                      /\ k1 # k => m1 = n1
    BY <1>7
  <2>2. PICK m2 \in 1..Len(buf[k2]) : /\ buf'[k2][n2] = buf[k2][m2]
                                      /\ k2 = k => m2 = n2 + 1
                                      /\ k2 # k => m2 = n2
    BY <1>7
  <2>3. BufUnique
    BY DEF IInv
  <2>4. k1 = k2 /\ m1 = m2
    <3>1. buf[k1][m1] = buf[k2][m2]
      BY <2>1, <2>2
    <3>. QED  BY <3>1, <2>3 DEF BufUnique
  <2>. QED  BY <2>1, <2>2, <2>4
<1>10. ReplyCount'
  <2>1. \A j \in Invs : req'[j].st = "answered" <=> req[j].st = "answered"
    BY <1>0, <1>1, <1>2, <1>3
  <2>. QED  BY <2>1, NoAnswerReplyCount DEF Accept, IInv
<1>. QED  BY <1>6, <1>8, <1>9, <1>10 DEF Accept, IInv, SubscribeBound

LEMMA StreamFinishIInv == ASSUME IInv, NEW k \in Kinds, StreamFinish(k) PROVE IInv'
<1>0. TypeOK
  BY DEF IInv
<1>1. ended' \in [Kinds -> BOOLEAN] /\ resubs' \in 0..MaxResub
  BY <1>0, FrameTypes, Assumptions DEF StreamFinish
<1>2. TypeOK'
  BY <1>0, <1>1, FrameTypes, TypeOKPrime DEF StreamFinish, linkVars
<1>. QED  BY <1>2 DEF StreamFinish, IInv, SubscribeBound, BufQueued, BufUnique, ReplyCount

LEMMA TaskIInv == ASSUME IInv, NEW i \in Invs, Task(i) PROVE IInv'
<1>0. TypeOK /\ req \in [Invs -> Req] /\ actors \in [Sources -> Configs \cup {NoLink}]
  BY FrameTypes DEF IInv
\* A task moving on without transmitting.
<1>1. ASSUME NEW st \in {"lookup", "calling"}, NEW cl \in Configs \cup {NoLink},
             req[i].st \in InFlight,
             req' = [req EXCEPT ![i].st = st, ![i].client = cl],
             UNCHANGED <<dispatcherVars, linkVars, replies>>
      PROVE  IInv'
  <2>1. req' \in [Invs -> Req]
    <3>1. st \in Status
      BY DEF Status
    <3>. QED  BY <1>0, <1>1, <3>1, UpdStCl, Zenon
  <2>2. TypeOK'
    BY <1>0, <1>1, <2>1, FrameTypes, TypeOKPrime DEF dispatcherVars, linkVars
  <2>3. \A j \in Invs : /\ req'[j].st = "answered" <=> req[j].st = "answered"
                        /\ req[j].st = "queued" => req'[j].st = "queued"
    BY <1>0, <1>1 DEF InFlight
  <2>4. BufQueued' /\ BufUnique'
    BY <1>0, <1>1, <2>3, BufFrame DEF IInv, dispatcherVars
  <2>. QED  BY <1>1, <2>2, <2>3, <2>4, NoAnswerReplyCount
            DEF IInv, SubscribeBound, dispatcherVars
<1>2. CASE Collect(i)
  <2>1. CASE /\ req' = [req EXCEPT ![i].st = "lookup"]
             /\ UNCHANGED replies
    <3>1. req[i].client \in Configs \cup {NoLink}
      BY <1>0 DEF Req
    <3>2. req' = [req EXCEPT ![i].st = "lookup", ![i].client = req[i].client]
      BY <1>0, <2>1
    <3>. QED  BY <1>2, <2>1, <3>1, <3>2, <1>1 DEF Collect, InFlight
  <2>2. CASE Transmit(i, FALSE)
    BY <1>2, <2>2, TransmitIInv DEF Collect, InFlight
  <2>. QED  BY <1>2, <2>1, <2>2 DEF Collect
<1>3. CASE Lookup(i)
  <2>1. CASE req[i].ctx # NoCtx /\ actors[req[i].ctx] # NoLink
    <3>1. req[i].ctx \in Sources
      BY <1>0, <2>1 DEF Req, Ctxs
    <3>2. actors[req[i].ctx] \in Configs \cup {NoLink}
      BY <1>0, <3>1
    <3>. QED  BY <1>3, <2>1, <3>2, <1>1 DEF Lookup, InFlight
  <2>2. CASE ~(req[i].ctx # NoCtx /\ actors[req[i].ctx] # NoLink)
    BY <1>3, <2>2, TransmitIInv DEF Lookup, InFlight
  <2>. QED  BY <2>1, <2>2
<1>4. CASE Complete(i)
  BY <1>4, TransmitIInv DEF Complete, InFlight
<1>. QED  BY <1>2, <1>3, <1>4 DEF Task

\* A step of the link registry keeps the invariant.
LEMMA LinkStepIInv ==
    ASSUME IInv,
           actors' \in [Sources -> Configs \cup {NoLink}],
           building' \subseteq [src: Sources, cfg: Configs],
           hostLinks' \in [Sources -> Configs \cup {NoLink}],
           hostPuts' \subseteq [src: Sources, cfg: Configs],
           UNCHANGED <<dispatcherVars, req, replies>>
    PROVE  IInv'
<1>1. TypeOK'
  BY FrameTypes, TypeOKPrime DEF IInv, dispatcherVars
<1>. QED  BY <1>1 DEF IInv, SubscribeBound, BufQueued, BufUnique, ReplyCount, dispatcherVars

LEMMA LinkIInv ==
    ASSUME IInv,
           \/ \E s \in Sources, c \in Configs : PutLinkBegin(s, c)
           \/ \E b \in building : PutLinkCommit(b)
           \/ \E s \in Sources : DeleteLink(s)
           \/ Shutdown
    PROVE  IInv'
<1>0. TypeOK /\ actors \in [Sources -> Configs \cup {NoLink}]
      /\ building \subseteq [src: Sources, cfg: Configs]
      /\ hostLinks \in [Sources -> Configs \cup {NoLink}]
      /\ hostPuts \subseteq [src: Sources, cfg: Configs]
  BY FrameTypes DEF IInv
<1>1. ASSUME NEW s \in Sources, NEW c \in Configs, PutLinkBegin(s, c) PROVE IInv'
  BY <1>0, <1>1, LinkStepIInv DEF PutLinkBegin
<1>2. ASSUME NEW b \in building, PutLinkCommit(b) PROVE IInv'
  <2>1. b.src \in Sources /\ b.cfg \in Configs
    BY <1>0
  <2>. QED  BY <1>0, <1>2, <2>1, LinkStepIInv DEF PutLinkCommit
<1>3. ASSUME NEW s \in Sources, DeleteLink(s) PROVE IInv'
  BY <1>0, <1>3, LinkStepIInv DEF DeleteLink
<1>4. CASE Shutdown
  BY <1>0, <1>4, LinkStepIInv DEF Shutdown
<1>. QED  BY <1>1, <1>2, <1>3, <1>4

LEMMA SendIInv ==
    ASSUME IInv, NEW i \in Invs, NEW k \in Kinds, NEW c \in Ctxs, Send(i, k, c)
    PROVE  IInv'
<1>0. TypeOK /\ req \in [Invs -> Req] /\ buf \in [Kinds -> Seq(Invs)]
  BY FrameTypes DEF IInv
\* i is idle, so it is in no buffer.
<1>1. \A k2 \in Kinds : \A n \in 1..Len(buf[k2]) : buf[k2][n] # i
  BY DEF Send, IInv, BufQueued
\* What sending does to req, routed or not.
<1>2. ASSUME NEW s \in {"queued", "unrouted"},
             req' = [req EXCEPT ![i].st = s, ![i].kind = k, ![i].ctx = c]
      PROVE  /\ req' \in [Invs -> Req]
             /\ req'[i].st = s
             /\ \A j \in Invs : j # i => req'[j] = req[j]
             /\ \A j \in Invs : req'[j].st = "answered" <=> req[j].st = "answered"
  <2>1. s \in Status
    BY DEF Status
  <2>2. /\ req' \in [Invs -> Req]
        /\ req'[i].st = s
        /\ \A j \in Invs : j # i => req'[j] = req[j]
    BY <1>0, <1>2, <2>1, Zenon DEF Req
  <2>3. req[i].st = "idle"
    BY DEF Send
  <2>. QED  BY <2>2, <2>3
<1>3. UNCHANGED <<dpc, nsub, ended, resubs, commands, linkVars, replies>>
  BY DEF Send
<1>5. CASE Live(k)
  <2>0. /\ req' = [req EXCEPT ![i].st = "queued", ![i].kind = k, ![i].ctx = c]
        /\ buf' = [buf EXCEPT ![k] = Append(buf[k], i)]
    BY <1>5 DEF Send
  <2>1. /\ req' \in [Invs -> Req]
        /\ req'[i].st = "queued"
        /\ \A j \in Invs : j # i => req'[j] = req[j]
        /\ \A j \in Invs : req'[j].st = "answered" <=> req[j].st = "answered"
    BY <2>0, <1>2
  <2>2. /\ Append(buf[k], i) \in Seq(Invs)
        /\ Len(Append(buf[k], i)) = Len(buf[k]) + 1
        /\ \A n \in 1..Len(buf[k]) : Append(buf[k], i)[n] = buf[k][n]
        /\ Append(buf[k], i)[Len(buf[k]) + 1] = i
    BY <1>0, AppendProperties
  <2>3. buf' \in [Kinds -> Seq(Invs)]
    BY <1>0, <2>0, <2>2
  <2>4. TypeOK'
    BY <1>0, <1>3, <2>1, <2>3, FrameTypes, TypeOKPrime DEF linkVars
  \* Every slot after the step holds i in the new last slot of k, or what
  \* it held before.
  <2>5. ASSUME NEW k2 \in Kinds, NEW n \in 1..Len(buf'[k2])
        PROVE  \/ k2 = k /\ n = Len(buf[k]) + 1 /\ buf'[k2][n] = i
               \/ n \in 1..Len(buf[k2]) /\ buf'[k2][n] = buf[k2][n]
    BY <1>0, <2>0, <2>2
  <2>6. BufQueued'
    <3> SUFFICES ASSUME NEW k2 \in Kinds, NEW n \in 1..Len(buf'[k2])
                 PROVE  req'[buf'[k2][n]].st = "queued"
      BY DEF BufQueued
    <3>1. CASE n \in 1..Len(buf[k2]) /\ buf'[k2][n] = buf[k2][n]
      <4>1. buf[k2][n] \in Invs /\ buf[k2][n] # i /\ req[buf[k2][n]].st = "queued"
        BY <1>0, <1>1, <3>1 DEF IInv, BufQueued
      <4>. QED  BY <2>1, <3>1, <4>1
    <3>. QED  BY <2>1, <2>5, <3>1
  <2>7. BufUnique'
    <3> SUFFICES ASSUME NEW k1 \in Kinds, NEW k2 \in Kinds,
                        NEW n1 \in 1..Len(buf'[k1]), NEW n2 \in 1..Len(buf'[k2]),
                        buf'[k1][n1] = buf'[k2][n2]
                 PROVE  k1 = k2 /\ n1 = n2
      BY DEF BufUnique
    <3>0. BufUnique
      BY DEF IInv
    <3>1. CASE n1 \in 1..Len(buf[k1]) /\ buf'[k1][n1] = buf[k1][n1]
               /\ n2 \in 1..Len(buf[k2]) /\ buf'[k2][n2] = buf[k2][n2]
      <4>1. buf[k1][n1] = buf[k2][n2]
        BY <3>1
      <4>. QED  BY <3>0, <3>1, <4>1 DEF BufUnique
    <3>2. CASE k1 = k /\ n1 = Len(buf[k]) + 1 /\ buf'[k1][n1] = i
      <4>1. CASE k2 = k /\ n2 = Len(buf[k]) + 1
        BY <3>2, <4>1
      <4>2. CASE n2 \in 1..Len(buf[k2]) /\ buf'[k2][n2] = buf[k2][n2]
        BY <1>1, <3>2, <4>2
      <4>. QED  BY <2>5, <4>1, <4>2
    <3>4. CASE k2 = k /\ n2 = Len(buf[k]) + 1 /\ buf'[k2][n2] = i
               /\ n1 \in 1..Len(buf[k1]) /\ buf'[k1][n1] = buf[k1][n1]
      BY <1>1, <3>4
    <3>. QED  BY <2>5, <3>1, <3>2, <3>4
  <2>8. ReplyCount'
    BY <1>3, <2>1, NoAnswerReplyCount DEF IInv
  <2>9. SubscribeBound'
    BY <1>3 DEF IInv, SubscribeBound
  <2>. QED  BY <2>4, <2>6, <2>7, <2>8, <2>9 DEF IInv
<1>6. CASE ~Live(k)
  <2>0. /\ req' = [req EXCEPT ![i].st = "unrouted", ![i].kind = k, ![i].ctx = c]
        /\ UNCHANGED buf
    BY <1>6 DEF Send
  <2>1. /\ req' \in [Invs -> Req]
        /\ req'[i].st = "unrouted"
        /\ \A j \in Invs : j # i => req'[j] = req[j]
        /\ \A j \in Invs : req'[j].st = "answered" <=> req[j].st = "answered"
    BY <2>0, <1>2
  <2>2. TypeOK'
    BY <1>0, <1>3, <2>0, <2>1, FrameTypes, TypeOKPrime DEF linkVars
  <2>3. \A j \in Invs : req[j].st = "queued" => req'[j].st = "queued"
    BY <2>1 DEF Send
  <2>4. BufQueued' /\ BufUnique'
    BY <1>0, <2>0, <2>3, BufFrame DEF IInv
  <2>5. ReplyCount'
    BY <1>3, <2>1, NoAnswerReplyCount DEF IInv
  <2>6. SubscribeBound'
    BY <1>3 DEF IInv, SubscribeBound
  <2>. QED  BY <2>2, <2>4, <2>5, <2>6 DEF IInv
<1>. QED  BY <1>5, <1>6

LEMMA CommandsResolveIInv == IInv /\ CommandsResolve => IInv'
<1> SUFFICES ASSUME IInv, CommandsResolve PROVE IInv'
  OBVIOUS
<1>1. TypeOK'
  BY FrameTypes, TypeOKPrime DEF IInv, CommandsResolve, linkVars
<1>. QED  BY <1>1 DEF CommandsResolve, IInv, SubscribeBound, BufQueued, BufUnique, ReplyCount

LEMMA StutterIInv == IInv /\ UNCHANGED vars => IInv'
<1> SUFFICES ASSUME IInv, UNCHANGED vars PROVE IInv'
  OBVIOUS
<1>1. TypeOK'
  BY FrameTypes, TypeOKPrime DEF IInv, vars
<1>. QED  BY <1>1 DEF vars, IInv, SubscribeBound, BufQueued, BufUnique, ReplyCount

LEMMA NextIInv == IInv /\ [Next]_vars => IInv'
<1> SUFFICES ASSUME IInv, [Next]_vars PROVE IInv'
  OBVIOUS
<1>1. CASE Subscribe             BY <1>1, SubscribeIInv
<1>2. CASE ServeReturn           BY <1>2, ServeReturnIInv
<1>3. CASE ProcessExit           BY <1>3, ProcessExitIInv
<1>4. CASE \E k \in Kinds : Accept(k) \/ Resubscribe(k) \/ StreamFinish(k)
  BY <1>4, AcceptIInv, ResubscribeIInv, StreamFinishIInv
<1>5. CASE \E i \in Invs : Task(i)
  BY <1>5, TaskIInv
<1>6. CASE \/ \E s \in Sources, c \in Configs : PutLinkBegin(s, c)
           \/ \E b \in building : PutLinkCommit(b)
           \/ \E s \in Sources : DeleteLink(s)
           \/ Shutdown
  BY <1>6, LinkIInv
<1>7. CASE \E i \in Invs, k \in Kinds, c \in Ctxs : Send(i, k, c)
  BY <1>7, SendIInv
<1>8. CASE CommandsResolve       BY <1>8, CommandsResolveIInv
<1>9. CASE UNCHANGED vars        BY <1>9, StutterIInv
<1>. QED  BY <1>1, <1>2, <1>3, <1>4, <1>5, <1>6, <1>7, <1>8, <1>9 DEF Next

-----------------------------------------------------------------------------
\* The dispatcher model is well typed in every state (TypeOK).
THEOREM TypeCorrect == Spec => []TypeOK
<1>1. IInv => TypeOK  BY DEF IInv
<1>. QED  BY <1>1, InitIInv, NextIInv, PTL DEF Spec

\* No invocation is ever answered twice (AtMostOneReply): each handler
\* transmits once, and serve_write_container_data returns after transmitting
\* a buffering error, under any interleaving of tasks, link commands,
\* resubscriptions and shutdown.
THEOREM ReplyAtMostOnce == Spec => []AtMostOneReply
<1>1. IInv => AtMostOneReply  BY DEF IInv, ReplyCount, AtMostOneReply
<1>. QED  BY <1>1, InitIInv, NextIInv, PTL DEF Spec
=============================================================================
