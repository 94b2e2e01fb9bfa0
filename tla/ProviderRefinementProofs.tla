----------------------- MODULE ProviderRefinementProofs -----------------------
(***************************************************************************)
(* Proofs, for every value of the constants, that                          *)
(*  - OkLinked: Spec => []OkReplyHadLink, a successful answer was computed *)
(*    with a client the host linked for its caller's own source id;        *)
(*  - Refinement: Spec => Life!Safety, the dispatcher model implements the *)
(*    safety part of the invocation lifecycle under the mapping of         *)
(*    ProviderRefinement.                                                  *)
(* Both rest on the invariant IInv of BlobstoreProviderProofs: its type    *)
(* part gives each variable its type, and BufQueued says that the          *)
(* invocation select! takes out of a buffer is one still queued, i.e. a    *)
(* waiting one of the lifecycle.                                           *)
(***************************************************************************)
EXTENDS ProviderRefinement, BlobstoreProviderProofs

\* The lifecycle's variables under the refinement mapping.
ph == [j \in Invs |-> PhaseOf[req[j].st]]
cx == [j \in Invs |-> req[j].ctx]
cl == [j \in Invs |-> req[j].client]
okv == [j \in Invs |-> req[j].ok]

-----------------------------------------------------------------------------
(* Lemmas on the mapping.                                                   *)

\* The phase of each status, as the steps need it.
LEMMA PhaseFacts ==
    ASSUME NEW st \in Status
    PROVE  /\ PhaseOf[st] \in Life!Serving <=> st \in InFlight
           /\ PhaseOf[st] = "waiting" <=> st = "queued"
           /\ PhaseOf[st] = "idle" <=> st = "idle"
           /\ PhaseOf[st] = "bound" <=> st = "calling"
           /\ PhaseOf[st] = "serving" <=> st \in {"collecting", "lookup"}
BY DEF Status, PhaseOf, Life!Serving, InFlight

\* A step that changes the request of one invocation i changes the mapped
\* variables at i only.
LEMMA MapOne ==
    ASSUME NEW i \in Invs, req \in [Invs -> Req], req' \in [Invs -> Req],
           \A j \in Invs : j # i => req'[j] = req[j]
    PROVE  /\ ph' = [ph EXCEPT ![i] = PhaseOf[req'[i].st]]
           /\ cx' = [cx EXCEPT ![i] = req'[i].ctx]
           /\ cl' = [cl EXCEPT ![i] = req'[i].client]
           /\ okv' = [okv EXCEPT ![i] = req'[i].ok]
BY DEF ph, cx, cl, okv

\* The fields of the record updates of the model.  Zenon, since the SMT
\* backend does not encode an EXCEPT on a record field.
LEMMA FieldsSt ==
    ASSUME NEW r \in Req, NEW s
    PROVE  /\ [r EXCEPT !.st = s].st = s
           /\ [r EXCEPT !.st = s].ctx = r.ctx
           /\ [r EXCEPT !.st = s].client = r.client
           /\ [r EXCEPT !.st = s].ok = r.ok
BY Zenon DEF Req

LEMMA FieldsOne ==
    ASSUME NEW f \in [Invs -> Req], NEW i \in Invs, NEW s, NEW c, NEW b
    PROVE  /\ [f EXCEPT ![i].st = s][i] = [f[i] EXCEPT !.st = s]
           /\ [f EXCEPT ![i].st = s, ![i].ok = b][i].st = s
           /\ [f EXCEPT ![i].st = s, ![i].ok = b][i].ctx = f[i].ctx
           /\ [f EXCEPT ![i].st = s, ![i].ok = b][i].client = f[i].client
           /\ [f EXCEPT ![i].st = s, ![i].ok = b][i].ok = b
           /\ [f EXCEPT ![i].st = s, ![i].client = c][i].st = s
           /\ [f EXCEPT ![i].st = s, ![i].client = c][i].ctx = f[i].ctx
           /\ [f EXCEPT ![i].st = s, ![i].client = c][i].client = c
           /\ [f EXCEPT ![i].st = s, ![i].client = c][i].ok = f[i].ok
           /\ [f EXCEPT ![i].st = s, ![i].kind = b, ![i].ctx = c][i].st = s
           /\ [f EXCEPT ![i].st = s, ![i].kind = b, ![i].ctx = c][i].ctx = c
           /\ [f EXCEPT ![i].st = s, ![i].kind = b, ![i].ctx = c][i].client = f[i].client
           /\ [f EXCEPT ![i].st = s, ![i].kind = b, ![i].ctx = c][i].ok = f[i].ok
           /\ \A j \in Invs : j # i => [f EXCEPT ![i].st = s][j] = f[j]
BY Zenon DEF Req

-----------------------------------------------------------------------------
LEMMA InitRefined == Init => Life!Init
<1> SUFFICES ASSUME Init PROVE Life!Init
  OBVIOUS
<1>1. \A j \in Invs : req[j].st = "idle" /\ req[j].ctx = NoCtx
                      /\ req[j].client = NoLink /\ req[j].ok = FALSE
  BY DEF Init
<1>2. PhaseOf["idle"] = "idle"
  BY DEF PhaseOf
<1>. QED  BY <1>1, <1>2 DEF Init, Life!Init

\* A step that leaves the requests, the registry, the replies and the
\* process alone is a stuttering step of the lifecycle.
LEMMA StutterRefined ==
    ASSUME UNCHANGED <<req, actors, replies>>, (dpc' = "exited") <=> (dpc = "exited")
    PROVE  UNCHANGED Life!lvars
BY DEF Life!lvars

\* Dropping every subscription of the round loses what they buffered.
LEMMA DropRefined ==
    ASSUME TypeOK, NEW to \in {"dropped", "abandoned"}, DropBuffered(to),
           UNCHANGED <<actors, replies>>, (dpc' = "exited") <=> (dpc = "exited")
    PROVE  Life!Lose(Buffered)
<1>0. req \in [Invs -> Req]
  BY DEF TypeOK
<1>1. ASSUME NEW j \in Invs
      PROVE  /\ PhaseOf[req'[j].st] = IF j \in Buffered THEN "lost" ELSE PhaseOf[req[j].st]
             /\ req'[j].ctx = req[j].ctx
             /\ req'[j].client = req[j].client
             /\ req'[j].ok = req[j].ok
  <2>1. CASE j \in Buffered
    <3>1. req'[j] = [req[j] EXCEPT !.st = to]
      BY <2>1 DEF DropBuffered
    <3>2. req[j] \in Req
      BY <1>0
    <3>3. PhaseOf[to] = "lost"
      BY DEF PhaseOf
    <3>. QED  BY <2>1, <3>1, <3>2, <3>3, FieldsSt
  <2>2. CASE j \notin Buffered
    BY <2>2 DEF DropBuffered
  <2>. QED  BY <2>1, <2>2
<1>2. \A j \in Buffered : PhaseOf[req[j].st] = "waiting"
  BY DEF Buffered, PhaseOf
<1>3. Buffered \subseteq Invs
  BY DEF Buffered
<1>. QED  BY <1>1, <1>2, <1>3 DEF Life!Lose

\* The one transmission of a task in flight is the lifecycle's answer.
LEMMA TransmitRefined ==
    ASSUME TypeOK, NEW i \in Invs, NEW ok \in BOOLEAN, Transmit(i, ok),
           req[i].st \in InFlight, ok => req[i].st = "calling",
           UNCHANGED <<actors>>, dpc' = dpc
    PROVE  \E r, d \in BOOLEAN : Life!Answer(i, r, d)
<1>0. req \in [Invs -> Req] /\ replies \in [Invs -> Nat]
  BY DEF TypeOK
<1>1. PICK delivered \in BOOLEAN :
          /\ req' = [req EXCEPT ![i].st = IF delivered THEN "answered" ELSE "unanswered",
                                ![i].ok = ok]
          /\ replies' = [replies EXCEPT ![i] = @ + (IF delivered THEN 1 ELSE 0)]
  BY DEF Transmit
<1>2. (IF delivered THEN "answered" ELSE "unanswered") \in Status
  BY DEF Status
<1>3. /\ req' \in [Invs -> Req]
      /\ \A j \in Invs : j # i => req'[j] = req[j]
      /\ req'[i].st = IF delivered THEN "answered" ELSE "unanswered"
      /\ req'[i].ctx = req[i].ctx
      /\ req'[i].client = req[i].client
      /\ req'[i].ok = ok
  <2>0. PICK st \in Status : st = IF delivered THEN "answered" ELSE "unanswered"
    BY <1>2
  <2>1. req' \in [Invs -> Req]
    <3>1. [req EXCEPT ![i].st = st, ![i].ok = ok] \in [Invs -> Req]
      BY <1>0, UpdStOk
    <3>. QED  BY <1>1, <2>0, <3>1
  <2>2. \A j \in Invs : j # i => req'[j] = req[j]
    <3>1. \A j \in Invs : j # i => [req EXCEPT ![i].st = st, ![i].ok = ok][j] = req[j]
      BY <1>0, UpdStOk
    <3>. QED  BY <1>1, <2>0, <3>1
  <2>3. /\ req'[i].st = IF delivered THEN "answered" ELSE "unanswered"
        /\ req'[i].ctx = req[i].ctx
        /\ req'[i].client = req[i].client
        /\ req'[i].ok = ok
    BY <1>0, <1>1, Zenon DEF Req
  <2>. QED  BY <2>1, <2>2, <2>3
<1>4. /\ ph' = [ph EXCEPT ![i] = PhaseOf[req'[i].st]]
      /\ cx' = [cx EXCEPT ![i] = req'[i].ctx]
      /\ cl' = [cl EXCEPT ![i] = req'[i].client]
      /\ okv' = [okv EXCEPT ![i] = req'[i].ok]
  BY <1>0, <1>3, MapOne
<1>5. PhaseOf[IF delivered THEN "answered" ELSE "unanswered"]
        = IF delivered THEN "answered" ELSE "unanswered"
  BY DEF PhaseOf
<1>6. /\ PhaseOf[req[i].st] \in Life!Serving
      /\ ok => PhaseOf[req[i].st] = "bound"
  <2>1. req[i].st \in Status
    BY <1>0 DEF Req
  <2>. QED  BY <2>1, PhaseFacts
<1>7. cx' = cx /\ cl' = cl
  BY <1>0, <1>3, <1>4 DEF cx, cl
<1>8. /\ ph[i] \in Life!Serving
      /\ ok => ph[i] = "bound"
      /\ ph' = [ph EXCEPT ![i] = IF delivered THEN "answered" ELSE "unanswered"]
      /\ okv' = [okv EXCEPT ![i] = ok]
  BY <1>3, <1>4, <1>5, <1>6 DEF ph
<1>9. Life!Answer(i, ok, delivered)
  BY <1>1, <1>7, <1>8 DEF Life!Answer, ph, cx, cl, okv
<1>. QED  BY <1>9

\* A step that only moves invocation i to status st maps to a change of
\* its phase alone.
LEMMA StUpdate ==
    ASSUME TypeOK, NEW i \in Invs, NEW st \in Status, req' = [req EXCEPT ![i].st = st]
    PROVE  /\ ph' = [ph EXCEPT ![i] = PhaseOf[st]]
           /\ cx' = cx /\ cl' = cl /\ okv' = okv
<1>0. req \in [Invs -> Req]
  BY DEF TypeOK
<1>1. /\ req' \in [Invs -> Req]
      /\ \A j \in Invs : j # i => req'[j] = req[j]
  BY <1>0, Zenon DEF Req
<1>2. /\ req'[i].st = st
      /\ req'[i].ctx = req[i].ctx
      /\ req'[i].client = req[i].client
      /\ req'[i].ok = req[i].ok
  BY <1>0, Zenon DEF Req
<1>3. /\ ph' = [ph EXCEPT ![i] = PhaseOf[req'[i].st]]
      /\ cx' = [cx EXCEPT ![i] = req'[i].ctx]
      /\ cl' = [cl EXCEPT ![i] = req'[i].client]
      /\ okv' = [okv EXCEPT ![i] = req'[i].ok]
  BY <1>0, <1>1, MapOne
<1>. QED  BY <1>2, <1>3 DEF cx, cl, okv

\* select! yields the head of a buffer: spawning its task begins serving
\* it; failing to accept it loses it.
LEMMA AcceptRefined ==
    ASSUME IInv, NEW k \in Kinds, Accept(k)
    PROVE  \/ \E i \in Invs : Life!Begin(i)
           \/ \E S \in SUBSET Invs : Life!Lose(S)
<1>0. TypeOK /\ req \in [Invs -> Req] /\ buf \in [Kinds -> Seq(Invs)]
  BY FrameTypes DEF IInv
<1>1. PICK i \in Invs : i = Head(buf[k]) /\ req[i].st = "queued"
  <2>1. Len(buf[k]) >= 1 /\ Head(buf[k]) = buf[k][1] /\ buf[k][1] \in Invs
    BY <1>0 DEF Accept
  <2>. QED  BY <1>0, <2>1 DEF IInv, BufQueued
<1>2. PICK st \in {"collecting", "lookup", "rejected"} : req' = [req EXCEPT ![i].st = st]
  BY <1>1, Zenon DEF Accept
<1>3. /\ ph' = [ph EXCEPT ![i] = PhaseOf[st]]
      /\ cx' = cx /\ cl' = cl /\ okv' = okv
  <2>1. st \in Status
    BY DEF Status
  <2>. QED  BY <1>0, <1>1, <1>2, <2>1, StUpdate
<1>4. /\ UNCHANGED <<actors, replies>>
      /\ dpc = "serving" /\ dpc' = dpc
      /\ ph[i] = "waiting"
  <2>1. UNCHANGED <<actors, replies>> /\ dpc = "serving" /\ dpc' = dpc
    BY Zenon DEF Accept, linkVars
  <2>2. ph[i] = "waiting"
    BY <1>1 DEF ph, PhaseOf
  <2>. QED  BY <2>1, <2>2
<1>5. CASE st \in {"collecting", "lookup"}
  <2>1. PhaseOf[st] = "serving"
    BY <1>5 DEF PhaseOf
  <2>2. Life!Begin(i)
    BY <1>3, <1>4, <2>1 DEF Life!Begin, ph, cx, cl, okv
  <2>. QED  BY <1>1, <2>2, Zenon
<1>6. CASE st = "rejected"
  <2>1. PhaseOf[st] = "lost"
    BY <1>6 DEF PhaseOf
  <2>2. ph' = [j \in Invs |-> IF j \in {i} THEN "lost" ELSE ph[j]]
    BY <1>3, <2>1 DEF ph
  <2>3. Life!Lose({i})
    BY <1>3, <1>4, <2>2 DEF Life!Lose, ph, cx, cl, okv
  <2>4. {i} \in SUBSET Invs
    BY <1>1
  <2>. QED  BY <2>3, <2>4, Zenon
<1>. QED  BY <1>5, <1>6

\* A step of a handler task: buffering the data stream is invisible to the
\* lifecycle, the lookup binds the caller's client, and the transmission
\* is the answer.
LEMMA TaskRefined ==
    ASSUME IInv, NEW i \in Invs, Task(i)
    PROVE  \/ UNCHANGED Life!lvars
           \/ Life!Bind(i)
           \/ \E r, d \in BOOLEAN : Life!Answer(i, r, d)
<1>0. TypeOK /\ req \in [Invs -> Req] /\ actors \in [Sources -> Configs \cup {NoLink}]
  BY FrameTypes DEF IInv
<1>1. CASE Collect(i)
  <2>1. CASE req' = [req EXCEPT ![i].st = "lookup"] /\ UNCHANGED replies
    <3>1. /\ ph' = [ph EXCEPT ![i] = PhaseOf["lookup"]]
          /\ cx' = cx /\ cl' = cl /\ okv' = okv
      <4>1. "lookup" \in Status
        BY DEF Status
      <4>. QED  BY <1>0, <2>1, <4>1, StUpdate
    <3>2. ph' = ph
      <4>1. req[i].st = "collecting"
        BY <1>1, Zenon DEF Collect
      <4>2. ph[i] = PhaseOf["lookup"]
        BY <4>1 DEF ph, PhaseOf
      <4>. QED  BY <3>1, <4>2 DEF ph
    <3>3. UNCHANGED <<actors, dpc, replies>>
      BY <1>1, <2>1 DEF Collect, dispatcherVars, linkVars
    <3>. QED  BY <3>1, <3>2, <3>3 DEF Life!lvars, ph, cx, cl, okv
  <2>2. CASE Transmit(i, FALSE)
    <3>1. req[i].st \in InFlight /\ UNCHANGED <<actors, dpc>>
      BY <1>1 DEF Collect, InFlight, dispatcherVars, linkVars
    <3>. QED  BY <1>0, <2>2, <3>1, TransmitRefined
  <2>. QED  BY <1>1, <2>1, <2>2 DEF Collect
<1>2. CASE Lookup(i)
  <2>0. req[i].st = "lookup" /\ UNCHANGED <<actors, dpc>>
    BY <1>2 DEF Lookup, dispatcherVars, linkVars
  <2>1. CASE req[i].ctx # NoCtx /\ actors[req[i].ctx] # NoLink
    <3>1. /\ req' = [req EXCEPT ![i].st = "calling", ![i].client = actors[req[i].ctx]]
          /\ UNCHANGED replies
      BY <1>2, <2>1 DEF Lookup
    <3>2. req[i].ctx \in Sources
      BY <1>0, <2>1 DEF TypeOK, Req, Ctxs
    <3>3. /\ req' \in [Invs -> Req]
          /\ \A j \in Invs : j # i => req'[j] = req[j]
      <4>1. actors[req[i].ctx] \in Configs \cup {NoLink} /\ "calling" \in Status
        BY <1>0, <3>2 DEF Status
      <4>2. req' \in [Invs -> Req]
        BY <1>0, <3>1, <4>1, Zenon DEF Req
      <4>3. \A j \in Invs : j # i => req'[j] = req[j]
        BY <1>0, <3>1, <4>1, Zenon DEF Req
      <4>. QED  BY <4>2, <4>3
    <3>4. /\ req'[i].st = "calling"
          /\ req'[i].ctx = req[i].ctx
          /\ req'[i].client = actors[req[i].ctx]
          /\ req'[i].ok = req[i].ok
      BY <1>0, <3>1, Zenon DEF Req
    <3>5. /\ ph' = [ph EXCEPT ![i] = PhaseOf[req'[i].st]]
          /\ cx' = [cx EXCEPT ![i] = req'[i].ctx]
          /\ cl' = [cl EXCEPT ![i] = req'[i].client]
          /\ okv' = [okv EXCEPT ![i] = req'[i].ok]
      BY <1>0, <3>3, MapOne
    <3>6. /\ ph[i] = "serving"
          /\ ph' = [ph EXCEPT ![i] = "bound"]
          /\ cl' = [cl EXCEPT ![i] = actors[cx[i]]]
          /\ cx' = cx /\ okv' = okv
      <4>1. ph[i] = "serving" /\ ph' = [ph EXCEPT ![i] = "bound"]
        BY <2>0, <3>4, <3>5 DEF ph, PhaseOf
      <4>2. cl' = [cl EXCEPT ![i] = actors[cx[i]]]
        BY <3>4, <3>5 DEF cx
      <4>3. cx' = cx /\ okv' = okv
        BY <3>4, <3>5 DEF cx, okv
      <4>. QED  BY <4>1, <4>2, <4>3
    <3>7. Life!Bind(i)
      BY <2>0, <2>1, <3>1, <3>2, <3>6 DEF Life!Bind, ph, cx, cl, okv
    <3>. QED  BY <3>7
  <2>2. CASE ~(req[i].ctx # NoCtx /\ actors[req[i].ctx] # NoLink)
    <3>1. Transmit(i, FALSE)
      BY <1>2, <2>2 DEF Lookup
    <3>. QED  BY <1>0, <2>0, <3>1, TransmitRefined DEF InFlight
  <2>. QED  BY <2>1, <2>2
<1>3. CASE Complete(i)
  <2>1. PICK ok \in BOOLEAN : Transmit(i, ok)
    BY <1>3 DEF Complete
  <2>2. req[i].st = "calling" /\ UNCHANGED <<actors, dpc>>
    BY <1>3 DEF Complete, dispatcherVars, linkVars
  <2>. QED  BY <1>0, <2>1, <2>2, TransmitRefined DEF InFlight
<1>. QED  BY <1>1, <1>2, <1>3 DEF Task

\* A caller's invocation reaches the live subscription of its kind or
\* nobody: the lifecycle's call, waiting or lost.
LEMMA SendRefined ==
    ASSUME IInv, NEW i \in Invs, NEW k \in Kinds, NEW c \in Ctxs, Send(i, k, c)
    PROVE  Life!Call(i, c)
<1>0. TypeOK /\ req \in [Invs -> Req]
  BY FrameTypes DEF IInv
<1>1. PICK s \in {"queued", "unrouted"} :
          /\ req' = [req EXCEPT ![i].st = s, ![i].kind = k, ![i].ctx = c]
          /\ s = "queued" => dpc \in {"subscribing", "serving"}
  BY Zenon DEF Send, Live
<1>2. /\ req[i].st = "idle"
      /\ UNCHANGED <<dpc, actors, replies>>
  BY Zenon DEF Send, linkVars
<1>3. s \in Status
  BY DEF Status
<1>4. req' \in [Invs -> Req]
  BY <1>0, <1>1, <1>3, Zenon DEF Req
<1>5. \A j \in Invs : j # i => req'[j] = req[j]
  BY <1>0, <1>1, <1>3, UpdSend, Zenon
<1>6. /\ req'[i].st = s
      /\ req'[i].ctx = c
      /\ req'[i].client = req[i].client
      /\ req'[i].ok = req[i].ok
  BY <1>0, <1>1, Zenon DEF Req
<1>7. /\ ph' = [ph EXCEPT ![i] = PhaseOf[req'[i].st]]
      /\ cx' = [cx EXCEPT ![i] = req'[i].ctx]
      /\ cl' = [cl EXCEPT ![i] = req'[i].client]
      /\ okv' = [okv EXCEPT ![i] = req'[i].ok]
  BY <1>0, <1>4, <1>5, MapOne
<1>8. /\ ph[i] = "idle"
      /\ ph' = [ph EXCEPT ![i] = PhaseOf[s]]
      /\ PhaseOf[s] \in {"waiting", "lost"}
      /\ PhaseOf[s] = "waiting" => dpc # "exited"
      /\ cx' = [cx EXCEPT ![i] = c]
      /\ cl' = cl /\ okv' = okv
  <2>1. ph[i] = "idle"
    BY <1>2 DEF ph, PhaseOf
  <2>2. ph' = [ph EXCEPT ![i] = PhaseOf[s]]
    BY <1>6, <1>7
  <2>3. /\ PhaseOf[s] \in {"waiting", "lost"}
        /\ PhaseOf[s] = "waiting" => dpc # "exited"
    BY <1>1 DEF PhaseOf
  <2>4. cx' = [cx EXCEPT ![i] = c] /\ cl' = cl /\ okv' = okv
    BY <1>6, <1>7 DEF cl, okv
  <2>. QED  BY <2>1, <2>2, <2>3, <2>4
<1>. QED  BY <1>2, <1>8 DEF Life!Call, ph, cx, cl, okv

\* The process exits after serve returned: every task in flight is aborted.
LEMMA ExitRefined ==
    ASSUME TypeOK, ProcessExit
    PROVE  Life!Exit
<1>0. req \in [Invs -> Req]
  BY DEF TypeOK
<1>1. ASSUME NEW j \in Invs
      PROVE  /\ PhaseOf[req'[j].st] = IF PhaseOf[req[j].st] \in Life!Serving
                                       THEN "aborted" ELSE PhaseOf[req[j].st]
             /\ req'[j].ctx = req[j].ctx
             /\ req'[j].client = req[j].client
             /\ req'[j].ok = req[j].ok
  <2>1. req[j] \in Req /\ req[j].st \in Status
    BY <1>0 DEF Req
  <2>2. PhaseOf[req[j].st] \in Life!Serving <=> req[j].st \in InFlight
    BY <2>1, PhaseFacts
  <2>3. CASE req[j].st \in InFlight
    <3>1. req'[j] = [req[j] EXCEPT !.st = "aborted"]
      BY <2>3 DEF ProcessExit
    <3>2. PhaseOf["aborted"] = "aborted"
      BY DEF PhaseOf
    <3>. QED  BY <2>1, <2>2, <2>3, <3>1, <3>2, FieldsSt
  <2>4. CASE req[j].st \notin InFlight
    BY <2>2, <2>4 DEF ProcessExit
  <2>. QED  BY <2>3, <2>4
<1>2. /\ dpc \in {"stopped", "failed"} /\ dpc' = "exited"
      /\ UNCHANGED <<actors, replies>>
  BY DEF ProcessExit, linkVars
<1>. QED  BY <1>1, <1>2 DEF Life!Exit

\* The host's link commands: put_link's insert and delete_link set one entry,
\* shutdown clears them all; put_link before its insert is not visible.
LEMMA LinkRefined ==
    ASSUME TypeOK,
           \/ \E s \in Sources, c \in Configs : PutLinkBegin(s, c)
           \/ \E b \in building : PutLinkCommit(b)
           \/ \E s \in Sources : DeleteLink(s)
           \/ Shutdown
    PROVE  \/ UNCHANGED Life!lvars
           \/ \E s \in Sources, v \in Configs \cup {NoLink} : Life!SetLink(s, v)
           \/ Life!ClearLinks
<1>1. CASE \E s \in Sources, c \in Configs : PutLinkBegin(s, c)
  BY <1>1, StutterRefined DEF PutLinkBegin, dispatcherVars
<1>2. CASE \E b \in building : PutLinkCommit(b)
  <2>1. PICK b \in building : PutLinkCommit(b)
    BY <1>2
  <2>2. b.src \in Sources /\ b.cfg \in Configs
    BY DEF TypeOK
  <2>3. Life!SetLink(b.src, b.cfg)
    BY <2>1 DEF PutLinkCommit, Life!SetLink, dispatcherVars
  <2>. QED  BY <2>2, <2>3
<1>3. CASE \E s \in Sources : DeleteLink(s)
  <2>1. PICK s \in Sources : DeleteLink(s)
    BY <1>3
  <2>2. Life!SetLink(s, NoLink)
    BY <2>1 DEF DeleteLink, Life!SetLink, dispatcherVars
  <2>. QED  BY <2>2
<1>4. CASE Shutdown
  BY <1>4 DEF Shutdown, Life!ClearLinks, dispatcherVars
<1>. QED  BY <1>1, <1>2, <1>3, <1>4

\* Losing a set of waiting invocations is a step of the lifecycle.
LEMMA LoseNext ==
    ASSUME Life!Lose(Buffered)
    PROVE  [Life!Next]_Life!lvars
<1>1. PICK S \in SUBSET Invs : S = Buffered
  BY DEF Buffered
<1>2. Life!Lose(S)
  BY <1>1 DEF Life!Lose
<1>3. \E T \in SUBSET Invs : Life!Lose(T)
  BY <1>1, <1>2
<1>. QED  BY <1>3 DEF Life!Next

\* Every step of the dispatcher model is a step of the lifecycle or leaves
\* it alone.
LEMMA StepRefined == IInv /\ [Next]_vars => [Life!Next]_Life!lvars
<1> SUFFICES ASSUME IInv, [Next]_vars PROVE [Life!Next]_Life!lvars
  OBVIOUS
<1>0. TypeOK
  BY DEF IInv
<1>1. CASE Subscribe
  <2>1. CASE UNCHANGED req /\ dpc' \in {"serving", "subscribing"}
    BY <1>1, <2>1, StutterRefined DEF Subscribe, linkVars
  <2>2. CASE dpc' = "failed" /\ DropBuffered("abandoned")
    <3>1. Life!Lose(Buffered)
      BY <1>0, <1>1, <2>2, DropRefined DEF Subscribe, linkVars, Buffered
    <3>. QED  BY <3>1, LoseNext
  <2>. QED  BY <1>1, <2>1, <2>2 DEF Subscribe
<1>2. CASE ServeReturn
  <2>1. Life!Lose(Buffered)
    BY <1>0, <1>2, DropRefined DEF ServeReturn, linkVars, Buffered
  <2>. QED  BY <2>1, LoseNext
<1>3. CASE ProcessExit
  BY <1>0, <1>3, ExitRefined DEF Life!Next
<1>4. CASE \E k \in Kinds : Accept(k)
  BY <1>4, AcceptRefined DEF Life!Next
<1>5. CASE \E k \in Kinds : Resubscribe(k)
  <2>1. Life!Lose(Buffered)
    BY <1>0, <1>5, DropRefined DEF Resubscribe, linkVars, Buffered
  <2>. QED  BY <2>1, LoseNext
<1>6. CASE \E k \in Kinds : StreamFinish(k)
  BY <1>6, StutterRefined DEF StreamFinish, linkVars
<1>7. CASE \E i \in Invs : Task(i)
  <2>1. PICK i \in Invs : Task(i)
    BY <1>7
  <2>. QED  BY <2>1, TaskRefined DEF Life!Next, Life!Serve
<1>8. CASE \/ \E s \in Sources, c \in Configs : PutLinkBegin(s, c)
           \/ \E b \in building : PutLinkCommit(b)
           \/ \E s \in Sources : DeleteLink(s)
           \/ Shutdown
  BY <1>0, <1>8, LinkRefined DEF Life!Next
<1>9. CASE \E i \in Invs, k \in Kinds, c \in Ctxs : Send(i, k, c)
  <2>1. PICK i \in Invs, k \in Kinds, c \in Ctxs : Send(i, k, c)
    BY <1>9
  <2>2. Life!Call(i, c) /\ c \in Sources \cup {NoCtx}
    BY <2>1, SendRefined DEF Ctxs
  <2>. QED  BY <2>2 DEF Life!Next
<1>10. CASE CommandsResolve
  BY <1>10, StutterRefined DEF CommandsResolve, linkVars
<1>11. CASE UNCHANGED vars
  BY <1>11, StutterRefined DEF vars
<1>. QED  BY <1>1, <1>2, <1>3, <1>4, <1>5, <1>6, <1>7, <1>8, <1>9, <1>10, <1>11 DEF Next

-----------------------------------------------------------------------------
\* The dispatcher, its spawned handler tasks and the host's link commands
\* implement the invocation lifecycle (safety part): an invocation is
\* served only after it reached a live subscription, binds the client its
\* caller's link had at lookup, answers at most once and successfully only
\* when bound; dropping subscriptions on resubscribe or return only loses
\* invocations still waiting.
THEOREM Refinement == Spec => Life!Safety
<1>1. Spec => []IInv
  BY InitIInv, NextIInv, PTL DEF Spec
<1>. QED  BY <1>1, InitRefined, StepRefined, PTL DEF Spec, Life!Safety

-----------------------------------------------------------------------------
(* OkReplyHadLink, proved on the lifecycle and the host's put_link history. *)

\* The registry only holds what the host linked: an entry, and a client
\* being built outside the lock, are a put_link the host signalled.
RegistryPuts ==
    /\ \A s \in Sources : actors[s] # NoLink => [src |-> s, cfg |-> actors[s]] \in hostPuts
    /\ building \subseteq hostPuts

\* Strengthening of OkReplyHadLink, stated on the mapped lifecycle: an
\* invocation bound to a client, or answered with success, has a source id
\* as context and holds a client the host linked for that source id.
ReqPuts ==
    \A j \in Invs : ph[j] = "bound" \/ (ph[j] = "answered" /\ okv[j]) =>
        cx[j] \in Sources /\ [src |-> cx[j], cfg |-> cl[j]] \in hostPuts

\* The link commands keep RegistryPuts, and the history only grows; every
\* other step leaves the link variables alone.
LEMMA PutsStep ==
    ASSUME TypeOK, RegistryPuts, [Next]_vars
    PROVE  RegistryPuts' /\ hostPuts \subseteq hostPuts'
<1>0. actors \in [Sources -> Configs \cup {NoLink}] /\ building \subseteq [src: Sources, cfg: Configs]
  BY DEF TypeOK
<1>1. CASE UNCHANGED linkVars
  BY <1>1 DEF RegistryPuts, linkVars
<1>2. ASSUME NEW s \in Sources, NEW c \in Configs, PutLinkBegin(s, c)
      PROVE  RegistryPuts' /\ hostPuts \subseteq hostPuts'
  BY <1>2 DEF PutLinkBegin, RegistryPuts
<1>3. ASSUME NEW b \in building, PutLinkCommit(b)
      PROVE  RegistryPuts' /\ hostPuts \subseteq hostPuts'
  <2>1. b = [src |-> b.src, cfg |-> b.cfg] /\ b.src \in Sources /\ b \in hostPuts
    BY <1>0 DEF RegistryPuts
  <2>. QED  BY <1>0, <1>3, <2>1 DEF PutLinkCommit, RegistryPuts
<1>4. ASSUME NEW s \in Sources, DeleteLink(s)
      PROVE  RegistryPuts' /\ hostPuts \subseteq hostPuts'
  BY <1>0, <1>4 DEF DeleteLink, RegistryPuts
<1>5. CASE Shutdown
  BY <1>5 DEF Shutdown, RegistryPuts
<1>6. CASE \/ Subscribe \/ ServeReturn \/ ProcessExit \/ CommandsResolve
           \/ \E k \in Kinds : Accept(k) \/ Resubscribe(k) \/ StreamFinish(k)
           \/ \E i \in Invs, k \in Kinds, c \in Ctxs : Send(i, k, c)
  BY <1>6, <1>1 DEF Subscribe, ServeReturn, ProcessExit, CommandsResolve, Accept,
                   Resubscribe, StreamFinish, Send
<1>7. CASE \E i \in Invs : Task(i)
  BY <1>7, <1>1 DEF Task, Collect, Lookup, Complete
<1>8. CASE UNCHANGED vars
  BY <1>8, <1>1 DEF vars, linkVars
<1>. QED  BY <1>2, <1>3, <1>4, <1>5, <1>6, <1>7, <1>8 DEF Next

\* Every step of the lifecycle preserves ReqPuts, given that the registry
\* only holds linked clients and that the history only grows: only Bind
\* makes an invocation bound, and it takes the client registered for its
\* caller; only Answer from a bound invocation makes a successful answer.
LEMMA LinkedStep ==
    ASSUME TypeOK, RegistryPuts, ReqPuts, hostPuts \subseteq hostPuts',
           [Life!Next]_Life!lvars
    PROVE  ReqPuts'
<1>0. actors \in [Sources -> Configs \cup {NoLink}]
  BY DEF TypeOK
<1>1. CASE UNCHANGED Life!lvars
  BY <1>1 DEF Life!lvars, ReqPuts, ph, cx, cl, okv
<1>2. CASE \E i \in Invs, c \in Sources \cup {NoCtx} : Life!Call(i, c)
  <2>1. PICK i \in Invs, c \in Sources \cup {NoCtx} : Life!Call(i, c)
    BY <1>2
  <2>. QED  BY <2>1 DEF Life!Call, ReqPuts, ph, cx, cl, okv
<1>3. CASE \E S \in SUBSET Invs : Life!Lose(S)
  <2>1. PICK S \in SUBSET Invs : Life!Lose(S)
    BY <1>3
  <2>. QED  BY <2>1 DEF Life!Lose, ReqPuts, ph, cx, cl, okv
<1>4. CASE \E i \in Invs : Life!Begin(i)
  <2>1. PICK i \in Invs : Life!Begin(i)
    BY <1>4
  <2>. QED  BY <2>1 DEF Life!Begin, ReqPuts, ph, cx, cl, okv
<1>5. CASE \E i \in Invs : Life!Bind(i)
  <2>1. PICK i \in Invs : Life!Bind(i)
    BY <1>5
  <2>2. [src |-> cx[i], cfg |-> actors[cx[i]]] \in hostPuts
    <3>1. cx[i] \in Sources /\ actors[cx[i]] # NoLink
      BY <2>1 DEF Life!Bind, cx
    <3>. QED  BY <3>1 DEF RegistryPuts
  <2>. QED  BY <2>1, <2>2, <1>0 DEF Life!Bind, ReqPuts, ph, cx, cl, okv
<1>6. CASE \E i \in Invs : \E r, d \in BOOLEAN : Life!Answer(i, r, d)
  <2>1. PICK i \in Invs, r, d \in BOOLEAN : Life!Answer(i, r, d)
    BY <1>6
  <2>. QED  BY <2>1 DEF Life!Answer, Life!Serving, ReqPuts, ph, cx, cl, okv
<1>7. CASE Life!Exit
  BY <1>7 DEF Life!Exit, Life!Serving, ReqPuts, ph, cx, cl, okv
<1>8. CASE \E s \in Sources, v \in Configs \cup {NoLink} : Life!SetLink(s, v)
  <2>1. PICK s \in Sources, v \in Configs \cup {NoLink} : Life!SetLink(s, v)
    BY <1>8
  <2>. QED  BY <2>1 DEF Life!SetLink, ReqPuts, ph, cx, cl, okv
<1>9. CASE Life!ClearLinks
  BY <1>9 DEF Life!ClearLinks, ReqPuts, ph, cx, cl, okv
<1>. QED  BY <1>1, <1>2, <1>3, <1>4, <1>5, <1>6, <1>7, <1>8, <1>9
          DEF Life!Next, Life!Serve

\* client() looks up the caller's own source id: whatever the interleaving
\* of put_link (client built outside the lock), delete_link, shutdown and
\* the handler tasks, every invocation answered with success was computed
\* with a client the host linked for the caller's source id, never with
\* another caller's link, and never without a link.
THEOREM OkLinked == Spec => []OkReplyHadLink
<1>1. Init => RegistryPuts /\ ReqPuts
  <2>1. PhaseOf["idle"] = "idle"
    BY DEF PhaseOf
  <2>. QED  BY <2>1 DEF Init, RegistryPuts, ReqPuts, ph, cx, cl, okv
<1>2. IInv /\ RegistryPuts /\ ReqPuts /\ [Next]_vars => RegistryPuts' /\ ReqPuts'
  BY StepRefined, PutsStep, LinkedStep DEF IInv
<1>3. ReqPuts => OkReplyHadLink
  <2> SUFFICES ASSUME ReqPuts, NEW j \in Invs, req[j].st = "answered", req[j].ok
               PROVE  /\ req[j].ctx \in Sources
                      /\ [src |-> req[j].ctx, cfg |-> req[j].client] \in hostPuts
    BY DEF OkReplyHadLink
  <2>1. PhaseOf["answered"] = "answered"
    BY DEF PhaseOf
  <2>. QED  BY <2>1 DEF ReqPuts, ph, cx, cl, okv
<1>. QED  BY <1>1, <1>2, <1>3, InitIInv, NextIInv, PTL DEF Spec

=============================================================================
