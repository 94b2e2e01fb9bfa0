------------------------- MODULE BlobstoreOpsProofs --------------------------
(***************************************************************************)
(* Proofs about the operation handlers, for every value of the constants: *)
(*  - MoveKeeps: Spec => MoveKeepsObject, a moved object is never gone     *)
(*    from both its source and its destination;                            *)
(*  - AliasMerge: Spec => []AliasMergeRule, unalias follows the alias      *)
(*    merge rule of spec.md section 4.3.                                   *)
(* MoveKeeps rests on OpsTypes, the typing of the store, the buckets and   *)
(* the tasks' control points; its names are never unfolded: Unalias stays  *)
(* an uninterpreted function of the name, so it holds for every alias      *)
(* table.                                                                  *)
(***************************************************************************)
EXTENDS BlobstoreOps, TLAPS

\* The typing the proofs need: the result values of the tasks are left
\* out (their key lists come from SelectSeq, about which the provers know
\* nothing without induction).
OpsTypes ==
    /\ inv \in [Tasks -> Invocations]
    /\ live \subseteq Buckets
    /\ store \in [Buckets -> SUBSET Keys]
    /\ pc \in [Tasks -> {"init", "second", "done"}]
    /\ res \in [Tasks -> {"none", "ok", "err"}]

LEMMA InitOpsTypes == Init => OpsTypes
BY DEF Init, OpsTypes

\* Every handler step keeps the typing: a put adds a key of the
\* invocation, and the buckets it creates are buckets of the account.
LEMMA StepOpsTypes ==
    ASSUME OpsTypes, NEW t \in Tasks, Step(t)
    PROVE  OpsTypes'
<1>0. inv[t] \in Invocations /\ inv' = inv
  BY DEF OpsTypes, Step
<1>1. inv[t].op \in {"write", "delete", "getdata", "has", "objinfo", "copy", "move"} => inv[t].k \in Keys
  BY <1>0, InvocationData
<1>2. inv[t].op \in {"copy", "move"} => inv[t].dk \in Keys
  BY <1>0, InvocationData
<1>. USE <1>0 DEF OpsTypes, Finish, Fail, Put, Del, Usable, Op, Init1
<1>3. CASE ListContainerObjects(t)
  BY <1>3 DEF ListContainerObjects
<1>4. CASE ClearList(t)
  BY <1>4 DEF ClearList
<1>5. CASE ClearDelete(t)
  BY <1>5 DEF ClearDelete, DeleteObjectsCall
<1>6. CASE DeleteObjects(t)
  BY <1>6 DEF DeleteObjects, DeleteObjectsCall
<1>7. CASE CopyObject(t)
  BY <1>7, <1>2 DEF CopyObject, CopyCall
<1>8. CASE MoveCopy(t)
  BY <1>8, <1>2 DEF MoveCopy, CopyCall
<1>9. CASE MoveDelete(t)
  BY <1>9 DEF MoveDelete
<1>10. CASE DeleteObject(t)
  BY <1>10 DEF DeleteObject
<1>11. CASE WriteContainerData(t)
  BY <1>11, <1>1 DEF WriteContainerData
<1>12. CASE GetContainerData(t)
  BY <1>12 DEF GetContainerData
<1>13. CASE HeadObject(t)
  BY <1>13 DEF HeadObject
<1>14. CASE HeadBucket(t)
  BY <1>14 DEF HeadBucket
<1>15. CASE CreateContainer(t)
  BY <1>15 DEF CreateContainer
<1>16. CASE DeleteContainer(t)
  BY <1>16 DEF DeleteContainer
<1>. QED  BY <1>0, <1>3, <1>4, <1>5, <1>6, <1>7, <1>8, <1>9, <1>10, <1>11, <1>12,
             <1>13, <1>14, <1>15, <1>16 DEF Step

LEMMA NextOpsTypes == OpsTypes /\ [Next]_vars => OpsTypes'
BY StepOpsTypes DEF Next, vars, OpsTypes

\* A task's step leaves every other task's control point and result alone:
\* each handler only finishes itself.
LEMMA OtherTask ==
    ASSUME OpsTypes, NEW t \in Tasks, NEW u \in Tasks, u # t, Step(u)
    PROVE  pc'[t] = pc[t] /\ res'[t] = res[t]
BY DEF OpsTypes, Step, Finish, Fail, ListContainerObjects, ClearList, ClearDelete,
       DeleteObjects, DeleteObjectsCall, CopyObject, MoveCopy, MoveDelete, DeleteObject,
       WriteContainerData, GetContainerData, HeadObject, HeadBucket, CreateContainer,
       DeleteContainer

-----------------------------------------------------------------------------
(* MoveKeepsObject.                                                         *)

\* Task t moves an object, and no other task removes objects from its
\* source or destination container.
Moving(t) == Op(t) = "move" /\ NoOtherRemover(t)

\* The moved object is at its source or at its destination.
Kept(t) == HoldsSource(t) \/ HoldsDest(t)

\* Between its copy and its delete, a move holds the object at its
\* destination, and the destination is not the source (CopyObject refuses
\* to copy an object onto itself).
MoveInv(t) ==
    Moving(t) /\ pc[t] = "second" =>
        /\ HoldsDest(t)
        /\ <<Unalias(inv[t].c), inv[t].k>> # <<Unalias(inv[t].dc), inv[t].dk>>

\* Another task never takes an object out of the source or the destination
\* of a move, nor removes that bucket while it holds the object: the
\* removers work on other buckets, DeleteBucket needs an empty one, and
\* the rest only put or read.
LEMMA OtherKeeps ==
    ASSUME OpsTypes, NEW t \in Tasks, NEW u \in Tasks, u # t, Step(u), Moving(t),
           NEW n \in {inv[t].c, inv[t].dc}, NEW key,
           Unalias(n) \in live, key \in store[Unalias(n)]
    PROVE  Unalias(n) \in live' /\ key \in store'[Unalias(n)]
<1>0. Op(u) \in {"clear", "deletemany", "delete", "move"} => Unalias(inv[u].c) # Unalias(n)
  BY DEF Moving, NoOtherRemover, Dest, Op
<1>1. Unalias(n) \in DOMAIN store
  BY DEF OpsTypes
<1>. USE <1>0, <1>1 DEF OpsTypes, Finish, Fail, Put, Del, Usable, Op, Init1
<1>2. CASE ClearDelete(u) \/ DeleteObjects(u)
  BY <1>2 DEF ClearDelete, DeleteObjects, DeleteObjectsCall
<1>3. CASE CopyObject(u) \/ MoveCopy(u) \/ WriteContainerData(u)
  BY <1>3 DEF CopyObject, MoveCopy, CopyCall, WriteContainerData
<1>4. CASE MoveDelete(u) \/ DeleteObject(u)
  BY <1>4 DEF MoveDelete, DeleteObject
<1>5. CASE CreateContainer(u) \/ DeleteContainer(u)
  BY <1>5 DEF CreateContainer, DeleteContainer
<1>6. CASE ListContainerObjects(u) \/ ClearList(u) \/ GetContainerData(u)
           \/ HeadObject(u) \/ HeadBucket(u)
  BY <1>6 DEF ListContainerObjects, ClearList, GetContainerData, HeadObject, HeadBucket
<1>. QED  BY <1>2, <1>3, <1>4, <1>5, <1>6 DEF Step

\* Moving(t) depends on the invocations only, which no step changes.
LEMMA MovingStable ==
    ASSUME NEW t \in Tasks, [Next]_vars
    PROVE  Moving(t)' = Moving(t)
<1>1. inv' = inv
  BY DEF Next, Step, vars
<1>. QED  BY <1>1 DEF Moving, NoOtherRemover, Op, Dest

\* The move's own steps: a successful copy puts the object at the
\* destination and goes to the delete; a failed copy stops there; the
\* delete takes the object from the source only, once it is at the
\* destination.
LEMMA OwnMove ==
    ASSUME OpsTypes, NEW t \in Tasks, Step(t), Moving(t), MoveInv(t)
    PROVE  /\ Kept(t) => Kept(t)'
           /\ MoveInv(t)'
<1>0. inv' = inv /\ Moving(t)' /\ Op(t) = "move"
  BY MovingStable DEF Step, Next, Moving
<1>. USE <1>0 DEF OpsTypes, Finish, Fail, Put, Del, Usable, Op, Init1, Kept, MoveInv,
                  HoldsSource, HoldsDest, Dest
<1>1. CASE MoveCopy(t)
  BY <1>1 DEF MoveCopy, CopyCall
<1>2. CASE MoveDelete(t)
  BY <1>2 DEF MoveDelete
<1>3. CASE ~MoveCopy(t) /\ ~MoveDelete(t)
  BY <1>3 DEF Step, ListContainerObjects, ClearList, ClearDelete, DeleteObjects, CopyObject,
     DeleteObject, WriteContainerData, GetContainerData, HeadObject, HeadBucket,
     CreateContainer, DeleteContainer
<1>. QED  BY <1>1, <1>2, <1>3

\* Every step keeps MoveInv(t), and keeps a moved object somewhere.
LEMMA NextMove ==
    ASSUME OpsTypes, NEW t \in Tasks, [Next]_vars, Moving(t), MoveInv(t)
    PROVE  /\ Kept(t) => Kept(t)'
           /\ MoveInv(t)'
<1>1. CASE UNCHANGED vars
  BY <1>1 DEF vars, Kept, MoveInv, Moving, NoOtherRemover, HoldsSource, HoldsDest, Dest,
             Usable, Op
<1>2. CASE Step(t)
  BY <1>2, OwnMove
<1>3. CASE \E u \in Tasks \ {t} : Step(u)
  <2>1. PICK u \in Tasks \ {t} : Step(u)
    BY <1>3
  <2>2. inv' = inv /\ Moving(t)' /\ pc'[t] = pc[t]
    BY <2>1, OtherTask, MovingStable DEF Step, Next
  <2>3. HoldsSource(t) => HoldsSource(t)'
    BY <2>1, <2>2, OtherKeeps DEF HoldsSource, Usable, Moving
  <2>4. HoldsDest(t) => HoldsDest(t)'
    BY <2>1, <2>2, OtherKeeps DEF HoldsDest, Usable, Moving, Dest
  <2>. QED  BY <2>2, <2>3, <2>4 DEF Kept, MoveInv
<1>. QED  BY <1>1, <1>2, <1>3 DEF Next

\* serve_move_object copies before it deletes and returns at a failed
\* copy: an object a move task holds at its source when it starts is, from
\* then on, always at its source or at its destination, whatever fails and
\* whatever the other tasks do, as long as none of them removes objects
\* from those two containers.
THEOREM MoveKeeps == Spec => MoveKeepsObject
<1> SUFFICES ASSUME NEW t \in Tasks
             PROVE  Spec => (Moving(t) => [](HoldsSource(t) /\ pc[t] = "init" => []Kept(t)))
  BY DEF MoveKeepsObject, Moving, Kept
<1>1. Init => OpsTypes /\ MoveInv(t)
  BY InitOpsTypes DEF Init, MoveInv
<1>2. OpsTypes /\ MoveInv(t) /\ [Next]_vars => OpsTypes' /\ MoveInv(t)'
  <2>1. CASE Moving(t)
    BY <2>1, NextOpsTypes, NextMove
  <2>2. CASE ~Moving(t)
    BY <2>2, NextOpsTypes, MovingStable DEF MoveInv
  <2>. QED  BY <2>1, <2>2
<1>3. Spec => [](OpsTypes /\ MoveInv(t))
  BY <1>1, <1>2, PTL DEF Spec
<1>4. OpsTypes /\ MoveInv(t) /\ [Next]_vars /\ Moving(t) /\ Kept(t) => Moving(t)' /\ Kept(t)'
  BY NextMove, MovingStable
<1>5. HoldsSource(t) => Kept(t)
  BY DEF Kept
<1>6. [Next]_vars /\ Moving(t) => Moving(t)'
  BY MovingStable
<1>7. Spec => (Moving(t) => []Moving(t))
  BY <1>6, PTL DEF Spec
<1>8. Spec => [](Moving(t) /\ Kept(t) => [](Moving(t) /\ Kept(t)))
  BY <1>3, <1>4, PTL DEF Spec
<1>. QED  BY <1>5, <1>7, <1>8, PTL

-----------------------------------------------------------------------------
(* The alias resolver.                                                      *)

\* strip_prefix(ALIAS_PREFIX) on a name with a prefix.
LEMMA StripFields ==
    ASSUME NEW n \in Names
    PROVE  StripPrefix(n).mk = n.mk - 1 /\ StripPrefix(n).base = n.base
BY Zenon DEF StripPrefix, Names

\* Two prefixed link keys that strip to the same alias are the same key.
LEMMA StripInjective ==
    ASSUME NEW m \in Names, NEW n \in Names, m.mk > 0, n.mk > 0,
           StripPrefix(m) = StripPrefix(n)
    PROVE  m = n
<1>1. m.mk - 1 = n.mk - 1
  <2>1. StripPrefix(m).mk = m.mk - 1 /\ StripPrefix(n).mk = n.mk - 1
    BY StripFields
  <2>. QED  BY <2>1
<1>2. m.base = n.base
  <2>1. StripPrefix(m).base = m.base /\ StripPrefix(n).base = n.base
    BY StripFields
  <2>. QED  BY <2>1
<1>3. m.mk = n.mk
  BY <1>1, OpsAssumptions DEF Names
<1>. QED  BY <1>2, <1>3 DEF Names

\* The entries StorageClient::new inserts for alias x are the link's
\* well-formed alias_<x> entries.
LEMMA LinkAliasesOf ==
    ASSUME NEW x
    PROVE  \A a \in LinkAliases :
               a[1] = x <=> \E kv \in LinkedEntries(x) : a = <<x, kv[2]>>
BY DEF LinkAliases, LinkedEntries

\* The merge rule of StorageClient::new, for every alias x: the link's
\* well-formed entry wins; without one the provider's alias stays; without
\* either, x is not in the table.
LEMMA AliasTable ==
    ASSUME NEW x
    PROVE  /\ \A kv \in LinkedEntries(x) : x \in DOMAIN Aliases /\ Aliases[x] = kv[2]
           /\ LinkedEntries(x) = {} /\ x \in DOMAIN ProvAliases =>
                  x \in DOMAIN Aliases /\ Aliases[x] = ProvAliases[x]
           /\ LinkedEntries(x) = {} /\ x \notin DOMAIN ProvAliases => x \notin DOMAIN Aliases
<1>0. \A a \in LinkAliases : a[1] = x <=> \E kv \in LinkedEntries(x) : a = <<x, kv[2]>>
  BY LinkAliasesOf
<1>1. ASSUME NEW kv \in LinkedEntries(x)
      PROVE  x \in DOMAIN Aliases /\ Aliases[x] = kv[2]
  <2>1. <<x, kv[2]>> \in LinkAliases
    BY DEF LinkAliases, LinkedEntries
  <2>2. x \in DOMAIN Aliases /\ Aliases[x] = (CHOOSE a \in LinkAliases : a[1] = x)[2]
    BY <2>1 DEF Aliases
  <2>3. PICK a0 \in LinkAliases : a0 = CHOOSE a \in LinkAliases : a[1] = x
    BY <2>1
  <2>4. a0[1] = x
    BY <2>1, <2>3
  <2>5. PICK kv0 \in LinkedEntries(x) : a0 = <<x, kv0[2]>>
    BY <1>0, <2>4
  <2>6. kv \in Names \X Names /\ kv0 \in Names \X Names
    BY OpsAssumptions DEF LinkedEntries
  <2>7. kv0[1] = kv[1]
    BY <2>6, StripInjective DEF LinkedEntries
  <2>8. kv0 = kv
    BY <2>7, LinkValuesMap DEF LinkedEntries
  <2>9. a0[2] = kv[2]
    BY <2>5, <2>8
  <2>. QED  BY <2>2, <2>3, <2>9, Zenon
<1>2. ASSUME LinkedEntries(x) = {}
      PROVE  ~\E a \in LinkAliases : a[1] = x
  BY <1>0, <1>2
<1>3. LinkedEntries(x) = {} /\ x \in DOMAIN ProvAliases =>
          x \in DOMAIN Aliases /\ Aliases[x] = ProvAliases[x]
  BY <1>2 DEF Aliases
<1>4. LinkedEntries(x) = {} /\ x \notin DOMAIN ProvAliases => x \notin DOMAIN Aliases
  BY <1>2 DEF Aliases
<1>. QED  BY <1>1, <1>3, <1>4

\* unalias resolves every container name, whatever the alias tables, as
\* spec.md section 4.3 says: the link's alias_ entry, else the provider's
\* alias, else the name itself, all of its candidate without alias_.
THEOREM AliasMerge == Spec => []AliasMergeRule
<1>1. AliasMergeRule
  <2> SUFFICES ASSUME NEW t \in Tasks, NEW n \in {inv[t].c, Dest(t)}
               PROVE  /\ \A kv \in LinkedEntries(Candidate(n)) : Unalias(n) = kv[2]
                      /\ LinkedEntries(Candidate(n)) = {} /\ Candidate(n) \in DOMAIN ProvAliases =>
                             Unalias(n) = ProvAliases[Candidate(n)]
                      /\ LinkedEntries(Candidate(n)) = {} /\ Candidate(n) \notin DOMAIN ProvAliases =>
                             Unalias(n) = Candidate(n)
    BY DEF AliasMergeRule
  <2>1. Unalias(n) = IF Candidate(n) \in DOMAIN Aliases THEN Aliases[Candidate(n)]
                                                         ELSE Candidate(n)
    BY DEF Unalias, Candidate
  <2>. QED  BY <2>1, AliasTable
<1>. QED  BY <1>1, PTL

=============================================================================
