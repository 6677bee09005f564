------------------------------- MODULE MCSync -------------------------------
(***************************************************************************)
(* Small worlds for Sync: devices with a store each, or processes sharing  *)
(* one, and the operations each store may queue.                           *)
(***************************************************************************)
EXTENDS Sync, TLC

Create(n, i, fields, ts) ==
  [opId |-> n, kind |-> "create", id |-> i, fields |-> fields, ts |-> ts,
   base |-> 0]
Set(n, i, field, value, ts, base) ==
  [opId |-> n, kind |-> "set", id |-> i, fields |-> field :> value, ts |-> ts,
   base |-> base]
Delete(n, i, base) ==
  [opId |-> n, kind |-> "delete", id |-> i, fields |-> << >>, ts |-> 1,
   base |-> base]

TaskIds == {"t1", "t2"}
TaskTableOf == [i \in TaskIds |-> "task"]
MCKeyOf == << >>
MCColumns == [t \in TABLES |-> {"data"}]
MCData == {"d1", "d2"}

\* Device a creates a task and edits it; device b edits and deletes it, and
\* creates another.
CreateT1 == Create(1, "t1", "data" :> "d1", 1)
EditA == Set(2, "t1", "data", "d2", 3, 0)
EditB == Set(3, "t1", "data", "d1", 2, 0)
DeleteB == Delete(4, "t1", 1)
CreateB == Create(5, "t2", "data" :> "d1", 1)

TwoDevices == {"a", "b"}
OneProcEach == [p \in {"pa", "pb"} |-> IF p = "pa" THEN "a" ELSE "b"]

\* Between them a tombstone may be pruned before a device has pulled it.
EditOps == {CreateT1, EditA, EditB, DeleteB, CreateB}
EditMintedBy == [op \in EditOps |-> IF op \in {CreateT1, EditA} THEN "a" ELSE "b"]

\* An offline device queues more than one request may carry.
BatchOps == {CreateT1, EditA, DeleteB}
BatchMintedBy == [op \in BatchOps |-> IF op = DeleteB THEN "b" ELSE "a"]

LiveOps == {CreateT1, CreateB, DeleteB}
LiveMintedBy == [op \in LiveOps |-> IF op = CreateT1 THEN "a" ELSE "b"]

\* What the proofs about a replica assume of the operations: newId draws every
\* id once.
ASSUME FreshIds == CreatedOnce(Ops)
=============================================================================
