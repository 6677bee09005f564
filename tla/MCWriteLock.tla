---------------------------- MODULE MCWriteLock ----------------------------
(***************************************************************************)
(* Two connections serve one user's requests while the pruning run passes: *)
(* tasks are put under each other, edited, deleted and pruned.             *)
(***************************************************************************)
EXTENDS WriteLock, TLC

Create(n, i, fields, ts) ==
  [opId |-> n, kind |-> "create", id |-> i, fields |-> fields, ts |-> ts,
   base |-> 0]
Set(n, i, field, value, ts, base) ==
  [opId |-> n, kind |-> "set", id |-> i, fields |-> field :> value, ts |-> ts,
   base |-> base]
Delete(n, i, base) ==
  [opId |-> n, kind |-> "delete", id |-> i, fields |-> << >>, ts |-> 1,
   base |-> base]

CONSTANTS x, y   \* the connections: which of them serves a request is all one
MCTxns == {x, y}
EitherTxn == Permutations(MCTxns)

TaskIds == {"t1", "t2"}
TaskTableOf == [i \in TaskIds |-> "task"]
MCKeyOf == << >>
MCColumns == [t \in TABLES |-> {"data"}]
MCData == {"d1", "d2"}
MCIdOrder == "t1" :> 1 @@ "t2" :> 2

CrossOps ==
  {Create(1, "t1", "data" :> "d1", 1),
   Create(2, "t2", "data" :> "d1", 1),
   Set(3, "t1", "parentId", "t2", 2, 0),
   Set(4, "t2", "parentId", "t1", 2, 0),
   Delete(5, "t1", 1)}
=============================================================================
