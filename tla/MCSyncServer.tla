---------------------------- MODULE MCSyncServer ----------------------------
(***************************************************************************)
(* Three worlds for the server, one of them drawn at the start: operations *)
(* on a three-task hierarchy, on a task, its project and its occurrence    *)
(* row, and on a task with a status and a tag.  The server meets the       *)
(* operations of its world in every order, any of them any number of       *)
(* times, with pruning in between.                                         *)
(***************************************************************************)
EXTENDS PullHistory, TLC

VARIABLE world  \* the operations of this behaviour

Create(n, i, fields, ts) ==
  [opId |-> n, kind |-> "create", id |-> i, fields |-> fields, ts |-> ts,
   base |-> 0]
Set(n, i, field, value, ts, base) ==
  [opId |-> n, kind |-> "set", id |-> i, fields |-> field :> value, ts |-> ts,
   base |-> base]
Delete(n, i, base) ==
  [opId |-> n, kind |-> "delete", id |-> i, fields |-> << >>, ts |-> 1,
   base |-> base]

\* The database holds another account's view under the id v1.
MCIds == {"p1", "t1", "t2", "t3", "o1", "s1", "g1", "l1", "v1"}
MCTableOf == [i \in MCIds |-> CASE i = "p1" -> "project"
                                [] i = "o1" -> "task_occurrence"
                                [] i = "s1" -> "status"
                                [] i = "g1" -> "tag"
                                [] i = "l1" -> "task_tag"
                                [] i = "v1" -> "view"
                                [] OTHER -> "task"]
MCKeyOf == "o1" :> [taskId |-> "t1", occurrence |-> "d1"]
        @@ "l1" :> [taskId |-> "t1", tagId |-> "g1"]
MCColumns == [t \in TABLES |-> {"data"}]
MCData == {"d1", "d2"}

\* Two devices move tasks under each other and delete what the other moves.
HierarchyOps ==
  {Create(1, "t1", "data" :> "d1", 1),
   Create(2, "t2", "data" :> "d1", 1),
   Create(3, "t3", "parentId" :> "t1", 1),
   Set(4, "t1", "parentId", "t2", 2, 0),
   Set(5, "t2", "parentId", "t1", 2, 0),
   Set(6, "t3", "parentId", "null", 2, 0),
   Delete(7, "t1", 1),
   Delete(8, "t3", 1),
   Delete(9, "t3", 2)}

\* Two devices tick the same occurrence, edit the task and delete it or its
\* project; the clock of one device runs ahead of the server's.
MergeOps ==
  {Create(11, "p1", "data" :> "d1", 1),
   Create(12, "t1", "data" :> "d1" @@ "projectId" :> "p1", 1),
   Create(13, "o1", "taskId" :> "t1" @@ "occurrence" :> "d1" @@ "data" :> "d1", 2),
   Create(14, "o1", "taskId" :> "t1" @@ "occurrence" :> "d1" @@ "data" :> "d2", 1),
   Set(15, "o1", "data", "d2", 3, 0),
   Set(16, "t1", "data", "d2", 9, 0),
   Set(17, "t1", "projectId", "null", 2, 0),
   Delete(18, "t1", 1),
   Delete(19, "p1", 1)}

\* A label is attached and its tag, its task and the task's status deleted;
\* one write draws a number and is rolled back.
LabelOps ==
  {Create(21, "s1", "data" :> "d1", 1),
   Create(22, "g1", "data" :> "d1", 1),
   Create(23, "t1", "statusId" :> "s1", 1),
   Create(24, "l1", "taskId" :> "t1" @@ "tagId" :> "g1" @@ "data" :> "d1", 1),
   Delete(26, "g1", 1),
   Delete(27, "s1", 1),
   Delete(28, "t1", 1),
   Create(29, "v1", "data" :> "d1", 1)}

MCOps == HierarchyOps \cup MergeOps \cup LabelOps

\* What the proofs about a row's whole life assume of the operations.
ASSUME FreshIds == \A ops \in {HierarchyOps, MergeOps, LabelOps} : CreatedOnce(ops)

MCInit == HistoryInit /\ world \in {HierarchyOps, MergeOps, LabelOps}

\* Only the operations of the world are sent, and only the writes of LabelOps
\* fail.
MCNext ==
  /\ HistoryStep(world)
  /\ world # LabelOps =>
       seq' = Cardinality({op \in world : applied'[op] = "applied"})
  /\ UNCHANGED world

MCSpec == MCInit /\ [][MCNext]_<<historyVars, world>>
=============================================================================
