------------------------------ MODULE SyncOps ------------------------------
(***************************************************************************)
(* The rules by which the server judges one operation against one user's   *)
(* rows: apply-op.ts, derived-id.ts, row-rules.ts and the reference and    *)
(* delete checks of sync.service.ts.  Everything here is a state-free      *)
(* function of the rows and the operation; SyncServer holds the state.     *)
(*                                                                         *)
(* A row that does not exist is the row of version 0, an unset column is   *)
(* Null, a column nobody wrote has field timestamp 0 and a live row has    *)
(* deletedAt 0.  Columns no rule distinguishes (title, rank, state, ...)   *)
(* are the plain columns, whose names the constant ColumnsOf gives: the    *)
(* instances that ask only about the rules have one per table, "data".     *)
(***************************************************************************)
EXTENDS Naturals

CONSTANTS
  Ids,      \* row ids, all tables together: clients mint uuids
  TableOf,  \* [Ids -> TABLES]
  KeyOf,    \* for an id of a derived-id table, the key it is derived from
  Foreign,  \* ids another account's rows already hold (the key is global)
  ColumnsOf,\* [TABLES -> plain columns]
  Data,     \* values of the columns that are not references
  Null,
  Ops,      \* every operation any client may ever mint
  Skew      \* MAX_SKEW_AHEAD_MS

TABLES == {"task", "project", "tag", "task_tag", "task_occurrence",
           "status", "view"}

\* The columns some rule is about.
RuleFields == {"rrule", "dtstart", "originOccurrence", "occurrence",
               "projectId", "parentId", "statusId", "originTaskId", "taskId",
               "tagId"}

Fields == RuleFields \cup UNION {ColumnsOf[t] : t \in TABLES}

Values == Ids \cup Data \cup {Null}

Row == [version : Nat, val : [Fields -> Values], fieldTs : [Fields -> Nat],
        deletedAt : Nat, seq : Nat]

NoRow == [version |-> 0, val |-> [f \in Fields |-> Null],
          fieldTs |-> [f \in Fields |-> 0], deletedAt |-> 0, seq |-> 0]

Exists(r) == r.version > 0
Tombstoned(r) == r.deletedAt > 0
Live(r) == Exists(r) /\ ~Tombstoned(r)

(***************************************************************************)
(* An operation: `fields' holds what a create or a set writes (one column  *)
(* for a set, none for a delete), base 0 is an absent baseVersion.         *)
(***************************************************************************)
IsOp(op) ==
  /\ op.kind \in {"create", "set", "delete"}
  /\ op.id \in Ids
  /\ DOMAIN op.fields \subseteq Fields
  /\ \A f \in DOMAIN op.fields : op.fields[f] \in Values
  /\ op.ts \in Nat \ {0}
  /\ op.base \in Nat

ASSUME ConstantsAssumption ==
  /\ TableOf \in [Ids -> TABLES]
  /\ Foreign \subseteq Ids
  /\ \A t \in TABLES : ColumnsOf[t] \cap RuleFields = {}
  /\ Null \notin Ids
  /\ Skew \in Nat
  /\ \A op \in Ops : IsOp(op)

----------------------------------------------------------------------------
(* Which columns a table has, what they reference, which ids are derived.  *)

WRITABLE_FIELDS(table) ==
  ColumnsOf[table] \cup
  CASE table = "task" -> {"rrule", "dtstart", "originOccurrence",
                          "projectId", "parentId", "statusId", "originTaskId"}
    [] table = "task_tag" -> {"taskId", "tagId"}
    [] table = "task_occurrence" -> {"taskId", "occurrence"}
    [] OTHER -> {}

REFERENCES(field) ==
  CASE field \in {"parentId", "originTaskId", "taskId"} -> "task"
    [] field = "projectId" -> "project"
    [] field = "statusId" -> "status"
    [] field = "tagId" -> "tag"

ReferenceFields == {"projectId", "parentId", "statusId", "originTaskId",
                    "taskId", "tagId"}

IsDerived(i) == TableOf[i] \in {"task_tag", "task_occurrence"}

derivedIdKeys(i) ==
  CASE TableOf[i] = "task_tag" -> {"taskId", "tagId"}
    [] TableOf[i] = "task_occurrence" -> {"taskId", "occurrence"}
    [] OTHER -> {}

----------------------------------------------------------------------------
(* The checks made before the row itself is consulted.                     *)

unpermittedField(op) ==
  ~(DOMAIN op.fields \subseteq WRITABLE_FIELDS(TableOf[op.id]))

derivedIdRejection(op) ==
  /\ IsDerived(op.id)
  /\ \/ op.kind = "delete"
     \/ op.kind = "set" /\ DOMAIN op.fields \cap derivedIdKeys(op.id) # {}
     \/ /\ op.kind = "create"
        /\ \E k \in derivedIdKeys(op.id) :
             IF k \in DOMAIN op.fields
             THEN op.fields[k] # KeyOf[op.id][k]
             ELSE KeyOf[op.id][k] # Null

LiveSubtasks(rows, i) ==
  {c \in Ids : TableOf[c] = "task" /\ Live(rows[c])
                                  /\ rows[c].val["parentId"] = i}

\* Mutated: a task with subtasks may get a parent.
parentRejectionOfParentOnly(rows, op) ==
  LET parent == rows[op.fields["parentId"]]
  IN  ~Live(parent) \/ parent.val["parentId"] # Null

\* The two-level rule: a parent is live and has no parent of its own, and a
\* task with live subtasks gets none.
parentRejection(rows, op) ==
  LET parent == rows[op.fields["parentId"]]
  IN  \/ ~Live(parent)
      \/ parent.val["parentId"] # Null
      \/ op.kind = "set" /\ LiveSubtasks(rows, op.id) # {}

\* A tombstoned project, status, tag or occurrence's task may be referenced;
\* a row that is gone, another account's, or of the wrong table may not.
referenceRejection(rows, op) ==
  \E f \in DOMAIN op.fields \cap ReferenceFields :
    LET target == op.fields[f]
    IN  /\ target # Null
        /\ \/ target \notin Ids
           \/ TableOf[target] # REFERENCES(f)
           \/ ~Exists(rows[target])
           \/ f = "parentId" /\ parentRejection(rows, op)

deleteRejection(rows, op) ==
  /\ op.kind = "delete"
  /\ TableOf[op.id] = "task"
  /\ LiveSubtasks(rows, op.id) # {}

----------------------------------------------------------------------------
(* applyOp: per-field last-write-wins, optimistic versions for deletes and *)
(* recurrence rules.                                                       *)

clamp(ts, now) == IF ts > now + Skew THEN now + Skew ELSE ts

applyRejection(op, current) ==
  \/ /\ op.kind = "create"
     /\ Exists(current)
     /\ ~IsDerived(op.id) \/ Tombstoned(current)
  \/ "parentId" \in DOMAIN op.fields /\ op.fields["parentId"] = op.id
  \/ op.kind = "set" /\ "rrule" \in DOMAIN op.fields /\ op.base = 0
  \/ op.kind = "set" /\ ~Live(current)
  \/ op.kind = "delete" /\ (op.base = 0 \/ ~Exists(current))

versionConflict(op, current) ==
  /\ op.kind \in {"set", "delete"}
  /\ op.base # 0
  /\ current.version # op.base

\* Mutated: the last operation to arrive wins.
winningFieldsLastArrival(op, current, now) ==
  {f \in DOMAIN op.fields : Exists(current) => f \notin derivedIdKeys(op.id)}

\* The columns an operation wins: those it writes with a later timestamp.
\* The key of a derived-id row never wins over the same key (M2).
winningFields(op, current, now) ==
  {f \in DOMAIN op.fields :
     /\ Exists(current) => f \notin derivedIdKeys(op.id)
     /\ clamp(op.ts, now) > current.fieldTs[f]}

\* Mutated: a set does not count as a version.
mergeFieldsSameVersion(op, current, now) ==
  LET won == winningFields(op, current, now)
  IN  [version |-> IF Exists(current) THEN current.version ELSE 1,
       val |-> [f \in Fields |-> IF f \in won THEN op.fields[f]
                                              ELSE current.val[f]],
       fieldTs |-> [f \in Fields |-> IF f \in won THEN clamp(op.ts, now)
                                                  ELSE current.fieldTs[f]],
       deletedAt |-> current.deletedAt,
       seq |-> current.seq]

mergeFields(op, current, now) ==
  LET won == winningFields(op, current, now)
  IN  [version |-> current.version + 1,
       val |-> [f \in Fields |-> IF f \in won THEN op.fields[f]
                                              ELSE current.val[f]],
       fieldTs |-> [f \in Fields |-> IF f \in won THEN clamp(op.ts, now)
                                                  ELSE current.fieldTs[f]],
       deletedAt |-> current.deletedAt,
       seq |-> current.seq]

tombstone(current, now) ==
  [version |-> current.version + 1, val |-> current.val,
   fieldTs |-> current.fieldTs, deletedAt |-> now, seq |-> current.seq]

appliedRow(op, current, now) ==
  IF op.kind = "delete" THEN tombstone(current, now)
                        ELSE mergeFields(op, current, now)

\* What the row may not look like once an operation has been applied to it.
rowRejection(i, row) ==
  /\ TableOf[i] = "task"
  /\ \/ (row.val["originTaskId"] # Null) # (row.val["originOccurrence"] # Null)
     \/ /\ row.val["rrule"] # Null
        /\ \/ row.val["dtstart"] = Null
           \/ row.val["parentId"] # Null

\* Refused before any row is read.
forbidden(op) == unpermittedField(op) \/ derivedIdRejection(op)

\* Refused for what the other rows hold.
misplaced(rows, op) == referenceRejection(rows, op) \/ deleteRejection(rows, op)

applyOp(op, current, now) ==
  IF applyRejection(op, current) THEN "rejected"
  ELSE IF versionConflict(op, current) THEN "conflict"
  ELSE IF op.kind = "delete" THEN "applied"
  ELSE IF Exists(current) /\ winningFields(op, current, now) = {}
  THEN "superseded"
  ELSE IF rowRejection(op.id, mergeFields(op, current, now)) THEN "rejected"
  ELSE "applied"

\* The verdict on an operation no one has judged before.  `now' is the time
\* its request began.
outcome(rows, op, now) ==
  IF forbidden(op) \/ misplaced(rows, op) THEN "rejected"
  ELSE applyOp(op, rows[op.id], now)

\* What a client may show: a live row, and of a derived-id row only one whose
\* task and tag are live too.  The snapshot delivers exactly these.
Visible(rows, i) ==
  /\ Live(rows[i])
  /\ IsDerived(i) => \A f \in {"taskId", "tagId"} \cap derivedIdKeys(i) :
                       rows[i].val[f] # Null => Live(rows[rows[i].val[f]])
=============================================================================
