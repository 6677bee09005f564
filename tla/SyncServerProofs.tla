-------------------------- MODULE SyncServerProofs --------------------------
(***************************************************************************)
(* What SyncServer keeps for every set of ids and operations: its types,   *)
(* the two-level hierarchy, and that pruning never changes what a client   *)
(* may see; and over a row's whole life, that once gone it never comes     *)
(* back, that its version counts what was applied to it, that its columns  *)
(* hold the latest edits and that a pull leaves nothing out.               *)
(***************************************************************************)
EXTENDS SyncServer, FiniteSetTheorems, WellFoundedInduction, TLAPS

----------------------------------------------------------------------------
(* Rows and operations.                                                    *)

LEMMA ReferencesAreFields ==
  ReferenceFields \subseteq RuleFields /\ RuleFields \subseteq Fields
BY DEF ReferenceFields, RuleFields, Fields

\* Which columns with a rule a table has, whatever its plain ones.
LEMMA RuleColumn ==
  ASSUME NEW table \in TABLES, NEW f \in RuleFields, f \in WRITABLE_FIELDS(table)
  PROVE  /\ f = "parentId" => table = "task"
         /\ table = "task_tag" => f \in {"taskId", "tagId"}
         /\ table = "task_occurrence" => f \in {"taskId", "occurrence"}
<1>1. f \notin ColumnsOf[table]
  BY ConstantsAssumption
<1>2. QED
  BY <1>1 DEF WRITABLE_FIELDS, TABLES

LEMMA ClampNat ==
  ASSUME NEW ts \in Nat \ {0}, NEW at \in Nat
  PROVE  clamp(ts, at) \in Nat
BY ConstantsAssumption DEF clamp

\* A row an operation is applied to stays a row.
LEMMA AppliedRowIsRow ==
  ASSUME NEW op \in Ops, NEW current \in Row, NEW at \in Nat
  PROVE  appliedRow(op, current, at) \in Row
<1> DEFINE won == winningFields(op, current, at)
<1>1. IsOp(op)
  BY ConstantsAssumption
<1>2. /\ won \subseteq DOMAIN op.fields
      /\ clamp(op.ts, at) \in Nat
      /\ \A f \in DOMAIN op.fields : op.fields[f] \in Values
  BY <1>1, ClampNat DEF winningFields, IsOp
<1>3. tombstone(current, at) \in Row
  BY DEF tombstone, Row
<1>4. mergeFields(op, current, at) \in Row
  <2>1. [f \in Fields |-> IF f \in won THEN op.fields[f] ELSE current.val[f]]
          \in [Fields -> Values]
    BY <1>2 DEF Row
  <2>2. [f \in Fields |-> IF f \in won THEN clamp(op.ts, at)
                                       ELSE current.fieldTs[f]]
          \in [Fields -> Nat]
    BY <1>2 DEF Row
  <2> HIDE DEF won
  <2>3. QED
    BY <2>1, <2>2 DEF mergeFields, Row, won
<1>5. QED
  BY <1>3, <1>4 DEF appliedRow

\* An applied operation passed every check.
LEMMA AppliedPassed ==
  ASSUME NEW op \in Ops, NEW at, outcome(rows, op, at) = "applied"
  PROVE  /\ ~unpermittedField(op)
         /\ ~derivedIdRejection(op)
         /\ ~referenceRejection(rows, op)
         /\ ~deleteRejection(rows, op)
         /\ ~applyRejection(op, rows[op.id])
BY DEF outcome, forbidden, misplaced, applyOp

LEMMA OutcomeIsVerdict ==
  ASSUME NEW op \in Ops, NEW at
  PROVE  outcome(rows, op, at) \in Verdicts
BY DEF outcome, applyOp, Verdicts

----------------------------------------------------------------------------
(* What the two actions that write rows make of each row.                  *)

LEMMA WriteRows ==
  ASSUME ServerTypeOK, NEW op \in Ops, NEW at \in Nat, Write(op, at)
  PROVE  /\ op.id \in Ids
         /\ rows' \in [Ids -> Row]
         /\ \A i \in Ids \ {op.id} : rows'[i] = rows[i]
         /\ rows'[op.id].seq = seq + 1
         /\ rows'[op.id].version = rows[op.id].version + 1
<1> DEFINE old == rows[op.id]
           new == appliedRow(op, old, at)
<1>1. op.id \in Ids /\ old \in Row
  BY ConstantsAssumption DEF ServerTypeOK, IsOp
<1>2. new \in Row
  BY <1>1, AppliedRowIsRow
<1>3. new.version = old.version + 1
  BY DEF appliedRow, tombstone, mergeFields
<1>4. rows' = [rows EXCEPT ![op.id] = [new EXCEPT !.seq = seq + 1]]
  BY DEF Write
<1> HIDE DEF new
<1>5. /\ [new EXCEPT !.seq = seq + 1] \in Row
      /\ [new EXCEPT !.seq = seq + 1].seq = seq + 1
      /\ [new EXCEPT !.seq = seq + 1].version = new.version
  BY <1>2 DEF ServerTypeOK, Row
<1>6. QED
  BY <1>1, <1>3, <1>4, <1>5 DEF ServerTypeOK

\* A delete leaves the values alone and sets deletedAt; anything else leaves
\* deletedAt alone and changes only columns it writes.
LEMMA WriteValues ==
  ASSUME ServerTypeOK, NEW op \in Ops, NEW at \in Nat, Write(op, at)
  PROVE  /\ op.kind = "delete" => /\ rows'[op.id].deletedAt = at
                                  /\ rows'[op.id].val = rows[op.id].val
         /\ op.kind # "delete" =>
              /\ rows'[op.id].deletedAt = rows[op.id].deletedAt
              /\ \A f \in Fields :
                   \/ rows'[op.id].val[f] = rows[op.id].val[f]
                   \/ /\ f \in DOMAIN op.fields
                      /\ rows'[op.id].val[f] = op.fields[f]
<1> DEFINE old == rows[op.id]
           new == appliedRow(op, old, at)
<1>1. op.id \in Ids /\ old \in Row
  BY ConstantsAssumption DEF ServerTypeOK, IsOp
<1>2. new \in Row
  BY <1>1, AppliedRowIsRow
<1>3. rows'[op.id] = [new EXCEPT !.seq = seq + 1]
  BY <1>1 DEF Write, ServerTypeOK
<1>4. CASE op.kind = "delete"
  <2>1. new.deletedAt = at /\ new.val = old.val
    BY <1>4 DEF appliedRow, tombstone
  <2> HIDE DEF new
  <2>2. QED
    BY <1>2, <1>3, <1>4, <2>1 DEF Row
<1>5. CASE op.kind # "delete"
  <2>1. new = mergeFields(op, old, at)
    BY <1>5 DEF appliedRow
  <2>2. new.deletedAt = old.deletedAt
    BY <2>1 DEF mergeFields
  <2>3. ASSUME NEW f \in Fields
        PROVE  \/ new.val[f] = old.val[f]
               \/ f \in DOMAIN op.fields /\ new.val[f] = op.fields[f]
    BY <2>1 DEF mergeFields, winningFields
  <2> HIDE DEF new
  <2>4. QED
    BY <1>2, <1>3, <1>5, <2>2, <2>3 DEF Row
<1>6. QED
  BY <1>4, <1>5

LEMMA PrunedRow ==
  ASSUME ServerTypeOK, NEW at, pruneUser(at), NEW i \in Ids
  PROVE  /\ rows' \in [Ids -> Row]
         /\ i \in prunable(at) \cup cascaded(prunable(at)) => rows'[i] = NoRow
         /\ i \notin prunable(at) \cup cascaded(prunable(at)) =>
              /\ rows'[i].version = rows[i].version
              /\ rows'[i].deletedAt = rows[i].deletedAt
              /\ rows'[i].fieldTs = rows[i].fieldTs
              /\ rows'[i].seq = rows[i].seq
              /\ \A f \in Fields :
                   rows'[i].val[f] =
                     IF f \in {"parentId", "projectId", "statusId"}
                        /\ rows[i].val[f] \in prunable(at)
                     THEN Null ELSE rows[i].val[f]
<1> DEFINE gone == prunable(at)
<1> HIDE DEF gone
<1>1. NoRow \in Row
  BY DEF NoRow, Row, Values
<1>2. ASSUME NEW j \in Ids
      PROVE  /\ setNull(rows[j], gone) \in Row
             /\ setNull(rows[j], gone).version = rows[j].version
             /\ setNull(rows[j], gone).deletedAt = rows[j].deletedAt
             /\ setNull(rows[j], gone).fieldTs = rows[j].fieldTs
             /\ setNull(rows[j], gone).seq = rows[j].seq
             /\ \A f \in Fields :
                  setNull(rows[j], gone).val[f] =
                    IF f \in {"parentId", "projectId", "statusId"}
                       /\ rows[j].val[f] \in gone
                    THEN Null ELSE rows[j].val[f]
  <2> DEFINE v == [f \in Fields |->
                     IF f \in {"parentId", "projectId", "statusId"}
                        /\ rows[j].val[f] \in gone
                     THEN Null ELSE rows[j].val[f]]
  <2>1. rows[j] \in Row
    BY DEF ServerTypeOK
  <2>2. v \in [Fields -> Values]
    BY <2>1 DEF Row, Values
  <2>3. setNull(rows[j], gone) = [rows[j] EXCEPT !.val = v]
    BY DEF setNull
  <2>4. \A f \in Fields :
           v[f] = IF f \in {"parentId", "projectId", "statusId"}
                     /\ rows[j].val[f] \in gone
                  THEN Null ELSE rows[j].val[f]
    OBVIOUS
  <2> HIDE DEF v
  <2>5. QED
    BY <2>1, <2>2, <2>3, <2>4 DEF Row
<1>3. rows' = [j \in Ids |-> IF j \in gone \cup cascaded(gone) THEN NoRow
                             ELSE setNull(rows[j], gone)]
  BY DEF pruneUser, pruned, gone
<1>4. rows' \in [Ids -> Row]
  BY <1>1, <1>2, <1>3
<1>5. QED
  BY <1>2, <1>3, <1>4 DEF gone

----------------------------------------------------------------------------
(* The inductive invariant.                                                *)

\* A row that does not exist holds nothing.
Absent == \A i \in Ids : ~Exists(rows[i]) => rows[i] = NoRow

\* A reference is to an id of the referenced table, in a column of the
\* referencing row's own table.
ReferencesOK ==
  \A i \in Ids : \A f \in ReferenceFields :
    rows[i].val[f] # Null =>
      /\ rows[i].val[f] \in Ids
      /\ TableOf[rows[i].val[f]] = REFERENCES(f)
      /\ f \in WRITABLE_FIELDS(TableOf[i])

\* HierarchyOK is not inductive alone: that a parent is a task, so that no
\* cascade reaches it, and that a new row starts with no parent, are needed.
IInv == ServerTypeOK /\ Absent /\ ReferencesOK /\ HierarchyOK

LEMMA ParentIsTask ==
  ASSUME ReferencesOK, NEW t \in Ids, rows[t].val["parentId"] # Null
  PROVE  /\ rows[t].val["parentId"] \in Ids
         /\ TableOf[rows[t].val["parentId"]] = "task"
         /\ TableOf[t] = "task"
<1>1. TableOf[t] \in TABLES
  BY ConstantsAssumption
<1>2. "parentId" \in ReferenceFields /\ REFERENCES("parentId") = "task"
  BY DEF ReferenceFields, REFERENCES
<1>3. QED
  BY <1>1, <1>2, ReferencesAreFields, RuleColumn DEF ReferencesOK

LEMMA PrunableTombstoned ==
  ASSUME NEW at, NEW i \in prunable(at)
  PROVE  i \in Ids /\ Tombstoned(rows[i])
BY DEF prunable, expiredTasks, expiredSubtasks, expiredParents, expiredOthers, Expired

LEMMA InitInv == ServerInit => IInv
<1> SUFFICES ASSUME ServerInit PROVE IInv
  OBVIOUS
<1>1. \A i \in Ids : rows[i] = NoRow /\ \A f \in RuleFields : rows[i].val[f] = Null
  BY ReferencesAreFields DEF ServerInit, NoRow
<1>2. ServerTypeOK
  BY DEF ServerInit, ServerTypeOK, NoRow, Row, Values
<1>3. Absent
  BY <1>1 DEF Absent
<1>4. ReferencesOK
  BY <1>1, ReferencesAreFields DEF ReferencesOK
<1>5. HierarchyOK
  BY <1>1 DEF HierarchyOK, Live, Exists, NoRow
<1>6. QED
  BY <1>2, <1>3, <1>4, <1>5 DEF IInv

----------------------------------------------------------------------------
(* Each conjunct is kept by the two actions that write rows.               *)

LEMMA WriteAbsent ==
  ASSUME ServerTypeOK, Absent, NEW op \in Ops, NEW at \in Nat, Write(op, at)
  PROVE  Absent'
<1>1. rows[op.id].version \in Nat
  BY WriteRows DEF ServerTypeOK, Row
<1>2. QED
  BY <1>1, WriteRows DEF Absent, Exists

LEMMA WriteReferences ==
  ASSUME ServerTypeOK, ReferencesOK, NEW op \in Ops, NEW at \in Nat,
         Write(op, at)
  PROVE  ReferencesOK'
<1> SUFFICES ASSUME NEW i \in Ids, NEW f \in ReferenceFields,
                    rows'[i].val[f] # Null
             PROVE  /\ rows'[i].val[f] \in Ids
                    /\ TableOf[rows'[i].val[f]] = REFERENCES(f)
                    /\ f \in WRITABLE_FIELDS(TableOf[i])
  BY DEF ReferencesOK
<1>1. f \in Fields
  BY ReferencesAreFields
<1>2. CASE rows'[i].val[f] = rows[i].val[f]
  BY <1>2 DEF ReferencesOK
<1>3. CASE rows'[i].val[f] # rows[i].val[f]
  <2>1. i = op.id
    BY <1>3, WriteRows
  <2>2. f \in DOMAIN op.fields /\ rows'[i].val[f] = op.fields[f]
    BY <1>1, <1>3, <2>1, WriteValues
  <2>3. ~unpermittedField(op) /\ ~referenceRejection(rows, op)
    BY AppliedPassed DEF Write
  <2>4. QED
    BY <2>1, <2>2, <2>3 DEF unpermittedField, referenceRejection
<1>4. QED
  BY <1>2, <1>3

LEMMA WriteHierarchy ==
  ASSUME IInv, ReferencesOK', NEW op \in Ops, NEW at \in Nat \ {0},
         Write(op, at)
  PROVE  HierarchyOK'
<1> USE DEF IInv
<1> SUFFICES ASSUME NEW t \in Ids, Live(rows'[t]),
                    rows'[t].val["parentId"] # Null
             PROVE  /\ rows'[t].val["parentId"] \in Ids
                    /\ Live(rows'[rows'[t].val["parentId"]])
                    /\ rows'[rows'[t].val["parentId"]].val["parentId"] = Null
  BY DEF HierarchyOK
<1> DEFINE p == rows'[t].val["parentId"]
<1>1. TableOf[t] \in TABLES /\ "parentId" \in Fields
      /\ "parentId" \in ReferenceFields
  BY ConstantsAssumption, ReferencesAreFields DEF ReferenceFields
<1>2. p \in Ids /\ TableOf[p] = "task" /\ TableOf[t] = "task"
  BY <1>1, ReferencesAreFields, RuleColumn DEF ReferencesOK, REFERENCES
<1>3. /\ ~referenceRejection(rows, op)
      /\ ~deleteRejection(rows, op)
      /\ ~applyRejection(op, rows[op.id])
      /\ op.kind \in {"create", "set", "delete"}
      /\ op.id \in Ids
  BY AppliedPassed, ConstantsAssumption DEF Write, IsOp
<1>4. rows[op.id] \in Row
  BY <1>3 DEF ServerTypeOK
<1> HIDE DEF p
<1>5. CASE t = op.id
  <2>1. op.kind # "delete"
    BY <1>5, WriteValues DEF Live, Tombstoned
  <2>2. CASE "parentId" \in DOMAIN op.fields /\ p = op.fields["parentId"]
    <3>1. ~parentRejection(rows, op) /\ p # op.id
      BY <1>1, <1>3, <2>2 DEF referenceRejection, applyRejection, p
    <3>2. rows'[p] = rows[p]
      BY <1>2, <3>1, WriteRows
    <3>3. QED
      BY <1>2, <2>2, <3>1, <3>2 DEF parentRejection, p
  <2>3. CASE p = rows[t].val["parentId"]
    <3>1. Exists(rows[t])
      BY <1>1, <2>3 DEF Absent, NoRow, p
    <3>2. Live(rows[t])
      BY <1>5, <2>1, <3>1, WriteValues DEF Live, Tombstoned
    <3>3. Live(rows[p]) /\ rows[p].val["parentId"] = Null
      BY <2>3, <3>2 DEF HierarchyOK, p
    <3>4. rows'[p] = rows[p]
      BY <1>2, <1>5, <2>3, <3>3, WriteRows DEF p
    <3>5. QED
      BY <1>2, <3>3, <3>4 DEF p
  <2>4. QED
    BY <1>1, <1>5, <2>1, <2>2, <2>3, WriteValues DEF p
<1>6. CASE t # op.id
  <2>1. rows'[t] = rows[t]
    BY <1>6, WriteRows
  <2>2. /\ p = rows[t].val["parentId"]
        /\ Live(rows[p])
        /\ rows[p].val["parentId"] = Null
    BY <2>1 DEF HierarchyOK, p
  <2>3. CASE p # op.id
    BY <1>2, <2>2, <2>3, WriteRows DEF p
  <2>4. CASE p = op.id
    <3>1. t \in LiveSubtasks(rows, op.id)
      BY <1>2, <2>1, <2>2, <2>4 DEF LiveSubtasks
    <3>2. op.kind # "delete"
      BY <1>2, <1>3, <2>4, <3>1 DEF deleteRejection
    <3>3. op.kind # "create"
      BY <1>2, <1>3, <2>2, <2>4 DEF applyRejection, IsDerived, Live
    <3>4. ASSUME "parentId" \in DOMAIN op.fields
          PROVE  op.fields["parentId"] = Null
      BY <1>1, <1>3, <3>1, <3>2, <3>3, <3>4
         DEF referenceRejection, parentRejection
    <3>5. rows'[p].val["parentId"] = Null
      BY <1>1, <2>2, <2>4, <3>2, <3>4, WriteValues
    <3>6. Live(rows'[p])
      BY <1>4, <2>2, <2>4, <3>2, WriteRows, WriteValues
         DEF Live, Exists, Tombstoned, Row
    <3>7. QED
      BY <1>2, <3>5, <3>6 DEF p
  <2>5. QED
    BY <2>3, <2>4
<1>7. QED
  BY <1>5, <1>6

LEMMA PruneAbsent ==
  ASSUME ServerTypeOK, Absent, NEW at, pruneUser(at)
  PROVE  Absent'
<1> SUFFICES ASSUME NEW i \in Ids, ~Exists(rows'[i])
             PROVE  rows'[i] = NoRow
  BY DEF Absent
<1>1. CASE i \in prunable(at) \cup cascaded(prunable(at))
  BY <1>1, PrunedRow
<1>2. CASE i \notin prunable(at) \cup cascaded(prunable(at))
  <2>1. rows[i] = NoRow
    BY <1>2, PrunedRow DEF Absent, Exists
  <2>2. setNull(NoRow, prunable(at)) = NoRow
    <3>1. [f \in Fields |->
             IF f \in {"parentId", "projectId", "statusId"}
                /\ NoRow.val[f] \in prunable(at)
             THEN Null ELSE NoRow.val[f]] = NoRow.val
      BY DEF NoRow
    <3>2. QED
      BY <3>1 DEF setNull, NoRow
  <2>3. rows'[i] = setNull(rows[i], prunable(at))
    BY <1>2 DEF pruneUser, pruned
  <2>4. QED
    BY <2>1, <2>2, <2>3
<1>3. QED
  BY <1>1, <1>2

LEMMA PruneReferences ==
  ASSUME ServerTypeOK, ReferencesOK, NEW at, pruneUser(at)
  PROVE  ReferencesOK'
<1> SUFFICES ASSUME NEW i \in Ids, NEW f \in ReferenceFields,
                    rows'[i].val[f] # Null
             PROVE  rows'[i].val[f] = rows[i].val[f]
  BY DEF ReferencesOK
<1>1. f \in Fields
  BY ReferencesAreFields
<1>2. i \notin prunable(at) \cup cascaded(prunable(at))
  BY <1>1, PrunedRow DEF NoRow
<1>3. QED
  BY <1>1, <1>2, PrunedRow

LEMMA PruneHierarchy ==
  ASSUME IInv, NEW at, pruneUser(at)
  PROVE  HierarchyOK'
<1> USE DEF IInv
<1> SUFFICES ASSUME NEW t \in Ids, Live(rows'[t]),
                    rows'[t].val["parentId"] # Null
             PROVE  /\ rows'[t].val["parentId"] \in Ids
                    /\ Live(rows'[rows'[t].val["parentId"]])
                    /\ rows'[rows'[t].val["parentId"]].val["parentId"] = Null
  BY DEF HierarchyOK
<1> DEFINE p == rows[t].val["parentId"]
<1>1. t \notin prunable(at) \cup cascaded(prunable(at))
  BY PrunedRow DEF Live, Exists, NoRow
<1>2. rows'[t].val["parentId"] = p /\ "parentId" \in Fields
  BY <1>1, PrunedRow, ReferencesAreFields DEF ReferenceFields
<1>3. Live(rows[t])
  BY <1>1, PrunedRow DEF Live, Exists, Tombstoned
<1>4. p \in Ids /\ TableOf[p] = "task"
  BY <1>2, ParentIsTask
<1>5. Live(rows[p]) /\ rows[p].val["parentId"] = Null
  BY <1>2, <1>3 DEF HierarchyOK
<1> HIDE DEF p
<1>6. p \notin prunable(at) \cup cascaded(prunable(at))
  BY <1>4, <1>5, PrunableTombstoned DEF cascaded, IsDerived, Live
<1>7. /\ Live(rows'[p])
      /\ rows'[p].val["parentId"] = Null
  BY <1>2, <1>4, <1>5, <1>6, PrunedRow DEF Live, Exists, Tombstoned
<1>8. QED
  BY <1>2, <1>4, <1>7

----------------------------------------------------------------------------
(* The theorems.                                                           *)

LEMMA TypeStep ==
  ASSUME ServerTypeOK, [ServerNext]_serverVars
  PROVE  ServerTypeOK'
<1>1. ASSUME NEW op \in Ops, NEW at \in 1..now, applyOne(op, at) \/ Fail(op, at)
      PROVE  ServerTypeOK'
  <2>1. at \in Nat
    BY DEF ServerTypeOK
  <2>2. CASE Replay(op)
    BY <2>2 DEF Replay, ServerTypeOK, serverVars
  <2>3. CASE RecordRefusal(op, at)
    BY <2>3, OutcomeIsVerdict DEF RecordRefusal, ServerTypeOK
  <2>4. CASE Write(op, at)
    <3>1. rows' \in [Ids -> Row]
      BY <2>1, <2>4, WriteRows
    <3>2. applied' \in [Ops -> Verdicts \cup {"none"}]
      BY <2>4 DEF Write, ServerTypeOK, Verdicts
    <3>3. QED
      BY <2>4, <3>1, <3>2 DEF Write, ServerTypeOK
  <2>5. CASE RollBack(op, at)
    BY <2>5 DEF RollBack, ServerTypeOK
  <2>6. QED
    BY <1>1, <2>2, <2>3, <2>4, <2>5 DEF applyOne, Fail
<1>2. ASSUME NEW at, pruneUser(at)
      PROVE  ServerTypeOK'
  <2>1. rows' \in [Ids -> Row]
    <3>1. PICK i \in Ids : i \in prunable(at)
      BY <1>2, PrunableTombstoned DEF pruneUser
    <3>2. QED
      BY <1>2, PrunedRow
  <2>2. watermark' \in Nat
    BY <1>2, PrunableTombstoned DEF pruneUser, Highest, ServerTypeOK, Row
  <2>3. QED
    BY <1>2, <2>1, <2>2 DEF pruneUser, ServerTypeOK
<1>3. CASE Tick
  BY <1>3 DEF Tick, ServerTypeOK
<1>4. CASE UNCHANGED serverVars
  BY <1>4 DEF serverVars, ServerTypeOK
<1>5. QED
  BY <1>1, <1>2, <1>3, <1>4 DEF ServerNext, ServerStep

LEMMA InvStep ==
  ASSUME IInv, [ServerNext]_serverVars
  PROVE  IInv'
<1>1. ServerTypeOK'
  BY TypeStep DEF IInv
<1>2. ASSUME NEW op \in Ops, NEW at \in 1..now, Write(op, at)
      PROVE  IInv'
  <2>1. at \in Nat \ {0} /\ at \in Nat
    BY DEF IInv, ServerTypeOK
  <2>2. Absent' /\ ReferencesOK'
    BY <1>2, <2>1, WriteAbsent, WriteReferences DEF IInv
  <2>3. HierarchyOK'
    BY <1>2, <2>1, <2>2, WriteHierarchy
  <2>4. QED
    BY <1>1, <2>2, <2>3 DEF IInv
<1>3. ASSUME NEW at, pruneUser(at)
      PROVE  IInv'
  BY <1>1, <1>3, PruneAbsent, PruneReferences, PruneHierarchy DEF IInv
<1>4. CASE UNCHANGED rows
  BY <1>1, <1>4 DEF IInv, Absent, ReferencesOK, HierarchyOK
<1>5. QED
  BY <1>2, <1>3, <1>4
     DEF ServerNext, ServerStep, applyOne, Fail, Replay, RecordRefusal, RollBack, Tick,
         serverVars

\* The types are kept: the rows stay rows of the seven tables, whatever an
\* operation writes and whatever pruning removes.
THEOREM TypeCorrect == ServerSpec => []ServerTypeOK
<1>1. ServerInit => ServerTypeOK
  BY InitInv DEF IInv
<1>2. ServerTypeOK /\ [ServerNext]_serverVars => ServerTypeOK'
  BY TypeStep
<1>3. QED
  BY <1>1, <1>2, PTL DEF ServerSpec

LEMMA InvCorrect == ServerSpec => []IInv
<1>1. IInv /\ [ServerNext]_serverVars => IInv'
  BY InvStep
<1>2. QED
  BY InitInv, <1>1, PTL DEF ServerSpec

\* The hierarchy never has a third level, a cycle or an orphan, for every set
\* of tasks and every set of operations delivered in any order, any number of
\* times, with pruning between them.
THEOREM HierarchyCorrect == ServerSpec => []HierarchyOK
<1>1. IInv => HierarchyOK
  BY DEF IInv
<1>2. QED
  BY InvCorrect, <1>1, PTL

----------------------------------------------------------------------------
(* Nothing visible changes without a number.                               *)

LEMMA WriteNumbered ==
  ASSUME ServerTypeOK, ReferencesOK, NEW op \in Ops, NEW at \in Nat,
         Write(op, at)
  PROVE  visibleChangeNumbered
<1> SUFFICES ASSUME NEW i \in Ids, Visible(rows, i)
             PROVE  \/ rows'[i] = rows[i] /\ Visible(rows', i)
                    \/ rows'[i].seq > seq
                    \/ IsDerived(i) /\ \E f \in {"taskId", "tagId"} :
                         rows[i].val[f] # Null /\ rows'[rows[i].val[f]].seq > seq
  BY DEF visibleChangeNumbered
<1>1. op.id \in Ids /\ rows'[op.id].seq > seq
  BY WriteRows DEF ServerTypeOK
<1>2. \A f \in {"taskId", "tagId"} : rows[i].val[f] # Null
                                       => rows[i].val[f] \in Ids
  BY DEF ReferencesOK, ReferenceFields
<1>3. CASE op.id = i
  BY <1>1, <1>3
<1>4. CASE /\ op.id # i
           /\ IsDerived(i)
           /\ \E f \in {"taskId", "tagId"} : rows[i].val[f] = op.id
  BY <1>1, <1>4, ConstantsAssumption
<1>5. CASE /\ op.id # i
           /\ IsDerived(i) => \A f \in {"taskId", "tagId"} :
                                rows[i].val[f] # op.id
  <2>1. rows'[i] = rows[i]
    BY <1>5, WriteRows
  <2>2. Visible(rows', i)
    BY <1>2, <1>5, <2>1, WriteRows DEF Visible
  <2>3. QED
    BY <2>1, <2>2
<1>6. QED
  BY <1>3, <1>4, <1>5

\* A live row is left as it is, unless its task or tag goes.
LEMMA PruneKeepsLive ==
  ASSUME IInv, NEW at, pruneUser(at), NEW i \in Ids, Live(rows[i]),
         i \notin cascaded(prunable(at))
  PROVE  rows'[i] = rows[i]
<1> USE DEF IInv
<1>1. i \notin prunable(at)
  BY PrunableTombstoned DEF Live
<1>2. Null \notin prunable(at)
  BY ConstantsAssumption, PrunableTombstoned
<1>3. rows[i].val["parentId"] \notin prunable(at)
  <2>1. CASE rows[i].val["parentId"] = Null
    BY <1>2, <2>1
  <2>2. CASE rows[i].val["parentId"] # Null
    BY <1>1, <2>2, PrunableTombstoned DEF HierarchyOK, Live
  <2>3. QED
    BY <2>1, <2>2
<1>4. ASSUME NEW f \in {"projectId", "statusId"}
      PROVE  rows[i].val[f] \notin prunable(at)
  <2> DEFINE target == rows[i].val[f]
  <2>1. SUFFICES ASSUME target \in prunable(at)
                 PROVE  FALSE
    OBVIOUS
  <2>2. target # Null /\ target \in Ids
    BY <1>2, <2>1, PrunableTombstoned
  <2>3. TableOf[target] = IF f = "projectId" THEN "project" ELSE "status"
    BY <2>2 DEF ReferencesOK, ReferenceFields, REFERENCES
  <2>4. target \in expiredOthers(expiredTasks(at), at)
    BY <2>1, <2>3 DEF prunable, expiredTasks, expiredSubtasks, expiredParents
  <2>5. Referencing(f, target, expiredTasks(at)) = {}
    BY <2>3, <2>4 DEF expiredOthers
  <2>6. i \notin expiredTasks(at)
    BY <1>1 DEF prunable
  <2>7. i \in Referencing(f, target, expiredTasks(at))
    BY <1>1, <2>6 DEF Referencing, Live
  <2>8. QED
    BY <2>5, <2>7
<1>5. rows'[i] = rows[i]
  <2>1. i \notin prunable(at) \cup cascaded(prunable(at))
    BY <1>1
  <2>2. \A f \in Fields : rows'[i].val[f] = rows[i].val[f]
    BY <1>3, <1>4, <2>1, PrunedRow
  <2>3. rows[i] \in Row /\ rows'[i] \in Row
    BY PrunedRow DEF ServerTypeOK
  <2>4. rows'[i].val = rows[i].val
    BY <2>2, <2>3 DEF Row
  <2>5. /\ rows'[i].version = rows[i].version /\ rows'[i].seq = rows[i].seq
        /\ rows'[i].deletedAt = rows[i].deletedAt
        /\ rows'[i].fieldTs = rows[i].fieldTs
    BY <2>1, PrunedRow
  <2>6. QED
    BY <2>3, <2>4, <2>5 DEF Row
<1>6. QED
  BY <1>5

\* Pruning changes no visible row at all.
LEMMA PruneInvisible ==
  ASSUME IInv, NEW at, pruneUser(at), NEW i \in Ids, Visible(rows, i)
  PROVE  rows'[i] = rows[i] /\ Visible(rows', i)
<1> USE DEF IInv
<1>1. Live(rows[i]) /\ i \notin prunable(at)
  BY PrunableTombstoned DEF Visible, Live
<1>2. TableOf[i] \in TABLES /\ Null \notin prunable(at)
  BY ConstantsAssumption, PrunableTombstoned
<1>3. ASSUME IsDerived(i), NEW f \in {"taskId", "tagId"},
             rows[i].val[f] # Null
      PROVE  /\ rows[i].val[f] \in Ids
             /\ TableOf[rows[i].val[f]] \in {"task", "tag"}
             /\ Live(rows[rows[i].val[f]])
  <2>1. /\ rows[i].val[f] \in Ids
        /\ TableOf[rows[i].val[f]] = REFERENCES(f)
        /\ f \in WRITABLE_FIELDS(TableOf[i])
    BY <1>3 DEF ReferencesOK, ReferenceFields
  <2>2. f \in derivedIdKeys(i)
    BY <1>2, <1>3, <2>1, RuleColumn DEF IsDerived, RuleFields, derivedIdKeys
  <2>3. QED
    BY <1>3, <2>1, <2>2 DEF Visible, REFERENCES
<1>4. ASSUME IsDerived(i), NEW f \in {"taskId", "tagId"},
             rows[i].val[f] # Null
      PROVE  rows[i].val[f] \notin prunable(at) \cup cascaded(prunable(at))
  BY <1>3, <1>4, PrunableTombstoned DEF cascaded, IsDerived, Live
<1>5. i \notin cascaded(prunable(at))
  BY <1>2, <1>4 DEF cascaded
<1>6. rows'[i] = rows[i]
  BY <1>1, <1>5, PruneKeepsLive
<1>7. ASSUME IsDerived(i), NEW f \in {"taskId", "tagId"},
             rows[i].val[f] # Null
      PROVE  Live(rows'[rows[i].val[f]])
  BY <1>3, <1>4, <1>7, PrunedRow DEF Live, Exists, Tombstoned
<1>8. QED
  BY <1>1, <1>6, <1>7 DEF Visible

\* A client that pulls what was numbered since its cursor misses no change:
\* a visible row changes or disappears only under a new number, its own or
\* that of the task or tag that hides it.  Pruning, which writes rows without
\* numbering them, changes nothing visible.
THEOREM VisibleChangesAreNumbered == ServerSpec => VisibleChangesNumbered
<1>1. IInv /\ [ServerNext]_serverVars => [visibleChangeNumbered]_serverVars
  <2> SUFFICES ASSUME IInv, [ServerNext]_serverVars
               PROVE  visibleChangeNumbered
    OBVIOUS
  <2>1. ASSUME NEW op \in Ops, NEW at \in 1..now, Write(op, at)
        PROVE  visibleChangeNumbered
    BY <2>1, WriteNumbered DEF IInv, ServerTypeOK
  <2>2. ASSUME NEW at, pruneUser(at)
        PROVE  visibleChangeNumbered
    BY <2>2, PruneInvisible DEF visibleChangeNumbered
  <2>3. CASE UNCHANGED rows
    BY <2>3 DEF visibleChangeNumbered, Visible
  <2>4. QED
    BY <2>1, <2>2, <2>3
       DEF ServerNext, ServerStep, applyOne, Fail, Replay, RecordRefusal, RollBack, Tick,
           serverVars
<1>2. QED
  BY InvCorrect, <1>1, PTL DEF ServerSpec, VisibleChangesNumbered

----------------------------------------------------------------------------
(* What a row's life leaves behind.                                        *)

AppliedTo(i) == {op \in Ops : op.id = i /\ applied[op] = "applied"}
Created(i) == \E op \in AppliedTo(i) : op.kind = "create"

\* The columns of a derived-id row that refer to the rows it belongs to.
Owners(i) == {"taskId", "tagId"} \cap derivedIdKeys(i)

\* What was ever written to began with a create, and a row that is there was.
Begun == \A i \in Ids : Exists(rows[i]) \/ AppliedTo(i) # {} => Created(i)

\* The key of a derived-id row is the one its id derives from; it is never
\* deleted by itself, and what it belongs to exists.
Keyed ==
  \A i \in Ids : IsDerived(i) =>
    /\ ~Tombstoned(rows[i])
    /\ Exists(rows[i]) =>
         /\ \A k \in derivedIdKeys(i) : rows[i].val[k] = KeyOf[i][k]
         /\ \A k \in Owners(i) : KeyOf[i][k] # Null =>
              KeyOf[i][k] \in Ids /\ Exists(rows[KeyOf[i][k]])

\* A derived-id row that is gone went with a row it belonged to, and that one
\* is gone for good.
Orphaned ==
  \A i \in Ids : IsDerived(i) /\ ~Exists(rows[i]) /\ AppliedTo(i) # {} =>
    \E k \in Owners(i) :
      LET owner == KeyOf[i][k]
      IN  /\ owner # Null /\ owner \in Ids /\ ~IsDerived(owner)
          /\ ~Exists(rows[owner]) /\ AppliedTo(owner) # {}

History == Begun /\ Keyed /\ Orphaned

----------------------------------------------------------------------------
(* An operation that is applied.                                           *)

LEMMA ClampedTs ==
  ASSUME NEW op \in Ops, NEW at \in Nat \ {0}
  PROVE  /\ clamp(op.ts, at) \in Nat \ {0} /\ clamp(op.ts, 1) \in Nat \ {0}
         /\ clamp(op.ts, 1) <= clamp(op.ts, at) /\ clamp(op.ts, at) <= op.ts
         /\ op.ts \in Nat
<1>1. IsOp(op) /\ Skew \in Nat
  BY ConstantsAssumption
<1>2. op.ts \in Nat \ {0}
  BY <1>1 DEF IsOp
<1>3. QED
  BY <1>1, <1>2 DEF clamp

LEMMA WriteTo ==
  ASSUME ServerTypeOK, NEW op \in Ops, NEW at \in Nat, Write(op, at)
  PROVE  /\ op.id \in Ids
         /\ AppliedTo(op.id)' = AppliedTo(op.id) \cup {op}
         /\ op \notin AppliedTo(op.id)
         /\ \A i \in Ids \ {op.id} : AppliedTo(i)' = AppliedTo(i)
         /\ \A i \in Ids : Exists(rows[i]) \/ i = op.id <=> Exists(rows'[i])
<1>1. applied' = [applied EXCEPT ![op] = "applied"] /\ applied[op] = "none"
  BY DEF Write
<1>2. /\ AppliedTo(op.id)' = AppliedTo(op.id) \cup {op}
      /\ op \notin AppliedTo(op.id)
      /\ \A i \in Ids \ {op.id} : AppliedTo(i)' = AppliedTo(i)
  BY <1>1 DEF AppliedTo, ServerTypeOK
<1>3. rows[op.id].version \in Nat
  BY WriteRows DEF ServerTypeOK, Row
<1>4. QED
  BY <1>2, <1>3, WriteRows DEF Exists

\* What an operation that is no delete makes of each column.
LEMMA WriteMerges ==
  ASSUME ServerTypeOK, NEW op \in Ops, NEW at \in Nat, Write(op, at),
         op.kind # "delete", NEW f \in Fields
  PROVE  LET won == winningFields(op, rows[op.id], at)
         IN  /\ rows'[op.id].val[f] =
                  IF f \in won THEN op.fields[f] ELSE rows[op.id].val[f]
             /\ rows'[op.id].fieldTs[f] =
                  IF f \in won THEN clamp(op.ts, at) ELSE rows[op.id].fieldTs[f]
<1> DEFINE new == mergeFields(op, rows[op.id], at)
<1>1. op.id \in Ids
  BY WriteRows
<1>2. rows'[op.id] = [new EXCEPT !.seq = seq + 1]
  BY <1>1 DEF Write, ServerTypeOK, appliedRow
<1>3. rows'[op.id].val = new.val /\ rows'[op.id].fieldTs = new.fieldTs
  BY <1>2 DEF mergeFields
<1>4. QED
  BY <1>3 DEF mergeFields

\* The kind an applied operation must have.
LEMMA WriteKind ==
  ASSUME NEW op \in Ops, NEW at \in Nat, Write(op, at)
  PROVE  /\ op.kind \in {"create", "set", "delete"}
         /\ ~Exists(rows[op.id]) => op.kind = "create"
         /\ Tombstoned(rows[op.id]) => op.kind = "delete" \/ ~Exists(rows[op.id])
         /\ IsDerived(op.id) => op.kind # "delete"
<1>1. ~applyRejection(op, rows[op.id]) /\ ~derivedIdRejection(op)
      /\ op.kind \in {"create", "set", "delete"}
  BY AppliedPassed, ConstantsAssumption DEF Write, IsOp
<1>2. QED
  BY <1>1 DEF applyRejection, derivedIdRejection, Live

\* The key columns of a derived-id row keep the key.
LEMMA WriteKey ==
  ASSUME IInv, Keyed, NEW op \in Ops, NEW at \in Nat \ {0}, Write(op, at),
         IsDerived(op.id), NEW k \in derivedIdKeys(op.id)
  PROVE  /\ rows'[op.id].val[k] = KeyOf[op.id][k]
         /\ k \in {"taskId", "tagId"} /\ KeyOf[op.id][k] # Null =>
              /\ KeyOf[op.id][k] \in Ids
              /\ TableOf[KeyOf[op.id][k]] \in {"task", "tag"}
              /\ Exists(rows[KeyOf[op.id][k]])
<1> USE DEF IInv
<1>1. k \in Fields
  BY ReferencesAreFields DEF derivedIdKeys, RuleFields
<1>2. op.kind # "delete" /\ op.id \in Ids
  BY WriteKind, WriteRows
<1>3. ~derivedIdRejection(op) /\ ~referenceRejection(rows, op)
  BY AppliedPassed DEF Write
<1>4. CASE Exists(rows[op.id])
  <2>1. k \notin winningFields(op, rows[op.id], at)
    BY <1>4 DEF winningFields
  <2>2. rows'[op.id].val[k] = rows[op.id].val[k]
    BY <1>1, <1>2, <2>1, WriteMerges
  <2>3. /\ rows[op.id].val[k] = KeyOf[op.id][k]
        /\ k \in {"taskId", "tagId"} /\ KeyOf[op.id][k] # Null =>
             KeyOf[op.id][k] \in Ids /\ Exists(rows[KeyOf[op.id][k]])
    BY <1>2, <1>4 DEF Keyed, Owners
  <2>4. k \in {"taskId", "tagId"} /\ KeyOf[op.id][k] # Null =>
          TableOf[KeyOf[op.id][k]] \in {"task", "tag"}
    BY <1>2, <2>3 DEF ReferencesOK, ReferenceFields, REFERENCES
  <2>5. QED
    BY <2>2, <2>3, <2>4
<1>5. CASE ~Exists(rows[op.id])
  <2>1. op.kind = "create"
    BY <1>5, WriteKind
  <2>2. rows[op.id] = NoRow
    BY <1>2, <1>5 DEF Absent
  <2>3. k \in DOMAIN op.fields => k \in winningFields(op, rows[op.id], at)
    <3>1. clamp(op.ts, at) \in Nat \ {0}
      BY ClampedTs
    <3>2. NoRow.fieldTs[k] = 0
      BY <1>1 DEF NoRow
    <3> QED
      BY <1>5, <2>2, <3>1, <3>2 DEF winningFields
  <2>4. CASE k \in DOMAIN op.fields
    <3>1. op.fields[k] = KeyOf[op.id][k]
      BY <1>3, <2>1, <2>4 DEF derivedIdRejection
    <3>2. rows'[op.id].val[k] = op.fields[k]
      BY <1>1, <1>2, <2>3, <2>4, WriteMerges
    <3>3. k \in {"taskId", "tagId"} /\ op.fields[k] # Null =>
            /\ op.fields[k] \in Ids
            /\ TableOf[op.fields[k]] = REFERENCES(k)
            /\ Exists(rows[op.fields[k]])
      BY <1>3, <2>4 DEF referenceRejection, ReferenceFields
    <3>4. k \in {"taskId", "tagId"} => REFERENCES(k) \in {"task", "tag"}
      BY DEF REFERENCES
    <3> QED
      BY <3>1, <3>2, <3>3, <3>4
  <2>5. CASE k \notin DOMAIN op.fields
    <3>1. KeyOf[op.id][k] = Null
      BY <1>3, <2>1, <2>5 DEF derivedIdRejection
    <3>2. k \notin winningFields(op, rows[op.id], at)
      BY <2>5 DEF winningFields
    <3>3. rows'[op.id].val[k] = Null
      BY <1>1, <1>2, <2>2, <3>2, WriteMerges DEF NoRow
    <3> QED
      BY <3>1, <3>3
  <2>6. QED
    BY <2>4, <2>5
<1>6. QED
  BY <1>4, <1>5

\* Nothing is written to a row that was there and is gone.
LEMMA NeverAgain ==
  ASSUME CreatedOnce(Ops), IInv, History, NEW op \in Ops, NEW at \in Nat \ {0}, Write(op, at),
         ~Exists(rows[op.id])
  PROVE  AppliedTo(op.id) = {}
<1> SUFFICES ASSUME AppliedTo(op.id) # {} PROVE FALSE
  OBVIOUS
<1>1. op.kind = "create" /\ op.id \in Ids
  BY WriteKind, WriteRows DEF IInv
<1>2. CASE ~IsDerived(op.id)
  <2>1. PICK c \in AppliedTo(op.id) : c.kind = "create"
    BY <1>1 DEF History, Begun, Created
  <2>2. c = op
    BY <1>1, <1>2, <2>1 DEF CreatedOnce, AppliedTo
  <2>3. QED
    BY <2>1, <2>2, WriteTo DEF IInv
<1>3. CASE IsDerived(op.id)
  <2>1. PICK k \in Owners(op.id) :
          KeyOf[op.id][k] # Null /\ ~Exists(rows[KeyOf[op.id][k]])
    BY <1>1, <1>3 DEF History, Orphaned
  <2>2. QED
    BY <1>3, <2>1, WriteKey DEF Owners, History
<1>4. QED
  BY <1>2, <1>3

LEMMA WriteHistory ==
  ASSUME CreatedOnce(Ops), IInv, IInv', History, NEW op \in Ops, NEW at \in Nat \ {0},
         Write(op, at)
  PROVE  History'
<1> USE DEF IInv, History
<1>1. at \in Nat /\ op.id \in Ids /\ rows' \in [Ids -> Row] /\ rows \in [Ids -> Row]
  BY WriteTo DEF ServerTypeOK
<1>2. Begun'
  <2> SUFFICES ASSUME NEW i \in Ids, Exists(rows'[i]) \/ AppliedTo(i)' # {}
               PROVE  Created(i)'
    BY DEF Begun
  <2>1. CASE i # op.id
    <3>1. AppliedTo(i)' = AppliedTo(i) /\ (Exists(rows'[i]) => Exists(rows[i]))
      BY <1>1, <2>1, WriteTo
    <3>2. \E c \in AppliedTo(i) : c.kind = "create"
      BY <3>1 DEF Begun, Created
    <3>3. QED
      BY <3>1, <3>2 DEF Created
  <2>2. CASE i = op.id /\ ~Exists(rows[i])
    <3>1. op.kind = "create" /\ op \in AppliedTo(i)'
      BY <1>1, <2>2, WriteTo, WriteKind
    <3>2. QED
      BY <3>1 DEF Created
  <2>3. CASE i = op.id /\ Exists(rows[i])
    <3>1. AppliedTo(i) \subseteq AppliedTo(i)'
      BY <1>1, <2>3, WriteTo
    <3>2. \E c \in AppliedTo(i) : c.kind = "create"
      BY <2>3 DEF Begun, Created
    <3>3. QED
      BY <3>1, <3>2 DEF Created
  <2>4. QED
    BY <2>1, <2>2, <2>3
<1>3. Keyed'
  <2> SUFFICES ASSUME NEW i \in Ids, IsDerived(i)
               PROVE  /\ ~Tombstoned(rows'[i])
                      /\ Exists(rows'[i]) =>
                           /\ \A k \in derivedIdKeys(i) : rows'[i].val[k] = KeyOf[i][k]
                           /\ \A k \in Owners(i) : KeyOf[i][k] # Null =>
                                KeyOf[i][k] \in Ids /\ Exists(rows'[KeyOf[i][k]])
    BY DEF Keyed
  <2>1. CASE i # op.id
    <3>1. rows'[i] = rows[i]
      BY <1>1, <2>1, WriteRows
    <3>2. \A j \in Ids : Exists(rows[j]) => Exists(rows'[j])
      BY <1>1, WriteTo
    <3>3. QED
      BY <3>1, <3>2 DEF Keyed
  <2>2. CASE i = op.id
    <3>1. ~Tombstoned(rows'[i])
      BY <1>1, <2>2, WriteKind, WriteValues DEF Keyed, Tombstoned
    <3>2. \A k \in derivedIdKeys(i) : rows'[i].val[k] = KeyOf[i][k]
      BY <2>2, WriteKey
    <3>3. \A k \in Owners(i) : KeyOf[i][k] # Null =>
            KeyOf[i][k] \in Ids /\ Exists(rows'[KeyOf[i][k]])
      BY <1>1, <2>2, WriteKey, WriteTo DEF Owners
    <3>4. QED
      BY <3>1, <3>2, <3>3
  <2>3. QED
    BY <2>1, <2>2
<1>4. Orphaned'
  <2> SUFFICES ASSUME NEW i \in Ids, IsDerived(i), ~Exists(rows'[i]), AppliedTo(i)' # {}
               PROVE  \E k \in Owners(i) :
                        LET owner == KeyOf[i][k]
                        IN  /\ owner # Null /\ owner \in Ids /\ ~IsDerived(owner)
                            /\ ~Exists(rows'[owner]) /\ AppliedTo(owner)' # {}
    BY DEF Orphaned
  <2>1. i # op.id /\ ~Exists(rows[i]) /\ AppliedTo(i) # {}
    BY <1>1, WriteTo
  <2>2. PICK k \in Owners(i) :
          /\ KeyOf[i][k] # Null /\ KeyOf[i][k] \in Ids /\ ~IsDerived(KeyOf[i][k])
          /\ ~Exists(rows[KeyOf[i][k]]) /\ AppliedTo(KeyOf[i][k]) # {}
    BY <2>1 DEF Orphaned
  <2>3. KeyOf[i][k] # op.id
    BY <2>2, NeverAgain
  <2>4. QED
    BY <1>1, <2>2, <2>3, WriteTo
<1>5. QED
  BY <1>2, <1>3, <1>4

\* What a derived-id row belongs to is a task or a tag.
LEMMA OwnerIsNotDerived ==
  ASSUME IInv, Keyed, NEW i \in Ids, IsDerived(i), Exists(rows[i]),
         NEW k \in {"taskId", "tagId"}, rows[i].val[k] # Null
  PROVE  /\ k \in Owners(i) /\ rows[i].val[k] = KeyOf[i][k]
         /\ rows[i].val[k] \in Ids /\ ~IsDerived(rows[i].val[k])
<1>1. /\ rows[i].val[k] \in Ids /\ TableOf[rows[i].val[k]] = REFERENCES(k)
      /\ k \in WRITABLE_FIELDS(TableOf[i])
  BY DEF IInv, ReferencesOK, ReferenceFields
<1>2. TableOf[i] \in TABLES /\ k \in RuleFields
  BY ConstantsAssumption DEF RuleFields
<1>3. k \in derivedIdKeys(i)
  BY <1>1, <1>2, RuleColumn DEF IsDerived, derivedIdKeys
<1>4. QED
  BY <1>1, <1>3 DEF Keyed, Owners, IsDerived, REFERENCES

\* A derived-id row is pruned only with what it belongs to.
LEMMA PrunedWithOwner ==
  ASSUME IInv, Keyed, NEW i \in Ids, IsDerived(i), Exists(rows[i]),
         NEW at, i \in prunable(at) \cup cascaded(prunable(at))
  PROVE  \E k \in Owners(i) : KeyOf[i][k] # Null /\ KeyOf[i][k] \in prunable(at)
<1>1. i \notin prunable(at)
  BY PrunableTombstoned DEF Keyed
<1>2. PICK k \in {"taskId", "tagId"} : rows[i].val[k] \in prunable(at)
  BY <1>1 DEF cascaded
<1>3. rows[i].val[k] # Null
  BY <1>2, PrunableTombstoned, ConstantsAssumption
<1>4. QED
  BY <1>2, <1>3, OwnerIsNotDerived

LEMMA PruneHistory ==
  ASSUME IInv, IInv', History, NEW at, pruneUser(at)
  PROVE  History'
<1> USE DEF IInv, History
<1>1. \A i \in Ids : AppliedTo(i)' = AppliedTo(i)
  BY DEF pruneUser, AppliedTo
<1>2. \A i \in Ids : Exists(rows'[i]) => Exists(rows[i])
  BY PrunedRow DEF Exists, NoRow
<1>3. Begun'
  BY <1>1, <1>2 DEF Begun, Created
<1>4. \A i \in Ids : i \notin prunable(at) \cup cascaded(prunable(at)) =>
        (Exists(rows[i]) <=> Exists(rows'[i]))
  BY PrunedRow DEF Exists
<1>5. Keyed'
  <2> SUFFICES ASSUME NEW i \in Ids, IsDerived(i)
               PROVE  /\ ~Tombstoned(rows'[i])
                      /\ Exists(rows'[i]) =>
                           /\ \A k \in derivedIdKeys(i) : rows'[i].val[k] = KeyOf[i][k]
                           /\ \A k \in Owners(i) : KeyOf[i][k] # Null =>
                                KeyOf[i][k] \in Ids /\ Exists(rows'[KeyOf[i][k]])
    BY DEF Keyed
  <2>1. ~Tombstoned(rows'[i])
    BY PrunedRow DEF Keyed, Tombstoned, NoRow
  <2>2. ASSUME Exists(rows'[i]), NEW k \in derivedIdKeys(i)
        PROVE  rows'[i].val[k] = KeyOf[i][k]
    <3>1. i \notin prunable(at) \cup cascaded(prunable(at)) /\ Exists(rows[i])
      BY <1>2, <2>2, PrunedRow DEF Exists, NoRow
    <3>2. k \in Fields /\ k \notin {"parentId", "projectId", "statusId"}
      BY ReferencesAreFields DEF derivedIdKeys, RuleFields
    <3>3. QED
      BY <2>2, <3>1, <3>2, PrunedRow DEF Keyed
  <2>3. ASSUME Exists(rows'[i]), NEW k \in Owners(i), KeyOf[i][k] # Null
        PROVE  KeyOf[i][k] \in Ids /\ Exists(rows'[KeyOf[i][k]])
    <3>1. i \notin prunable(at) \cup cascaded(prunable(at)) /\ Exists(rows[i])
      BY <1>2, <2>3, PrunedRow DEF Exists, NoRow
    <3>2. /\ rows[i].val[k] = KeyOf[i][k] /\ KeyOf[i][k] \in Ids
          /\ Exists(rows[KeyOf[i][k]])
      BY <2>3, <3>1 DEF Keyed, Owners
    <3>3. KeyOf[i][k] \notin prunable(at) /\ ~IsDerived(KeyOf[i][k])
      BY <2>3, <3>1, <3>2, OwnerIsNotDerived DEF cascaded, Owners
    <3>4. KeyOf[i][k] \notin cascaded(prunable(at))
      BY <3>3 DEF cascaded
    <3>5. QED
      BY <1>4, <3>2, <3>3, <3>4
  <2>4. QED
    BY <2>1, <2>2, <2>3
<1>6. Orphaned'
  <2> SUFFICES ASSUME NEW i \in Ids, IsDerived(i), ~Exists(rows'[i]), AppliedTo(i)' # {}
               PROVE  \E k \in Owners(i) :
                        LET owner == KeyOf[i][k]
                        IN  /\ owner # Null /\ owner \in Ids /\ ~IsDerived(owner)
                            /\ ~Exists(rows'[owner]) /\ AppliedTo(owner)' # {}
    BY DEF Orphaned
  <2>1. CASE ~Exists(rows[i])
    BY <1>1, <1>2, <2>1 DEF Orphaned
  <2>2. CASE Exists(rows[i])
    <3>1. PICK k \in Owners(i) : KeyOf[i][k] # Null /\ KeyOf[i][k] \in prunable(at)
      BY <1>4, <2>2, PrunedWithOwner
    <3>2. KeyOf[i][k] \in Ids /\ Tombstoned(rows[KeyOf[i][k]]) /\ Exists(rows[KeyOf[i][k]])
      BY <2>2, <3>1, PrunableTombstoned DEF Keyed
    <3>3. ~IsDerived(KeyOf[i][k])
      BY <3>2 DEF Keyed
    <3>4. ~Exists(rows'[KeyOf[i][k]])
      BY <3>1, <3>2, PrunedRow DEF Exists, NoRow
    <3>5. AppliedTo(KeyOf[i][k])' # {}
      BY <1>1, <3>2 DEF Begun, Created
    <3>6. QED
      BY <3>1, <3>2, <3>3, <3>4, <3>5
  <2>3. QED
    BY <2>1, <2>2
<1>7. QED
  BY <1>3, <1>5, <1>6

\* Every step writes one row, prunes, or leaves rows and what was applied.
LEMMA ServerSteps ==
  ASSUME IInv, [ServerNext]_serverVars
  PROVE  \/ \E op \in Ops, at \in Nat \ {0} : Write(op, at)
         \/ (\E at : pruneUser(at)) /\ \A i \in Ids : AppliedTo(i)' = AppliedTo(i)
         \/ rows' = rows /\ \A i \in Ids : AppliedTo(i)' = AppliedTo(i)
<1>1. 1..now \subseteq Nat \ {0}
  BY DEF IInv, ServerTypeOK
<1>2. ASSUME NEW op \in Ops, NEW at \in 1..now, RecordRefusal(op, at)
      PROVE  rows' = rows /\ \A i \in Ids : AppliedTo(i)' = AppliedTo(i)
  BY <1>2 DEF RecordRefusal, AppliedTo, IInv, ServerTypeOK
<1>3. ASSUME UNCHANGED applied
      PROVE  \A i \in Ids : AppliedTo(i)' = AppliedTo(i)
  BY <1>3 DEF AppliedTo
<1>4. QED
  BY <1>1, <1>2, <1>3
     DEF ServerNext, ServerStep, applyOne, Fail, Replay, RollBack, Tick, pruneUser, serverVars

LEMMA HistoryStep ==
  ASSUME CreatedOnce(Ops), IInv, IInv', History, [ServerNext]_serverVars
  PROVE  History'
<1>1. ASSUME NEW op \in Ops, NEW at \in Nat \ {0}, Write(op, at)
      PROVE  History'
  BY <1>1, WriteHistory
<1>2. ASSUME NEW at, pruneUser(at)
      PROVE  History'
  BY <1>2, PruneHistory
<1>3. ASSUME rows' = rows, \A i \in Ids : AppliedTo(i)' = AppliedTo(i)
      PROVE  History'
  BY <1>3 DEF History, Begun, Keyed, Orphaned, Created
<1>4. QED
  BY <1>1, <1>2, <1>3, ServerSteps

LEMMA HistoryCorrect == CreatedOnce(Ops) => (ServerSpec => [](IInv /\ History))
<1> SUFFICES ASSUME CreatedOnce(Ops) PROVE ServerSpec => [](IInv /\ History)
  OBVIOUS
<1>1. ServerInit => History
  BY DEF ServerInit, History, Begun, Keyed, Orphaned, AppliedTo, Exists, Tombstoned, NoRow
<1>2. IInv /\ IInv' /\ History /\ [ServerNext]_serverVars => History'
  BY HistoryStep
<1>3. QED
  BY InvCorrect, <1>1, <1>2, PTL DEF ServerSpec

----------------------------------------------------------------------------
(* A row's version counts what was applied to it.                          *)

Counted ==
  \A i \in Ids : /\ IsFiniteSet(AppliedTo(i))
                 /\ Exists(rows[i]) => rows[i].version = Cardinality(AppliedTo(i))

LEMMA WriteCounted ==
  ASSUME CreatedOnce(Ops), IInv, History, Counted, NEW op \in Ops, NEW at \in Nat \ {0},
         Write(op, at), NEW i \in Ids
  PROVE  /\ IsFiniteSet(AppliedTo(i)')
         /\ Exists(rows'[i]) => rows'[i].version = Cardinality(AppliedTo(i)')
<1> USE DEF IInv
<1>1. CASE i # op.id
  BY <1>1, WriteTo, WriteRows DEF Counted
<1>2. CASE i = op.id
  <2>1. AppliedTo(i)' = AppliedTo(i) \cup {op} /\ op \notin AppliedTo(i)
    BY <1>2, WriteTo
  <2>2. /\ IsFiniteSet(AppliedTo(i)')
        /\ Cardinality(AppliedTo(i)') = Cardinality(AppliedTo(i)) + 1
    BY <2>1, FS_AddElement DEF Counted
  <2>3. rows[i].version = Cardinality(AppliedTo(i))
    <3>1. CASE Exists(rows[i])
      BY <3>1 DEF Counted
    <3>2. CASE ~Exists(rows[i])
      <4>1. AppliedTo(i) = {} /\ rows[i] = NoRow
        BY <1>2, <3>2, NeverAgain DEF Absent
      <4>2. QED
        BY <4>1, FS_EmptySet DEF NoRow
    <3>3. QED
      BY <3>1, <3>2
  <2>4. QED
    BY <1>2, <2>2, <2>3, WriteRows
<1>3. QED
  BY <1>1, <1>2

\* A row's version is the number of operations applied to it, so however
\* often an operation is delivered its effect happens once.  It needs that a
\* pruned row never starts again from version 1.
THEOREM VersionsCount ==
  ASSUME CreatedOnce(Ops)
  PROVE  ServerSpec => []VersionCountsApplied
<1>1. ServerInit => Counted
  <2> SUFFICES ASSUME ServerInit PROVE Counted
    OBVIOUS
  <2>1. \A i \in Ids : AppliedTo(i) = {}
    BY DEF ServerInit, AppliedTo
  <2>2. ASSUME NEW i \in Ids PROVE ~Exists(rows[i])
    <3>1. rows[i].version = 0
      BY DEF ServerInit, NoRow
    <3>2. QED
      BY <3>1 DEF Exists
  <2>3. QED
    BY <2>1, <2>2, FS_EmptySet DEF Counted
<1>2. IInv /\ History /\ Counted /\ [ServerNext]_serverVars => Counted'
  <2> SUFFICES ASSUME IInv, History, Counted, [ServerNext]_serverVars
               PROVE  Counted'
    OBVIOUS
  <2>1. ASSUME NEW op \in Ops, NEW at \in Nat \ {0}, Write(op, at)
        PROVE  Counted'
    BY <2>1, WriteCounted DEF Counted
  <2>2. ASSUME NEW at, pruneUser(at), \A i \in Ids : AppliedTo(i)' = AppliedTo(i)
        PROVE  Counted'
    <3>1. ASSUME NEW i \in Ids, Exists(rows'[i])
          PROVE  rows'[i].version = rows[i].version /\ Exists(rows[i])
      BY <2>2, <3>1, PrunedRow DEF Exists, NoRow, IInv
    <3>2. QED
      BY <2>2, <3>1 DEF Counted
  <2>3. ASSUME rows' = rows, \A i \in Ids : AppliedTo(i)' = AppliedTo(i)
        PROVE  Counted'
    BY <2>3 DEF Counted
  <2>4. QED
    BY <2>1, <2>2, <2>3, ServerSteps
<1>3. Counted => VersionCountsApplied
  BY DEF Counted, VersionCountsApplied, AppliedTo
<1>4. QED
  BY HistoryCorrect, <1>1, <1>2, <1>3, PTL DEF ServerSpec

----------------------------------------------------------------------------
(* What was deleted stays deleted.                                         *)

\* What stopped being live is never live again, written to or pruned.
LEMMA StaysDead ==
  ASSUME CreatedOnce(Ops), IInv, History, [ServerNext]_serverVars, NEW i \in Ids,
         ~Live(rows[i]), AppliedTo(i) # {}
  PROVE  ~Live(rows'[i])
<1> USE DEF IInv
<1>1. ASSUME NEW op \in Ops, NEW at \in Nat \ {0}, Write(op, at)
      PROVE  ~Live(rows'[i])
  <2>1. CASE i # op.id
    BY <1>1, <2>1, WriteRows
  <2>2. CASE i = op.id
    <3>1. Exists(rows[i]) /\ Tombstoned(rows[i])
      BY <1>1, <2>2, NeverAgain DEF Live
    <3>2. op.kind = "delete"
      BY <1>1, <2>2, <3>1, WriteKind
    <3>3. QED
      BY <1>1, <2>2, <3>2, WriteValues DEF Live, Tombstoned
  <2>3. QED
    BY <2>1, <2>2
<1>2. ASSUME NEW at, pruneUser(at)
      PROVE  ~Live(rows'[i])
  BY <1>2, PrunedRow DEF Live, Exists, Tombstoned, NoRow
<1>3. QED
  BY <1>1, <1>2, ServerSteps

\* A row that was created and is deleted never becomes live again: not by a
\* late create or edit while its tombstone is kept, and not by one once the
\* tombstone is pruned.
THEOREM DeletedStaysDeleted ==
  ASSUME CreatedOnce(Ops)
  PROVE  ServerSpec => NoResurrection
<1> DEFINE Gone1 == \A i \in Ids :
             (/\ ~Live(rows[i])
              /\ \E op \in Ops : op.id = i /\ op.kind = "create"
                                           /\ applied[op] = "applied")
                => ~Live(rows'[i])
<1>1. IInv /\ History /\ [ServerNext]_serverVars => [Gone1]_serverVars
  BY StaysDead DEF AppliedTo
<1>2. QED
  BY HistoryCorrect, <1>1, PTL DEF ServerSpec, NoResurrection

----------------------------------------------------------------------------
(* Each column of a live row holds the latest of the settled edits.        *)

\* What was superseded was superseded by something that was applied.
Outdone ==
  \A op \in Ops : applied[op] = "superseded" => AppliedTo(op.id) # {}

\* No column of a live row is older than an edit that was settled.
NoOlder ==
  \A op \in Ops : \A f \in DOMAIN op.fields :
    (/\ applied[op] \in {"applied", "superseded"}
     /\ Live(rows[op.id])
     /\ f \notin derivedIdKeys(op.id)) =>
        rows[op.id].fieldTs[f] >= clamp(op.ts, 1)

\* A column of a live row that was ever written holds what some applied edit
\* wrote, at a time that edit was given.
Written ==
  \A i \in Ids : \A f \in Fields :
    Live(rows[i]) /\ rows[i].fieldTs[f] # 0 =>
      \E w \in Ops : /\ applied[w] = "applied"
                     /\ w.id = i
                     /\ f \in DOMAIN w.fields
                     /\ w.fields[f] = rows[i].val[f]
                     /\ clamp(w.ts, 1) <= rows[i].fieldTs[f]
                     /\ rows[i].fieldTs[f] <= w.ts

\* How an operation comes to be settled.
LEMMA Settling ==
  ASSUME IInv, [ServerNext]_serverVars, NEW op \in Ops,
         applied'[op] \in {"applied", "superseded"}
  PROVE  \/ applied'[op] = applied[op]
         \/ \E at \in Nat \ {0} : Write(op, at)
         \/ \E at \in Nat \ {0} : /\ RecordRefusal(op, at)
                                  /\ outcome(rows, op, at) = "superseded"
<1> USE DEF IInv, ServerTypeOK
<1>1. 1..now \subseteq Nat \ {0}
  OBVIOUS
<1>2. ASSUME NEW o \in Ops, NEW at \in Nat \ {0}, Write(o, at)
      PROVE  applied'[op] = applied[op] \/ o = op
  BY <1>2 DEF Write
<1>3. ASSUME NEW o \in Ops, NEW at \in Nat \ {0}, RecordRefusal(o, at)
      PROVE  \/ applied'[op] = applied[op]
             \/ o = op /\ outcome(rows, op, at) = "superseded"
  BY <1>3 DEF RecordRefusal
<1>4. QED
  BY <1>1, <1>2, <1>3
     DEF ServerNext, ServerStep, applyOne, Fail, Replay, RollBack, Tick, pruneUser, serverVars

\* What is applied stays applied.
LEMMA AppliedKept ==
  ASSUME IInv, [ServerNext]_serverVars, NEW i \in Ids
  PROVE  AppliedTo(i) \subseteq AppliedTo(i)'
<1>1. ASSUME NEW op \in Ops, NEW at \in Nat \ {0}, Write(op, at)
      PROVE  AppliedTo(i) \subseteq AppliedTo(i)'
  BY <1>1, WriteTo DEF IInv
<1>2. QED
  BY <1>1, ServerSteps

LEMMA OutdoneStep ==
  ASSUME IInv, History, Outdone, [ServerNext]_serverVars
  PROVE  Outdone'
<1> SUFFICES ASSUME NEW op \in Ops, applied'[op] = "superseded"
             PROVE  AppliedTo(op.id)' # {}
  BY DEF Outdone
<1>1. op.id \in Ids
  BY ConstantsAssumption DEF IsOp
<1>2. AppliedTo(op.id) # {}
  <2>1. CASE applied'[op] = applied[op]
    BY <2>1 DEF Outdone
  <2>2. ASSUME NEW at \in Nat \ {0}, outcome(rows, op, at) = "superseded"
        PROVE  AppliedTo(op.id) # {}
    <3>1. Exists(rows[op.id])
      BY <2>2 DEF outcome, applyOp
    <3>2. QED
      BY <1>1, <3>1 DEF History, Begun, Created
  <2>3. ASSUME NEW at \in Nat \ {0}, Write(op, at)
        PROVE  FALSE
    BY <2>3 DEF Write, IInv, ServerTypeOK
  <2>4. QED
    BY <2>1, <2>2, <2>3, Settling
<1>3. QED
  BY <1>1, <1>2, AppliedKept

\* While a row is live its columns only get newer.
LEMMA ColumnsGetNewer ==
  ASSUME IInv, [ServerNext]_serverVars, NEW i \in Ids, Live(rows[i]), Live(rows'[i]),
         NEW f \in Fields
  PROVE  /\ rows[i].fieldTs[f] \in Nat /\ rows'[i].fieldTs[f] \in Nat
         /\ rows'[i].fieldTs[f] >= rows[i].fieldTs[f]
<1> USE DEF IInv
<1>1. rows[i].fieldTs[f] \in Nat
  BY DEF ServerTypeOK, Row
<1>2. ASSUME NEW op \in Ops, NEW at \in Nat \ {0}, Write(op, at)
      PROVE  rows'[i].fieldTs[f] \in Nat /\ rows'[i].fieldTs[f] >= rows[i].fieldTs[f]
  <2>1. CASE i # op.id
    BY <1>1, <1>2, <2>1, WriteRows
  <2>2. CASE i = op.id
    <3>1. op.kind # "delete"
      BY <1>2, <2>2, WriteValues DEF Live, Tombstoned
    <3>2. f \in winningFields(op, rows[i], at) => clamp(op.ts, at) > rows[i].fieldTs[f]
      BY DEF winningFields
    <3>3. clamp(op.ts, at) \in Nat
      BY ClampedTs
    <3>4. QED
      BY <1>1, <1>2, <2>2, <3>1, <3>2, <3>3, WriteMerges
  <2>3. QED
    BY <2>1, <2>2
<1>3. ASSUME NEW at, pruneUser(at)
      PROVE  rows'[i].fieldTs[f] \in Nat /\ rows'[i].fieldTs[f] >= rows[i].fieldTs[f]
  <2>1. rows'[i] = NoRow \/ rows'[i] = rows[i]
    BY <1>3, PruneKeepsLive, PrunedRow
  <2>2. NoRow.version = 0
    BY DEF NoRow
  <2>3. rows'[i] = rows[i]
    BY <2>1, <2>2 DEF Live, Exists
  <2>4. QED
    BY <1>1, <2>3
<1>4. QED
  BY <1>1, <1>2, <1>3, ServerSteps

LEMMA NoOlderStep ==
  ASSUME CreatedOnce(Ops), IInv, History, Outdone, NoOlder, [ServerNext]_serverVars
  PROVE  NoOlder'
<1> SUFFICES ASSUME NEW op \in Ops, NEW f \in DOMAIN op.fields,
                    applied'[op] \in {"applied", "superseded"},
                    Live(rows'[op.id]), f \notin derivedIdKeys(op.id)
             PROVE  rows'[op.id].fieldTs[f] >= clamp(op.ts, 1)
  BY DEF NoOlder
<1>1. op.id \in Ids /\ f \in Fields
  BY ConstantsAssumption DEF IsOp
<1>2. CASE applied'[op] = applied[op]
  <2>1. AppliedTo(op.id) # {}
    BY <1>2 DEF Outdone, AppliedTo
  <2>2. Live(rows[op.id])
    BY <1>1, <2>1, StaysDead
  <2>3. rows[op.id].fieldTs[f] >= clamp(op.ts, 1)
    BY <1>2, <2>2 DEF NoOlder
  <2>4. clamp(op.ts, 1) \in Nat
    BY ClampedTs
  <2>5. QED
    BY <1>1, <2>2, <2>3, <2>4, ColumnsGetNewer
<1>3. ASSUME NEW at \in Nat \ {0}, f \notin winningFields(op, rows[op.id], at),
             rows'[op.id].fieldTs[f] = rows[op.id].fieldTs[f]
      PROVE  rows'[op.id].fieldTs[f] >= clamp(op.ts, 1)
  <2>1. ~ (clamp(op.ts, at) > rows[op.id].fieldTs[f])
    BY <1>3 DEF winningFields
  <2>2. rows[op.id].fieldTs[f] \in Nat
    BY <1>1 DEF IInv, ServerTypeOK, Row
  <2>3. QED
    BY <1>3, <2>1, <2>2, ClampedTs
<1>4. ASSUME NEW at \in Nat \ {0}, Write(op, at)
      PROVE  rows'[op.id].fieldTs[f] >= clamp(op.ts, 1)
  <2>1. op.kind # "delete"
    BY <1>4, WriteValues DEF IInv, Live, Tombstoned
  <2>2. CASE f \in winningFields(op, rows[op.id], at)
    BY <1>1, <1>4, <2>1, <2>2, WriteMerges, ClampedTs DEF IInv
  <2>3. CASE f \notin winningFields(op, rows[op.id], at)
    BY <1>1, <1>3, <1>4, <2>1, <2>3, WriteMerges DEF IInv
  <2>4. QED
    BY <2>2, <2>3
<1>5. ASSUME NEW at \in Nat \ {0}, RecordRefusal(op, at),
             outcome(rows, op, at) = "superseded"
      PROVE  rows'[op.id].fieldTs[f] >= clamp(op.ts, 1)
  <2>1. winningFields(op, rows[op.id], at) = {} /\ rows' = rows
    BY <1>5 DEF outcome, applyOp, RecordRefusal
  <2>2. QED
    BY <1>3, <2>1
<1>6. QED
  BY <1>2, <1>4, <1>5, Settling

LEMMA WrittenStep ==
  ASSUME IInv, Written, [ServerNext]_serverVars
  PROVE  Written'
<1> USE DEF IInv
<1> SUFFICES ASSUME NEW i \in Ids, NEW f \in Fields, Live(rows'[i]),
                    rows'[i].fieldTs[f] # 0
             PROVE  \E w \in Ops : /\ applied'[w] = "applied"
                                   /\ w.id = i
                                   /\ f \in DOMAIN w.fields
                                   /\ w.fields[f] = rows'[i].val[f]
                                   /\ clamp(w.ts, 1) <= rows'[i].fieldTs[f]
                                   /\ rows'[i].fieldTs[f] <= w.ts
  BY DEF Written
<1>1. ASSUME Live(rows[i]), rows'[i].fieldTs[f] = rows[i].fieldTs[f],
             rows'[i].val[f] = rows[i].val[f]
      PROVE  \E w \in AppliedTo(i)' : /\ f \in DOMAIN w.fields
                                      /\ w.fields[f] = rows'[i].val[f]
                                      /\ clamp(w.ts, 1) <= rows'[i].fieldTs[f]
                                      /\ rows'[i].fieldTs[f] <= w.ts
  <2>1. PICK w \in Ops : /\ applied[w] = "applied"
                         /\ w.id = i
                         /\ f \in DOMAIN w.fields
                         /\ w.fields[f] = rows[i].val[f]
                         /\ clamp(w.ts, 1) <= rows[i].fieldTs[f]
                         /\ rows[i].fieldTs[f] <= w.ts
    BY <1>1 DEF Written
  <2>2. w \in AppliedTo(i)'
    BY <2>1, AppliedKept DEF AppliedTo
  <2>3. QED
    BY <1>1, <2>1, <2>2
<1>2. ASSUME NEW op \in Ops, NEW at \in Nat \ {0}, Write(op, at), i = op.id
      PROVE  \E w \in AppliedTo(i)' : /\ f \in DOMAIN w.fields
                                      /\ w.fields[f] = rows'[i].val[f]
                                      /\ clamp(w.ts, 1) <= rows'[i].fieldTs[f]
                                      /\ rows'[i].fieldTs[f] <= w.ts
  <2>1. op.kind # "delete"
    BY <1>2, WriteValues DEF Live, Tombstoned
  <2>2. CASE f \in winningFields(op, rows[i], at)
    <3>1. /\ rows'[i].val[f] = op.fields[f] /\ f \in DOMAIN op.fields
          /\ rows'[i].fieldTs[f] = clamp(op.ts, at)
      BY <1>2, <2>1, <2>2, WriteMerges DEF winningFields
    <3>2. op \in AppliedTo(i)'
      BY <1>2, WriteTo
    <3>3. QED
      BY <3>1, <3>2, ClampedTs
  <2>3. CASE f \notin winningFields(op, rows[i], at)
    <3>1. /\ rows'[i].val[f] = rows[i].val[f]
          /\ rows'[i].fieldTs[f] = rows[i].fieldTs[f]
      BY <1>2, <2>1, <2>3, WriteMerges
    <3>2. Exists(rows[i])
      <4>1. rows[i] = NoRow => rows[i].fieldTs[f] = 0
        BY DEF NoRow
      <4>2. QED
        BY <3>1, <4>1 DEF Absent
    <3>3. Live(rows[i])
      BY <1>2, <2>1, <3>2, WriteKind DEF Live
    <3>4. QED
      BY <1>1, <3>1, <3>3
  <2>4. QED
    BY <2>2, <2>3
<1>3. ASSUME NEW op \in Ops, NEW at \in Nat \ {0}, Write(op, at), i # op.id
      PROVE  rows'[i] = rows[i]
  BY <1>3, WriteRows
<1>4. ASSUME NEW at, pruneUser(at)
      PROVE  rows'[i] = rows[i] /\ Live(rows[i])
  <2>1. i \notin prunable(at) \cup cascaded(prunable(at))
    <3>1. NoRow.version = 0
      BY DEF NoRow
    <3>2. QED
      BY <1>4, <3>1, PrunedRow DEF Live, Exists
  <2>2. Live(rows[i])
    BY <1>4, <2>1, PrunedRow DEF Live, Exists, Tombstoned
  <2>3. QED
    BY <1>4, <2>1, <2>2, PruneKeepsLive
<1>5. QED
  BY <1>1, <1>2, <1>3, <1>4, ServerSteps DEF AppliedTo

\* In whatever order the edits of a row arrive, each of its columns holds
\* what the latest of those the server settled wrote.
THEOREM LatestWins ==
  ASSUME CreatedOnce(Ops)
  PROVE  ServerSpec => []LatestEditWins
<1>1. ServerInit => Outdone /\ NoOlder /\ Written
  <2> SUFFICES ASSUME ServerInit PROVE Outdone /\ NoOlder /\ Written
    OBVIOUS
  <2>1. ASSUME NEW i \in Ids PROVE ~Live(rows[i])
    <3>1. rows[i].version = 0
      BY DEF ServerInit, NoRow
    <3>2. QED
      BY <3>1 DEF Live, Exists
  <2>2. \A op \in Ops : applied[op] = "none"
    BY DEF ServerInit
  <2>3. QED
    BY <2>1, <2>2 DEF Outdone, NoOlder, Written
<1>2. /\ IInv /\ History /\ Outdone /\ NoOlder /\ Written /\ [ServerNext]_serverVars
      => Outdone' /\ NoOlder' /\ Written'
  BY OutdoneStep, NoOlderStep, WrittenStep
<1>3. IInv /\ NoOlder /\ Written => LatestEditWins
  <2> SUFFICES ASSUME IInv, NoOlder, Written, NEW op \in Ops, NEW f \in DOMAIN op.fields,
                      applied[op] \in {"applied", "superseded"},
                      Live(rows[op.id]), f \notin derivedIdKeys(op.id)
               PROVE  /\ rows[op.id].fieldTs[f] >= clamp(op.ts, 1)
                      /\ \E w \in Ops : /\ applied[w] = "applied"
                                        /\ w.id = op.id
                                        /\ f \in DOMAIN w.fields
                                        /\ w.fields[f] = rows[op.id].val[f]
                                        /\ clamp(w.ts, 1) <= rows[op.id].fieldTs[f]
                                        /\ rows[op.id].fieldTs[f] <= w.ts
    BY DEF LatestEditWins
  <2>1. op.id \in Ids /\ f \in Fields
    BY ConstantsAssumption DEF IsOp
  <2>2. rows[op.id].fieldTs[f] >= clamp(op.ts, 1)
    BY DEF NoOlder
  <2>3. rows[op.id].fieldTs[f] # 0
    <3>1. clamp(op.ts, 1) \in Nat \ {0} /\ 1 \in Nat \ {0}
      BY ClampedTs
    <3>2. QED
      BY <2>2, <3>1
  <2>4. QED
    BY <2>1, <2>2, <2>3 DEF Written
<1>4. QED
  BY HistoryCorrect, <1>1, <1>2, <1>3, PTL DEF ServerSpec

----------------------------------------------------------------------------
(* A pull leaves nothing out.                                              *)

\* A finite set of numbers has a largest one.  (Were some subset of it without
\* one, a smallest such subset would be: remove a member, and compare.)
LEMMA FiniteHasMax ==
  ASSUME NEW S \in SUBSET Nat, S # {}, IsFiniteSet(S)
  PROVE  Max(S) \in S /\ \A x \in S : x <= Max(S)
<1> DEFINE HasMax(U) == \E m \in U : \A x \in U : x <= m
           Bad == {U \in FiniteSubsetsOf(S) : U # {} /\ ~HasMax(U)}
<1>1. Bad = {}
  <2> SUFFICES ASSUME Bad # {} PROVE FALSE
    OBVIOUS
  <2>1. IsWellFoundedOn(StrictSubsetOrdering(S), FiniteSubsetsOf(S))
    BY FS_StrictSubsetOrderingWellFounded
  <2>2. Bad \subseteq FiniteSubsetsOf(S)
    OBVIOUS
  <2> HIDE DEF Bad
  <2>3. PICK U \in Bad : \A W \in Bad : ~ (<<W, U>> \in StrictSubsetOrdering(S))
    BY <2>1, <2>2, WFMin
  <2>4. U \in FiniteSubsetsOf(S) /\ U # {} /\ ~HasMax(U)
    BY DEF Bad
  <2>5. PICK x \in U : TRUE
    BY <2>4
  <2>6. U \subseteq Nat /\ IsFiniteSet(U \ {x}) /\ U \ {x} \in FiniteSubsetsOf(S)
    BY <2>4, FS_RemoveElement DEF FiniteSubsetsOf
  <2>7. <<U \ {x}, U>> \in StrictSubsetOrdering(S)
    BY <2>4, <2>5, <2>6 DEF StrictSubsetOrdering, FiniteSubsetsOf
  <2>8. U \ {x} \notin Bad
    BY <2>3, <2>7
  <2>9. CASE U \ {x} = {}
    BY <2>4, <2>5, <2>6, <2>9
  <2>10. CASE U \ {x} # {}
    <3>1. PICK m \in U \ {x} : \A y \in U \ {x} : y <= m
      BY <2>6, <2>8, <2>10 DEF Bad
    <3>2. x \in Nat /\ m \in Nat
      BY <2>6
    <3>3. CASE x <= m
      BY <2>4, <3>1, <3>3
    <3>4. CASE m < x
      <4>1. \A y \in U : y <= x
        BY <2>6, <3>1, <3>2, <3>4
      <4> QED
        BY <2>4, <4>1
    <3> QED
      BY <3>2, <3>3, <3>4
  <2> QED
    BY <2>9, <2>10
<1>2. HasMax(S)
  BY <1>1 DEF FiniteSubsetsOf
<1>3. \E m \in S : \A y \in S : m >= y
  BY <1>2
<1> QED
  BY <1>3 DEF Max

\* No number is higher than the last one drawn.
Drawn == watermark <= seq /\ \A i \in Ids : rows[i].seq <= seq

LEMMA DrawnStep ==
  ASSUME IInv, IInv', Drawn, [ServerNext]_serverVars
  PROVE  Drawn'
<1> USE DEF IInv
<1>1. watermark \in Nat /\ seq \in Nat /\ \A i \in Ids : rows[i].seq \in Nat
  BY DEF ServerTypeOK, Row
<1>2. ASSUME NEW op \in Ops, NEW at \in Nat, Write(op, at)
      PROVE  Drawn'
  <2>1. \A i \in Ids : rows'[i].seq = rows[i].seq \/ rows'[i].seq = seq + 1
    BY <1>2, WriteRows
  <2>2. watermark' = watermark /\ seq' = seq + 1
    BY <1>2 DEF Write
  <2>3. QED
    BY <1>1, <2>1, <2>2 DEF Drawn
<1>3. ASSUME NEW at, pruneUser(at)
      PROVE  Drawn'
  <2>1. seq' = seq
    BY <1>3 DEF pruneUser
  <2>2. \A i \in Ids : rows'[i].seq = rows[i].seq \/ rows'[i].seq = 0
    BY <1>3, PrunedRow DEF NoRow
  <2>3. watermark' \in {watermark} \cup {rows[i].seq : i \in prunable(at)}
    BY <1>3 DEF pruneUser, Highest
  <2>4. watermark' <= seq
    BY <2>3, PrunableTombstoned DEF Drawn
  <2>5. QED
    BY <1>1, <2>1, <2>2, <2>4 DEF Drawn
<1>4. ASSUME UNCHANGED <<rows, watermark>>, seq' = seq \/ seq' = seq + 1
      PROVE  Drawn'
  BY <1>1, <1>4 DEF Drawn
<1>5. 1..now \subseteq Nat
  BY DEF ServerTypeOK
<1>6. QED
  BY <1>2, <1>3, <1>4, <1>5
     DEF ServerNext, ServerStep, applyOne, Fail, Replay, RecordRefusal, RollBack, Tick,
         serverVars

\* A pull's cursor is the largest of the numbers it covers.
LEMMA CursorIsLargest ==
  ASSUME IInv, Drawn, NEW since \in 0..seq,
         NEW covered, covered # {},
         covered \subseteq {since, watermark} \cup {rows[i].seq : i \in Ids}
  PROVE  Max(covered) \in covered /\ \A n \in covered : n <= Max(covered)
<1>1. covered \in SUBSET Nat /\ seq \in Nat /\ \A n \in covered : n <= seq
  BY DEF IInv, ServerTypeOK, Row, Drawn
<1>2. IsFiniteSet(covered)
  BY <1>1, FS_BoundedSetOfNaturals
<1>3. QED
  BY <1>1, <1>2, FiniteHasMax

\* What a pull covers, and the cursor it ends at.
LEMMA PullCovers ==
  ASSUME IInv, Drawn, NEW since \in 0..seq, ~Gone(since)
  PROVE  /\ ~Gone(changesSince(since).cursor)
         /\ \A i \in Ids : Visible(rows, i) =>
              /\ rows[i].seq <= changesSince(since).cursor
              /\ rows[i].seq > since => i \in DOMAIN changesSince(since).changes
         /\ \A i \in Ids : since # 0 /\ rows[i].seq > since =>
              /\ i \in DOMAIN changesSince(since).changes
              /\ changesSince(since).changes[i] = rows[i]
<1> DEFINE delivered == {i \in Ids : IF since = 0 THEN Visible(rows, i)
                                                 ELSE rows[i].seq > since}
           covered == IF since = 0
                      THEN {watermark} \cup {rows[i].seq : i \in Ids}
                      ELSE {since} \cup {rows[i].seq : i \in delivered}
<1>1. /\ changesSince(since).cursor = Max(covered)
      /\ DOMAIN changesSince(since).changes = delivered
      /\ \A i \in delivered : changesSince(since).changes[i] = rows[i]
  BY DEF changesSince
<1>2. covered # {} /\ covered \subseteq {since, watermark} \cup {rows[i].seq : i \in Ids}
  OBVIOUS
<1>3. /\ since \in Nat /\ watermark \in Nat
      /\ \A i \in Ids : rows[i].seq \in Nat
  BY DEF IInv, ServerTypeOK, Row
<1>4. covered \subseteq Nat
  BY <1>2, <1>3
<1> DEFINE cursor == Max(covered)
<1>5. cursor \in covered /\ \A n \in covered : n <= cursor
  BY <1>2, CursorIsLargest
<1>6. cursor \in Nat
  BY <1>4, <1>5
<1> HIDE DEF cursor
<1>7. ~Gone(cursor)
  BY <1>3, <1>5, <1>6 DEF Gone
<1>8. ASSUME NEW i \in Ids, Visible(rows, i)
      PROVE  /\ rows[i].seq <= cursor
             /\ rows[i].seq > since => i \in delivered
  BY <1>3, <1>5, <1>6, <1>8
<1>9. QED
  BY <1>1, <1>7, <1>8 DEF cursor

\* Row i was shown when n was the last number drawn.  What hides it now, if
\* anything, was numbered later: the row's own deletion, or that of a task or a
\* tag it belongs to; or the tombstone is pruned and the watermark is later.
Hides(j, i) == (j = i /\ ~IsDerived(i)) \/ \E k \in Owners(i) : KeyOf[i][k] = j
Hidden(i, n) ==
  \/ watermark > n
  \/ \E j \in Ids : /\ Hides(j, i) /\ ~IsDerived(j)
                    /\ Tombstoned(rows[j]) /\ rows[j].seq > n
Believed(i, n) == n <= seq /\ (Visible(rows, i) \/ Hidden(i, n))

\* What hides it stays, is deleted anew under a later number, or is pruned.
LEMMA StillHidden ==
  ASSUME IInv, History, NEW i \in Ids, NEW n \in Nat, n <= seq, Hidden(i, n),
         [ServerNext]_serverVars
  PROVE  Hidden(i, n)'
<1> USE DEF IInv
<1>1. /\ watermark \in Nat /\ watermark' >= watermark
      /\ seq \in Nat /\ \A j \in Ids : rows[j].seq \in Nat
  <2>1. watermark \in Nat /\ seq \in Nat /\ \A j \in Ids : rows[j].seq \in Nat
    BY DEF ServerTypeOK, Row
  <2>2. watermark' = watermark \/ \E at : pruneUser(at)
    BY DEF ServerNext, ServerStep, applyOne, Fail, Replay, RecordRefusal, RollBack, Tick,
           Write, serverVars
  <2>3. ASSUME NEW at, pruneUser(at) PROVE watermark' \in Nat /\ watermark' >= watermark
    <3>1. watermark' \in {watermark} \cup {rows[j].seq : j \in prunable(at)}
      BY <2>3 DEF pruneUser, Highest
    <3>2. watermark' >= watermark
      BY <2>3 DEF pruneUser, Highest
    <3> QED
      BY <2>1, <3>1, <3>2, PrunableTombstoned
  <2> QED
    BY <2>1, <2>2, <2>3
<1>2. CASE watermark > n
  <2>1. watermark' \in Nat \/ watermark' = watermark
    <3>1. ASSUME NEW at, pruneUser(at) PROVE watermark' \in Nat
      BY <1>1, <3>1, PrunableTombstoned DEF pruneUser, Highest
    <3> QED
      BY <3>1 DEF ServerNext, ServerStep, applyOne, Fail, Replay, RecordRefusal, RollBack,
                  Tick, Write, serverVars
  <2> QED
    BY <1>1, <1>2, <2>1 DEF Hidden
<1>3. ASSUME NEW j \in Ids, Hides(j, i), ~IsDerived(j), Tombstoned(rows[j]),
             rows[j].seq > n
      PROVE  Hidden(i, n)'
  <2>1. ASSUME NEW op \in Ops, NEW at \in Nat \ {0}, Write(op, at)
        PROVE  Tombstoned(rows'[j]) /\ rows'[j].seq > n
    <3>1. CASE j # op.id
      BY <1>3, <2>1, <3>1, WriteRows
    <3>2. CASE j = op.id
      <4>1. op.kind = "delete"
        <5>1. rows[j] # NoRow
          BY <1>3 DEF Tombstoned, NoRow
        <5> QED
          BY <1>3, <2>1, <3>2, <5>1, WriteKind DEF Absent
      <4>2. rows'[j].deletedAt = at /\ rows'[j].seq = seq + 1
        BY <2>1, <3>2, <4>1, WriteRows, WriteValues
      <4> QED
        BY <1>1, <4>2 DEF Tombstoned
    <3> QED
      BY <3>1, <3>2
  <2>2. ASSUME NEW at, pruneUser(at) PROVE Hidden(i, n)'
    <3>1. CASE j \in prunable(at)
      <4>1. watermark' >= rows[j].seq
        BY <2>2, <3>1 DEF pruneUser, Highest
      <4>2. watermark' \in Nat
        BY <1>1, <2>2, PrunableTombstoned DEF pruneUser, Highest
      <4> QED
        BY <1>1, <1>3, <4>1, <4>2 DEF Hidden
    <3>2. CASE j \notin prunable(at)
      <4>1. j \notin cascaded(prunable(at))
        BY <1>3 DEF cascaded
      <4>2. Tombstoned(rows'[j]) /\ rows'[j].seq > n
        BY <1>3, <2>2, <3>2, <4>1, PrunedRow DEF Tombstoned
      <4> QED
        BY <1>3, <4>2 DEF Hidden
    <3> QED
      BY <3>1, <3>2
  <2>3. CASE rows' = rows
    BY <1>3, <2>3 DEF Hidden
  <2> QED
    BY <1>3, <2>1, <2>2, <2>3, ServerSteps DEF Hidden
<1> QED
  BY <1>2, <1>3 DEF Hidden

\* What is shown stays, or is hidden under the next number.
LEMMA NowHidden ==
  ASSUME IInv, History, NEW i \in Ids, NEW n \in Nat, n <= seq, Visible(rows, i),
         [ServerNext]_serverVars
  PROVE  Visible(rows', i) \/ Hidden(i, n)'
<1> USE DEF IInv, History
<1>1. ASSUME NEW op \in Ops, NEW at \in Nat \ {0}, Write(op, at), ~Visible(rows', i)
      PROVE  Hidden(i, n)'
  <2>1. op.id \in Ids /\ rows'[op.id].seq = seq + 1 /\ seq \in Nat
    BY <1>1, WriteRows DEF ServerTypeOK
  <2>2. /\ Live(rows[i])
        /\ \A k \in Owners(i) : IsDerived(i) /\ rows[i].val[k] # Null =>
             Live(rows[rows[i].val[k]])
    BY DEF Visible, Owners
  <2>3. ASSUME op.kind = "delete" PROVE Tombstoned(rows'[op.id])
    BY <1>1, <2>3, WriteValues DEF Tombstoned
  <2>4. ASSUME NEW j \in Ids, Live(rows[j]), ~Live(rows'[j])
        PROVE  j = op.id /\ Tombstoned(rows'[j]) /\ ~IsDerived(j)
    <3>1. j = op.id
      BY <1>1, <2>4, WriteRows
    <3>2. Exists(rows'[j])
      BY <1>1, <3>1, WriteTo
    <3>3. op.kind = "delete"
      BY <1>1, <2>4, <3>1, <3>2, WriteKind, WriteValues DEF Live, Tombstoned
    <3> QED
      BY <1>1, <2>3, <3>1, <3>3, WriteKind
  <2>5. CASE ~Live(rows'[i])
    <3>1. i = op.id /\ Tombstoned(rows'[i]) /\ ~IsDerived(i)
      BY <2>2, <2>4, <2>5
    <3> QED
      BY <2>1, <3>1 DEF Hidden, Hides
  <2>6. CASE Live(rows'[i])
    <3>1. IsDerived(i)
      BY <1>1, <2>6 DEF Visible
    <3>2. PICK k \in Owners(i) : rows'[i].val[k] # Null /\ ~Live(rows'[rows'[i].val[k]])
      BY <1>1, <2>6 DEF Visible, Owners
    <3>3. rows'[i].val[k] = rows[i].val[k]
      <4>1. CASE op.id # i
        BY <1>1, <4>1, WriteRows
      <4>2. CASE op.id = i
        <5>1. rows'[i].val[k] = KeyOf[i][k]
          BY <1>1, <3>1, <4>2, WriteKey DEF Owners
        <5>2. rows[i].val[k] = KeyOf[i][k]
          BY <2>2, <3>1 DEF Keyed, Live, Owners
        <5> QED
          BY <5>1, <5>2
      <4> QED
        BY <4>1, <4>2
    <3>4. /\ rows[i].val[k] = KeyOf[i][k] /\ rows[i].val[k] \in Ids
          /\ ~IsDerived(rows[i].val[k])
      BY <2>2, <3>1, <3>2, <3>3, OwnerIsNotDerived DEF Live, Owners
    <3>5. Live(rows[rows[i].val[k]])
      BY <2>2, <3>1, <3>2, <3>3
    <3>6. KeyOf[i][k] = op.id /\ Tombstoned(rows'[KeyOf[i][k]])
      BY <2>4, <3>2, <3>3, <3>4, <3>5
    <3> QED
      BY <2>1, <3>4, <3>6 DEF Hidden, Hides
  <2> QED
    BY <2>5, <2>6
<1>2. ASSUME NEW at, pruneUser(at) PROVE Visible(rows', i)
  BY <1>2, PruneInvisible
<1>3. CASE rows' = rows
  BY <1>3
<1> QED
  BY <1>1, <1>2, <1>3, ServerSteps

\* A pull that is not refused tells what hides it.
LEMMA HiddenIsTold ==
  ASSUME IInv, Drawn, NEW i \in Ids, NEW n \in Nat, n <= seq, Hidden(i, n),
         NEW since \in 1..n, ~Gone(since)
  PROVE  Told(i, since)
<1>1. /\ since \in 0..seq /\ since # 0 /\ since <= n
      /\ watermark \in Nat /\ seq \in Nat /\ \A j \in Ids : rows[j].seq \in Nat
  BY DEF IInv, ServerTypeOK, Row
<1>2. ~(watermark > n)
  BY <1>1 DEF Gone
<1>3. PICK j \in Ids : Hides(j, i) /\ Tombstoned(rows[j]) /\ rows[j].seq > n
  BY <1>2 DEF Hidden
<1>4. /\ j \in DOMAIN changesSince(since).changes
      /\ changesSince(since).changes[j] = rows[j]
  BY <1>1, <1>3, PullCovers
<1> QED
  BY <1>3, <1>4 DEF Told, Hides, Owners, Live

(***************************************************************************)
(* A row a client has been shown, with whatever cursor it took until then, *)
(* is shown still, or the next pull the client is not refused tells it     *)
(* what hides the row, now and for ever: by deletions, repeated deletions  *)
(* and pruning (sync.service.ts changesSince, prune.service.ts).  It is    *)
(* what PullHistory!PullCoversEverything says of every row it remembers.   *)
(***************************************************************************)
THEOREM PullsTell ==
  ASSUME CreatedOnce(Ops), NEW i \in Ids, NEW n \in Nat
  PROVE  ServerSpec =>
           [](Visible(rows, i) /\ seq = n =>
                [](\A since \in 1..n : ~Gone(since) => Visible(rows, i) \/ Told(i, since)))
<1> DEFINE Kept == IInv /\ History /\ Drawn
           Answers == \A since \in 1..n : ~Gone(since) => Visible(rows, i) \/ Told(i, since)
           Shown == Visible(rows, i) /\ seq = n
<1>1. ServerInit => Drawn
  BY DEF ServerInit, Drawn, NoRow
<1>2. IInv /\ IInv' /\ Drawn /\ [ServerNext]_serverVars => Drawn'
  BY DrawnStep
<1>3. Shown => Believed(i, n)
  BY DEF Believed
<1>4. Kept /\ Believed(i, n) /\ [ServerNext]_serverVars => Believed(i, n)'
  <2> SUFFICES ASSUME IInv, History, Believed(i, n), [ServerNext]_serverVars
               PROVE  n <= seq' /\ (Visible(rows', i) \/ Hidden(i, n)')
    BY DEF Believed
  <2>1. n <= seq'
    <3>1. seq' = seq \/ seq' = seq + 1
      BY DEF ServerNext, ServerStep, applyOne, Fail, Replay, RecordRefusal, RollBack, Tick,
             Write, pruneUser, serverVars
    <3> QED
      BY <3>1 DEF Believed, IInv, ServerTypeOK
  <2> QED
    BY <2>1, StillHidden, NowHidden DEF Believed
<1>5. Kept /\ Believed(i, n) => Answers
  BY HiddenIsTold DEF Believed
<1>6. ServerSpec => []Kept
  BY HistoryCorrect, <1>1, <1>2, PTL DEF ServerSpec
<1> HIDE DEF Kept, Answers, Shown
<1>7. ServerSpec => [](Shown => []Answers)
  BY <1>3, <1>4, <1>5, <1>6, PTL DEF ServerSpec
<1> QED
  BY <1>7 DEF Answers, Shown

(***************************************************************************)
(* What is shown is delivered to whoever has not got it, and no cursor a   *)
(* pull ends at is one the next would be refused for.                      *)
(***************************************************************************)
THEOREM PullsDeliver ==
  ServerSpec => [](\A since \in 0..seq : ~Gone(since) =>
                     /\ ~Gone(changesSince(since).cursor)
                     /\ \A i \in Ids : Visible(rows, i) =>
                          /\ rows[i].seq <= changesSince(since).cursor
                          /\ rows[i].seq > since => i \in DOMAIN changesSince(since).changes)
<1>1. ServerInit => Drawn
  BY DEF ServerInit, Drawn, NoRow
<1>2. IInv /\ IInv' /\ Drawn /\ [ServerNext]_serverVars => Drawn'
  BY DrawnStep
<1>3. IInv /\ Drawn => \A since \in 0..seq : ~Gone(since) =>
                     /\ ~Gone(changesSince(since).cursor)
                     /\ \A i \in Ids : Visible(rows, i) =>
                          /\ rows[i].seq <= changesSince(since).cursor
                          /\ rows[i].seq > since => i \in DOMAIN changesSince(since).changes
  BY PullCovers
<1>4. QED
  BY InvCorrect, <1>1, <1>2, <1>3, PTL DEF ServerSpec

=============================================================================
