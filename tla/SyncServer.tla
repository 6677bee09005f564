----------------------------- MODULE SyncServer -----------------------------
(***************************************************************************)
(* The server side of POST /sync for one user: sync.service.ts and         *)
(* prune.service.ts.  Every write transaction of a user, an operation or a *)
(* pruning run, holds that user's advisory lock from its first statement   *)
(* to its commit, so each is one step here; module WriteLock models what   *)
(* happens inside a transaction and shows what the lock is for.            *)
(***************************************************************************)
EXTENDS SyncOps, FiniteSetsExt

CONSTANTS
  Retention, \* RETENTION_DAYS, in units of the clock
  MaxSeq,    \* bound: the sequence stops here
  MaxGaps,   \* bound: numbers drawn by transactions that rolled back
  MaxNow     \* bound: the clock stops here

ASSUME BoundsAssumption ==
  Retention \in Nat /\ MaxSeq \in Nat /\ MaxGaps \in Nat /\ MaxNow \in Nat

VARIABLES
  rows,      \* the seven synchronised tables: id -> row
  applied,   \* AppliedOp: the verdict recorded for an operation, or "none"
  seq,       \* change_seq: the last value drawn
  watermark, \* User.prunedThroughSeq
  now        \* the server's clock

serverVars == <<rows, applied, seq, watermark, now>>

Verdicts == {"applied", "superseded", "conflict", "rejected"}

ServerTypeOK ==
  /\ rows \in [Ids -> Row]
  /\ applied \in [Ops -> Verdicts \cup {"none"}]
  /\ seq \in Nat
  /\ watermark \in Nat
  /\ now \in Nat \ {0}

ServerInit ==
  /\ rows = [i \in Ids |-> NoRow]
  /\ applied = [op \in Ops |-> "none"]
  /\ seq = 0
  /\ watermark = 0
  /\ now = 1

----------------------------------------------------------------------------
(* One operation: SyncService.applyOne.                                    *)

\* What the client is told.  A write the database refuses (the primary key
\* belongs to another account's row) is rolled back and recorded nowhere.
verdict(op, at) ==
  IF applied[op] = "applied" THEN "duplicate"
  ELSE IF applied[op] # "none" THEN applied[op]
  ELSE IF outcome(rows, op, at) = "applied" /\ op.id \in Foreign
  THEN "rejected"
  ELSE outcome(rows, op, at)

\* Mutated: the answer to a redelivery replaces the record.
ReplayRecorded(op) ==
  /\ applied[op] # "none"
  /\ applied' = [applied EXCEPT ![op] = verdict(op, now)]
  /\ UNCHANGED <<rows, seq, watermark, now>>

Replay(op) ==
  /\ applied[op] # "none"
  /\ UNCHANGED serverVars

RecordRefusal(op, at) ==
  /\ applied[op] = "none"
  /\ outcome(rows, op, at) # "applied"
  /\ applied' = [applied EXCEPT ![op] = outcome(rows, op, at)]
  /\ UNCHANGED <<rows, seq, watermark, now>>

\* Mutated: written whether or not it was seen before.
WriteUnseen(op, at) ==
  /\ outcome(rows, op, at) = "applied"
  /\ seq < MaxSeq
  /\ seq' = seq + 1
  /\ applied' = [applied EXCEPT ![op] = "applied"]
  /\ rows' = [rows EXCEPT ![op.id] =
                [appliedRow(op, rows[op.id], at) EXCEPT !.seq = seq + 1]]
  /\ UNCHANGED <<watermark, now>>

Write(op, at) ==
  /\ applied[op] = "none"
  /\ outcome(rows, op, at) = "applied"
  /\ op.id \notin Foreign
  /\ seq < MaxSeq
  /\ seq' = seq + 1
  /\ applied' = [applied EXCEPT ![op] = "applied"]
  /\ rows' = [rows EXCEPT ![op.id] =
                [appliedRow(op, rows[op.id], at) EXCEPT !.seq = seq + 1]]
  /\ UNCHANGED <<watermark, now>>

\* nextval is not transactional: the number is gone, the record is not kept.
RollBack(op, at) ==
  /\ applied[op] = "none"
  /\ outcome(rows, op, at) = "applied"
  /\ seq < MaxSeq
  /\ seq < Cardinality({o \in Ops : applied[o] = "applied"}) + MaxGaps
  /\ seq' = seq + 1
  /\ UNCHANGED <<rows, applied, watermark, now>>

applyOne(op, at) ==
  \/ Replay(op)
  \/ RecordRefusal(op, at)
  \/ Write(op, at)
  \/ op.id \in Foreign /\ RollBack(op, at)

\* A retryable failure (isRetryable): the request ends with no verdict.
Fail(op, at) == op.id \notin Foreign /\ RollBack(op, at)

----------------------------------------------------------------------------
(* The pull: SyncService.changesSince, one REPEATABLE READ snapshot.       *)

\* Mutated: off by one.
GoneLate(since) == since # 0 /\ since + 1 < watermark

Gone(since) == since # 0 /\ since < watermark

\* Mutated: a snapshot's cursor is that of the rows it delivers.
changesSinceDelivered(since) ==
  LET delivered == {i \in Ids : IF since = 0 THEN Visible(rows, i)
                                             ELSE rows[i].seq > since}
  IN  [cursor |-> Max({since} \cup {rows[i].seq : i \in delivered}),
       changes |-> [i \in delivered |-> rows[i]]]

\* Mutated: what was deleted is not delivered.
changesSinceLive(since) ==
  LET delivered == {i \in Ids : IF since = 0 THEN Visible(rows, i)
                                ELSE rows[i].seq > since /\ Live(rows[i])}
      covered == IF since = 0
                 THEN {watermark} \cup {rows[i].seq : i \in Ids}
                 ELSE {since} \cup {rows[i].seq : i \in delivered}
  IN  [cursor |-> Max(covered), changes |-> [i \in delivered |-> rows[i]]]

changesSince(since) ==
  LET delivered == {i \in Ids : IF since = 0 THEN Visible(rows, i)
                                             ELSE rows[i].seq > since}
      covered == IF since = 0
                 THEN {watermark} \cup {rows[i].seq : i \in Ids}
                 ELSE {since} \cup {rows[i].seq : i \in delivered}
  IN  [cursor |-> Max(covered), changes |-> [i \in delivered |-> rows[i]]]

----------------------------------------------------------------------------
(* Pruning: PruneService.pruneUser.                                        *)

\* A run keeps the time it began at (`at'), whenever it reaches this user.
Expired(i, at) == Tombstoned(rows[i]) /\ rows[i].deletedAt + Retention < at

\* The rows that reference i through a column the database enforces and that
\* are still there once `gone' has been deleted.
Referencing(field, i, gone) ==
  {j \in Ids \ gone : Exists(rows[j]) /\ rows[j].val[field] = i}

expiredSubtasks(at) ==
  {i \in Ids : /\ TableOf[i] = "task" /\ Expired(i, at)
               /\ rows[i].val["parentId"] # Null}

\* Tasks without children once those in `gone' are deleted.
expiredParents(gone, at) ==
  {i \in Ids : /\ TableOf[i] = "task" /\ Expired(i, at)
               /\ Referencing("parentId", i, gone) = {}}

expiredTasks(at) ==
  expiredSubtasks(at) \cup expiredParents(expiredSubtasks(at), at)

\* Mutated: what tasks still point at goes too.
expiredOthersReferenced(gone, at) ==
  {i \in Ids : Expired(i, at) /\ TableOf[i] \notin {"task", "task_occurrence"}}

\* What the later steps delete once the tasks in `gone' are deleted: tags,
\* projects and statuses no task points at, views.
expiredOthers(gone, at) ==
  {i \in Ids : /\ Expired(i, at)
               /\ \/ TableOf[i] \in {"tag", "view", "task_tag"}
                  \/ /\ TableOf[i] = "project"
                     /\ Referencing("projectId", i, gone) = {}
                  \/ /\ TableOf[i] = "status"
                     /\ Referencing("statusId", i, gone) = {}}

prunable(at) == expiredTasks(at) \cup expiredOthers(expiredTasks(at), at)

\* ON DELETE CASCADE of TaskTag and TaskOccurrence.
cascaded(gone) ==
  {i \in Ids : /\ IsDerived(i) /\ Exists(rows[i])
               /\ {rows[i].val["taskId"], rows[i].val["tagId"]} \cap gone # {}}

\* ON DELETE SET NULL of Task.parentId, projectId and statusId.
setNull(row, gone) ==
  [row EXCEPT !.val = [f \in Fields |->
     IF f \in {"parentId", "projectId", "statusId"} /\ row.val[f] \in gone
     THEN Null ELSE row.val[f]]]

Highest(s, nums) == s \in nums /\ \A n \in nums : n <= s

pruned(gone) ==
  [i \in Ids |-> IF i \in gone \cup cascaded(gone) THEN NoRow
                 ELSE setNull(rows[i], gone)]

pruneUser(at) ==
  /\ prunable(at) # {}
  /\ rows' = pruned(prunable(at))
  /\ Highest(watermark', {watermark} \cup {rows[i].seq : i \in prunable(at)})
  /\ UNCHANGED <<applied, seq, now>>

Tick ==
  /\ now < MaxNow
  /\ now' = now + 1
  /\ UNCHANGED <<rows, applied, seq, watermark>>

\* A request keeps the time it began at (`at') for every one of its operations.
ServerStep(ops) ==
  \/ \E op \in ops, at \in 1..now : applyOne(op, at) \/ Fail(op, at)
  \/ \E at \in 1..now : pruneUser(at)
  \/ Tick

ServerNext == ServerStep(Ops)

ServerSpec == ServerInit /\ [][ServerNext]_serverVars
----------------------------------------------------------------------------
(* Properties.                                                             *)

\* The hierarchy never grows a third level, a cycle or an orphan: the parent
\* of a live task is a live task with no parent of its own.  It relates rows
\* that separate operations wrote, and pruning must not break it either
\* (referenceRejection, deleteRejection, pruneUser).
HierarchyOK ==
  \A t \in Ids :
    (Live(rows[t]) /\ rows[t].val["parentId"] # Null) =>
       LET parent == rows[t].val["parentId"]
       IN  /\ parent \in Ids
           /\ Live(rows[parent])
           /\ rows[parent].val["parentId"] = Null

\* However often an operation is delivered its effect happens once: a row's
\* version is the number of operations recorded as applied to it.  A client
\* relies on it when it resends after a lost answer (applyOne, replay).
VersionCountsApplied ==
  \A i \in Ids : Exists(rows[i]) =>
    rows[i].version =
      Cardinality({op \in Ops : op.id = i /\ applied[op] = "applied"})

\* Whatever order operations arrive in, each column of a live row holds what
\* the latest of the settled edits wrote: no edit the server accepted or
\* called superseded is later than the value shown (applyOp, mergeFields).
LatestEditWins ==
  \A op \in Ops : \A f \in DOMAIN op.fields :
    (/\ applied[op] \in {"applied", "superseded"}
     /\ Live(rows[op.id])
     /\ f \notin derivedIdKeys(op.id)) =>
        /\ rows[op.id].fieldTs[f] >= clamp(op.ts, 1)
        /\ \E w \in Ops : /\ applied[w] = "applied"
                          /\ w.id = op.id
                          /\ f \in DOMAIN w.fields
                          /\ w.fields[f] = rows[op.id].val[f]
                          /\ clamp(w.ts, 1) <= rows[op.id].fieldTs[f]
                          /\ rows[op.id].fieldTs[f] <= w.ts

\* Nothing a client can see changes without a number it will be asked for:
\* a visible row changes, or disappears, only together with a new seq of its
\* own or of the task or tag that hides it.  Pruning writes rows without
\* numbering them (SET NULL, CASCADE), so it must only touch invisible ones.
visibleChangeNumbered ==
  \A i \in Ids : Visible(rows, i) =>
    \/ rows'[i] = rows[i] /\ Visible(rows', i)
    \/ rows'[i].seq > seq
    \/ IsDerived(i) /\ \E f \in {"taskId", "tagId"} :
         rows[i].val[f] # Null /\ rows'[rows[i].val[f]].seq > seq

VisibleChangesNumbered == [][visibleChangeNumbered]_serverVars

\* Every create takes a fresh id (newId), but for the rows whose id derives
\* from their key.
CreatedOnce(ops) ==
  \A a, b \in ops :
    a.kind = "create" /\ b.kind = "create" /\ a.id = b.id /\ ~IsDerived(a.id) => a = b

\* What was deleted stays deleted, before its tombstone is pruned and after:
\* a row that was created and is not live never becomes live.
NoResurrection ==
  [][\A i \in Ids :
       (/\ ~Live(rows[i])
        /\ \E op \in Ops : op.id = i /\ op.kind = "create"
                                     /\ applied[op] = "applied")
          => ~Live(rows'[i])]_serverVars

\* The answer to a pull says why row i is not shown any more: it has its
\* tombstone, or that of the task or the tag a derived-id row belongs to.
Told(i, since) ==
  LET changes == changesSince(since).changes
  IN  \E j \in DOMAIN changes :
        /\ ~Live(changes[j])
        /\ j = i \/ \E f \in {"taskId", "tagId"} \cap derivedIdKeys(i) : KeyOf[i][f] = j
=============================================================================
