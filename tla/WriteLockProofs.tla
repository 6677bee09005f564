--------------------------- MODULE WriteLockProofs ---------------------------
(***************************************************************************)
(* What the lock is for, for any number of connections, rows and           *)
(* operations: the statements of concurrent transactions add up to whole   *)
(* steps of SyncServer, and no number commits behind a cursor.             *)
(***************************************************************************)
EXTENDS WriteLock, FiniteSetTheorems, TLAPS

\* What is proved of SyncServer, for the committed state.
S == INSTANCE SyncServerProofs WITH seq <- drawn - Cardinality(Pending)

----------------------------------------------------------------------------
(* The specification the lock implements is the one those proofs are about, *)
(* and a transaction judges by its rules: definition by definition they are *)
(* the same.                                                                *)

LEMMA SameServer ==
  /\ Server!ServerInit = S!ServerInit
  /\ Server!ServerNext = S!ServerNext
  /\ Server!serverVars = S!serverVars
  /\ \A since : Server!Gone(since) = S!Gone(since)
                /\ Server!changesSince(since) = S!changesSince(since)
  /\ \A gone : Server!pruned(gone) = S!pruned(gone)
  /\ \A at : /\ Server!expiredSubtasks(at) = S!expiredSubtasks(at)
             /\ \A gone : Server!expiredParents(gone, at) = S!expiredParents(gone, at)
             /\ \A gone : Server!expiredOthers(gone, at) = S!expiredOthers(gone, at)
BY DEF S!TABLES, Server!TABLES, S!RuleFields, Server!RuleFields, S!Fields,
       Server!Fields, S!Values, Server!Values, S!Row, Server!Row, S!NoRow,
       Server!NoRow, S!Exists, Server!Exists, S!Tombstoned, Server!Tombstoned, S!Live,
       Server!Live, S!WRITABLE_FIELDS, Server!WRITABLE_FIELDS, S!REFERENCES,
       Server!REFERENCES, S!ReferenceFields, Server!ReferenceFields, S!IsDerived,
       Server!IsDerived, S!derivedIdKeys, Server!derivedIdKeys, S!unpermittedField,
       Server!unpermittedField, S!derivedIdRejection, Server!derivedIdRejection,
       S!LiveSubtasks, Server!LiveSubtasks, S!parentRejection, Server!parentRejection,
       S!referenceRejection, Server!referenceRejection, S!deleteRejection,
       Server!deleteRejection, S!clamp, Server!clamp, S!applyRejection,
       Server!applyRejection, S!versionConflict, Server!versionConflict,
       S!winningFields, Server!winningFields, S!mergeFields, Server!mergeFields,
       S!tombstone, Server!tombstone, S!appliedRow, Server!appliedRow, S!rowRejection,
       Server!rowRejection, S!forbidden, Server!forbidden, S!misplaced,
       Server!misplaced, S!applyOp, Server!applyOp, S!outcome, Server!outcome,
       S!Verdicts, Server!Verdicts, S!Replay, Server!Replay, S!RecordRefusal,
       Server!RecordRefusal, S!Write, Server!Write, S!RollBack, Server!RollBack,
       S!applyOne, Server!applyOne, S!Fail, Server!Fail, S!Expired, Server!Expired,
       S!Referencing, Server!Referencing, S!expiredSubtasks, Server!expiredSubtasks,
       S!expiredParents, Server!expiredParents,
       S!expiredTasks, Server!expiredTasks, S!expiredOthers, Server!expiredOthers,
       S!prunable, Server!prunable, S!cascaded, Server!cascaded, S!setNull,
       Server!setNull, S!Highest, Server!Highest, S!pruned, Server!pruned,
       S!pruneUser, Server!pruneUser, S!Tick, Server!Tick, S!ServerStep,
       Server!ServerStep, S!ServerNext, Server!ServerNext, S!serverVars,
       Server!serverVars, S!ServerTypeOK, Server!ServerTypeOK, S!Visible,
       Server!Visible, S!changesSince, Server!changesSince, S!Gone, Server!Gone,
       S!Max, Server!Max, S!Cardinality, Server!Cardinality, S!ServerInit,
       Server!ServerInit

LEMMA SameRules ==
  /\ S!Row = Row /\ S!NoRow = NoRow
  /\ S!TABLES = TABLES /\ S!RuleFields = RuleFields /\ \A op : S!IsOp(op) = IsOp(op)
  /\ \A r : S!Exists(r) = Exists(r)
  /\ \A op : S!forbidden(op) = forbidden(op)
  /\ \A rs, op : S!misplaced(rs, op) = misplaced(rs, op)
  /\ \A op, current, at :
       /\ S!applyOp(op, current, at) = applyOp(op, current, at)
       /\ S!appliedRow(op, current, at) = appliedRow(op, current, at)
  /\ \A rs, op, at : S!outcome(rs, op, at) = outcome(rs, op, at)
BY DEF S!IsOp, IsOp, S!TABLES, TABLES, S!RuleFields, RuleFields, S!Fields, Fields, S!Values, Values,
       S!Row, Row, S!NoRow, NoRow, S!Exists, Exists, S!Tombstoned, Tombstoned, S!Live,
       Live, S!WRITABLE_FIELDS, WRITABLE_FIELDS, S!REFERENCES, REFERENCES,
       S!ReferenceFields, ReferenceFields, S!IsDerived, IsDerived, S!derivedIdKeys,
       derivedIdKeys, S!unpermittedField, unpermittedField, S!derivedIdRejection,
       derivedIdRejection, S!LiveSubtasks, LiveSubtasks, S!parentRejection,
       parentRejection, S!referenceRejection, referenceRejection, S!deleteRejection,
       deleteRejection, S!clamp, clamp, S!applyRejection, applyRejection,
       S!versionConflict, versionConflict, S!winningFields, winningFields,
       S!mergeFields, mergeFields, S!tombstone, tombstone, S!appliedRow, appliedRow,
       S!rowRejection, rowRejection, S!forbidden, forbidden, S!misplaced, misplaced,
       S!applyOp, applyOp, S!outcome, outcome

----------------------------------------------------------------------------
(* What a transaction has found out still holds when it commits.           *)

Transaction ==
  {NoTx}
  \cup [pc : {"lock", "seen"}, op : Ops, at : Nat]
  \cup [pc : {"rows", "read"}, op : Ops, at : Nat, todo : Seq(Ids)]
  \cup [pc : {"draw"}, op : Ops, row : Row]
  \cup [pc : {"commit"}, op : Ops, verdict : S!Verdicts \ {"applied"}]
  \cup [pc : {"commit"}, op : Ops, verdict : {"applied"}, row : Row]

Working == {"seen", "rows", "read", "draw", "commit"}

\* Only the holder of the user's lock is past its first statement.
Exclusive ==
  /\ \A t \in Txns : tx[t].pc \in Working => userLock = t
  /\ prune # NoTx => userLock = Pruner

\* A request is judged as of when it began, by rows nobody else has touched.
Sound(t) ==
  LET x == tx[t]
  IN  /\ x.pc \in {"lock", "seen", "rows", "read"} => x.at \in 1..now
      /\ x.pc \in Working \ {"seen"} => applied[x.op] = "none"
      /\ x.pc \in {"rows", "read"} => ~forbidden(x.op)
      /\ x.pc = "read" => ~misplaced(rows, x.op)
      /\ x.pc = "draw" =>
           \E at \in 1..now : /\ outcome(rows, x.op, at) = "applied"
                              /\ x.row = appliedRow(x.op, rows[x.op.id], at)
      /\ x.pc = "commit" =>
           \E at \in 1..now :
             /\ outcome(rows, x.op, at) = x.verdict
             /\ x.verdict = "applied" =>
                  x.row = [appliedRow(x.op, rows[x.op.id], at) EXCEPT !.seq = drawn]

\* What the pruning run has deleted is what one run would.
PruneSound ==
  \/ prune = NoTx
  \/ \E at \in 1..now :
       \/ prune = [pc |-> "subtasks", at |-> at]
       \/ prune = [pc |-> "tasks", at |-> at, gone |-> S!expiredSubtasks(at)]
       \/ prune = [pc |-> "others", at |-> at, gone |-> S!expiredTasks(at)]
       \/ prune = [pc |-> "commit", gone |-> S!prunable(at)]

Underway ==
  /\ tx \in [Txns -> Transaction]
  /\ Exclusive
  /\ \A t \in Txns : Sound(t)
  /\ PruneSound
  /\ drawn \in Nat /\ drawn <= MaxSeq
  /\ IsFiniteSet({op \in Ops : applied[op] = "applied"})

committedSeq == drawn - Cardinality(Pending)

\* Together with what SyncServer keeps of the committed rows, and a cursor no
\* pull has taken further than the last committed number.
Inv ==
  /\ Underway
  /\ S!IInv /\ S!Drawn
  /\ pulled \in Nat /\ pulled <= committedSeq

----------------------------------------------------------------------------
(* Transactions, by how far they are.                                      *)

LEMMA Phases ==
  ASSUME NEW x \in Transaction
  PROVE  /\ x.pc \in {"idle", "lock"} \cup Working
         /\ x.pc = "idle" => x = NoTx
         /\ x.pc # "idle" => x.op \in Ops
         /\ x.pc \in {"lock", "seen"} => x \in [pc : {"lock", "seen"}, op : Ops, at : Nat]
         /\ x.pc \in {"rows", "read"} =>
              x \in [pc : {"rows", "read"}, op : Ops, at : Nat, todo : Seq(Ids)]
         /\ x.pc = "draw" => x \in [pc : {"draw"}, op : Ops, row : Row]
         /\ x.pc = "commit" /\ x.verdict # "applied" =>
              x \in [pc : {"commit"}, op : Ops, verdict : S!Verdicts \ {"applied"}]
         /\ x.pc = "commit" /\ x.verdict = "applied" =>
              x \in [pc : {"commit"}, op : Ops, verdict : {"applied"}, row : Row]
BY DEF Transaction, NoTx, Working

\* At most one number is drawn and not committed, by the holder of the lock.
LEMMA PendingAlone ==
  ASSUME Exclusive
  PROVE  /\ \A t \in Txns : tx[t].pc = "commit" /\ tx[t].verdict = "applied" =>
              Pending = {t} /\ Cardinality(Pending) = 1
         /\ (\A t \in Txns : userLock = t => ~(tx[t].pc = "commit" /\ tx[t].verdict = "applied"))
              => Pending = {} /\ Cardinality(Pending) = 0
         /\ IsFiniteSet(Pending) /\ Cardinality(Pending) \in {0, 1}
<1>1. ASSUME NEW t \in Txns, tx[t].pc = "commit", tx[t].verdict = "applied"
      PROVE  Pending = {t}
  BY <1>1 DEF Exclusive, Pending, Working
<1>2. ASSUME \A t \in Txns : userLock = t => ~(tx[t].pc = "commit" /\ tx[t].verdict = "applied")
      PROVE  Pending = {}
  BY <1>2 DEF Exclusive, Pending, Working
<1>3. Pending = {} \/ \E t \in Txns : Pending = {t}
  BY <1>1 DEF Pending
<1>4. /\ Pending = {} => IsFiniteSet(Pending) /\ Cardinality(Pending) = 0
      /\ \A t : Pending = {t} => IsFiniteSet(Pending) /\ Cardinality(Pending) = 1
  BY FS_EmptySet, FS_Singleton
<1>5. QED
  BY <1>1, <1>2, <1>3, <1>4

LEMMA InitUnderway ==
  ASSUME Init
  PROVE  Underway /\ Pending = {} /\ Cardinality(Pending) = 0
<1>1. \A t \in Txns : tx[t] = NoTx /\ tx[t].pc = "idle"
  BY DEF Init, NoTx
<1>2. Pending = {} /\ Cardinality(Pending) = 0
  BY <1>1, FS_EmptySet DEF Pending
<1>3. tx \in [Txns -> Transaction] /\ prune = NoTx /\ drawn = 0
  BY DEF Init, Transaction
<1>4. Exclusive /\ \A t \in Txns : Sound(t)
  BY <1>1, <1>3 DEF Exclusive, Sound, Working
<1>5. IsFiniteSet({op \in Ops : applied[op] = "applied"})
  <2>1. {op \in Ops : applied[op] = "applied"} = {}
    BY DEF Init
  <2>2. QED
    BY <2>1, FS_EmptySet
<1>6. QED
  BY <1>2, <1>3, <1>4, <1>5, NumbersAssumption DEF Underway, PruneSound

LEMMA SameCount == \A P : S!Cardinality(P) = Cardinality(P)
BY DEF S!Cardinality, Cardinality

LEMMA RowApplied ==
  ASSUME NEW op \in Ops, NEW current \in S!Row, NEW at \in Nat
  PROVE  appliedRow(op, current, at) \in Row
<1>1. S!appliedRow(op, current, at) \in S!Row
  BY S!AppliedRowIsRow, SameRules, ConstantsAssumption, NumbersAssumption
<1>2. QED
  BY <1>1, SameRules

LEMMA SamePrunable ==
  ASSUME UNCHANGED rows, NEW at
  PROVE  /\ S!expiredSubtasks(at)' = S!expiredSubtasks(at)
         /\ S!expiredTasks(at)' = S!expiredTasks(at)
         /\ S!prunable(at)' = S!prunable(at)
BY DEF S!prunable, S!expiredTasks, S!expiredSubtasks, S!expiredParents, S!expiredOthers,
       S!Expired,
       S!Referencing

\* One transaction goes on, the others stay where they are.
LEMMA OneMoves ==
  ASSUME Underway, NEW t \in Txns,
         tx' \in [Txns -> Transaction],
         \A s \in Txns \ {t} : tx'[s] = tx[s],
         UNCHANGED <<rows, applied, now, prune>>,
         drawn' \in Nat, drawn' <= MaxSeq, drawn' = drawn \/ userLock = t,
         \/ userLock' = userLock
         \/ userLock \in {Free, t} /\ userLock' \in {Free, t},
         tx'[t].pc \in Working => userLock' = t,
         Sound(t)'
  PROVE  Underway'
<1> USE DEF Underway
<1>1. Exclusive'
  <2>1. ASSUME NEW s \in Txns, tx'[s].pc \in Working
        PROVE  userLock' = s
    BY <2>1, TxnsAssumption DEF Exclusive
  <2>2. prune' # NoTx => userLock' = Pruner
    BY TxnsAssumption DEF Exclusive, Free, Pruner
  <2>3. QED
    BY <2>1, <2>2 DEF Exclusive
<1>2. ASSUME NEW s \in Txns, s # t
      PROVE  Sound(s)'
  <2>1. tx'[s] = tx[s] /\ Sound(s)
    BY <1>2
  <2>2. tx[s].pc = "commit" => drawn' = drawn
    BY <1>2 DEF Exclusive, Working
  <2>3. QED
    BY <2>1, <2>2 DEF Sound
<1>3. PruneSound'
  BY SamePrunable DEF PruneSound
<1>4. QED
  BY <1>1, <1>2, <1>3

\* What becomes of the numbers under way when one transaction moves.
LEMMA PendingNext ==
  ASSUME tx \in [Txns -> Transaction], NEW t \in Txns, NEW y,
         tx' = [tx EXCEPT ![t] = y]
  PROVE  /\ ~(y.pc = "commit" /\ y.verdict = "applied") => Pending' = Pending \ {t}
         /\ y.pc = "commit" /\ y.verdict = "applied" => Pending' = Pending \cup {t}
BY DEF Pending

----------------------------------------------------------------------------
(* The steps that change nothing committed.                                *)

LEMMA BeginStep ==
  ASSUME Inv, NEW t \in Txns, NEW op \in Ops, Begin(t, op)
  PROVE  Underway' /\ UNCHANGED S!serverVars
<1> USE DEF Inv, Underway
<1> DEFINE y == [pc |-> "lock", op |-> op, at |-> now]
<1>1. tx' = [tx EXCEPT ![t] = y] /\ tx[t].pc = "idle"
  BY DEF Begin
<1>2. now \in Nat \ {0}
  BY DEF S!IInv, S!ServerTypeOK
<1>3. y \in Transaction
  BY <1>2 DEF Transaction
<1>4. Sound(t)'
  BY <1>1, <1>2 DEF Sound, Working, Begin, committed
<1>5. Underway'
  BY <1>1, <1>3, <1>4, OneMoves DEF Begin, committed, Working
<1>6. Pending' = Pending
  BY <1>1, PendingNext DEF Pending
<1>7. QED
  BY <1>5, <1>6 DEF Begin, committed, S!serverVars

LEMMA LockStep ==
  ASSUME Inv, NEW t \in Txns, Lock(t)
  PROVE  Underway' /\ UNCHANGED S!serverVars
<1> USE DEF Inv, Underway
<1> DEFINE y == [tx[t] EXCEPT !.pc = "seen"]
<1>1. tx' = [tx EXCEPT ![t] = y] /\ tx[t].pc = "lock"
  BY DEF Lock
<1>2. tx[t] \in [pc : {"lock", "seen"}, op : Ops, at : Nat]
  BY <1>1, Phases
<1>3. /\ y \in [pc : {"lock", "seen"}, op : Ops, at : Nat]
      /\ y.pc = "seen" /\ y.at = tx[t].at
  BY <1>2
<1> HIDE DEF y
<1>4. y \in Transaction
  BY <1>3 DEF Transaction
<1>5. tx'[t] = y
  BY <1>1
<1>6. Sound(t)'
  BY <1>1, <1>3, <1>5 DEF Sound, Working, Lock, committed
<1>7. Underway'
  BY <1>1, <1>3, <1>4, <1>5, <1>6, OneMoves DEF Lock, committed, lockUserWrites
<1>8. Pending' = Pending
  BY <1>1, <1>3, PendingNext DEF Pending
<1>9. QED
  BY <1>7, <1>8 DEF Lock, committed, S!serverVars

\* A verdict reached, for a row and references nobody changes any more.
LEMMA DecideStep ==
  ASSUME Underway, NEW t \in Txns, userLock = t, tx[t].pc \in {"seen", "rows", "read"},
         NEW verdict \in S!Verdicts \ {"applied"},
         tx' = Decide(t, verdict), UNCHANGED <<committed, drawn, prune, userLock>>,
         applied[tx[t].op] = "none",
         \E at \in 1..now : outcome(rows, tx[t].op, at) = verdict
  PROVE  Underway' /\ UNCHANGED S!serverVars
<1> USE DEF Underway
<1> DEFINE y == [pc |-> "commit", op |-> tx[t].op, verdict |-> verdict]
<1>1. tx' = [tx EXCEPT ![t] = y]
  BY DEF Decide
<1>2. tx[t].op \in Ops
  BY Phases
<1>3. y \in Transaction
  BY <1>2 DEF Transaction
<1>4. tx'[t] = y
  BY <1>1
<1>5. Sound(t)'
  BY <1>4 DEF Sound, Working, committed
<1>6. Underway'
  BY <1>1, <1>3, <1>4, <1>5, OneMoves DEF committed
<1>7. Pending' = Pending
  BY <1>1, PendingNext DEF Pending
<1>8. QED
  BY <1>6, <1>7 DEF committed, S!serverVars

LEMMA SeenStep ==
  ASSUME Inv, NEW t \in Txns, Seen(t)
  PROVE  Underway' /\ UNCHANGED S!serverVars
<1> USE DEF Inv, Underway
<1> DEFINE op == tx[t].op
<1>1. tx[t].pc = "seen" /\ userLock = t /\ UNCHANGED <<committed, drawn, prune>>
  BY DEF Seen, Exclusive, Working
<1>2. /\ tx[t] \in [pc : {"lock", "seen"}, op : Ops, at : Nat]
      /\ tx[t].at \in 1..now /\ op \in Ops
  BY <1>1, Phases DEF Sound
<1>3. CASE applied[op] # "none"
  <2>1. tx' = [tx EXCEPT ![t] = NoTx] /\ userLock' = Free
    BY <1>1, <1>3 DEF Seen, release
  <2>2. NoTx \in Transaction /\ NoTx.pc = "idle"
    BY DEF Transaction, NoTx
  <2>3. tx'[t] = NoTx
    BY <2>1
  <2>4. Sound(t)'
    BY <2>2, <2>3 DEF Sound, Working
  <2>5. Underway'
    BY <1>1, <2>1, <2>2, <2>3, <2>4, OneMoves DEF committed, Working
  <2>6. Pending' = Pending
    BY <1>1, <2>1, <2>2, PendingNext DEF Pending
  <2>7. QED
    BY <1>1, <2>5, <2>6 DEF committed, S!serverVars
<1>4. CASE applied[op] = "none" /\ forbidden(op)
  <2>1. tx' = Decide(t, "rejected") /\ userLock' = userLock
    BY <1>4 DEF Seen
  <2>2. outcome(rows, op, tx[t].at) = "rejected"
    BY <1>4 DEF outcome
  <2>3. QED
    BY <1>1, <1>2, <1>4, <2>1, <2>2, DecideStep DEF S!Verdicts
<1>5. CASE applied[op] = "none" /\ ~forbidden(op)
  <2> DEFINE y == [pc |-> "rows", op |-> op, at |-> tx[t].at, todo |-> lockRows(op)]
  <2>1. tx' = [tx EXCEPT ![t] = y] /\ userLock' = userLock
    BY <1>5 DEF Seen
  <2>2. lockRows(op) \in Seq(Ids)
    <3>1. op.id \in Ids
      BY <1>2, ConstantsAssumption DEF IsOp
    <3>2. QED
      BY <3>1 DEF lockRows
  <2>3. y \in Transaction
    BY <1>2, <2>2 DEF Transaction
  <2>4. tx'[t] = y
    BY <2>1
  <2>5. Sound(t)'
    BY <1>1, <1>2, <1>5, <2>4 DEF Sound, Working, committed
  <2>6. Underway'
    BY <1>1, <2>1, <2>3, <2>4, <2>5, OneMoves DEF committed
  <2>7. Pending' = Pending
    BY <1>1, <2>1, PendingNext DEF Pending
  <2>8. QED
    BY <1>1, <2>6, <2>7 DEF committed, S!serverVars
<1>6. QED
  BY <1>3, <1>4, <1>5

LEMMA LockRowStep ==
  ASSUME Inv, NEW t \in Txns, LockRow(t)
  PROVE  Underway' /\ UNCHANGED S!serverVars
<1> USE DEF Inv, Underway
<1> DEFINE y == [tx[t] EXCEPT !.todo = Tail(@)]
<1>1. /\ tx' = [tx EXCEPT ![t] = y] /\ tx[t].pc = "rows" /\ tx[t].todo # << >>
      /\ UNCHANGED <<committed, drawn, prune, userLock>> /\ userLock = t
  BY DEF LockRow, Exclusive, Working
<1>2. tx[t] \in [pc : {"rows", "read"}, op : Ops, at : Nat, todo : Seq(Ids)]
  BY <1>1, Phases
<1>3. /\ y \in [pc : {"rows", "read"}, op : Ops, at : Nat, todo : Seq(Ids)]
      /\ y.pc = "rows" /\ y.op = tx[t].op /\ y.at = tx[t].at
  <2>1. Tail(tx[t].todo) \in Seq(Ids)
    BY <1>1, <1>2
  <2>2. QED
    BY <1>1, <1>2, <2>1
<1> HIDE DEF y
<1>4. y \in Transaction
  BY <1>3 DEF Transaction
<1>5. tx'[t] = y
  BY <1>1
<1>6. Sound(t)'
  BY <1>1, <1>3, <1>5 DEF Sound, Working, committed
<1>7. Underway'
  BY <1>1, <1>4, <1>5, <1>6, OneMoves DEF committed
<1>8. Pending' = Pending
  BY <1>1, <1>3, PendingNext DEF Pending
<1>9. QED
  BY <1>1, <1>7, <1>8 DEF committed, S!serverVars

LEMMA CheckReferencesStep ==
  ASSUME Inv, NEW t \in Txns, CheckReferences(t)
  PROVE  Underway' /\ UNCHANGED S!serverVars
<1> USE DEF Inv, Underway
<1> DEFINE y == [tx[t] EXCEPT !.pc = "read"]
<1>1. /\ tx[t].pc = "rows" /\ userLock = t
      /\ UNCHANGED <<committed, drawn, prune, userLock>>
  BY DEF CheckReferences, Exclusive, Working
<1>2. tx[t] \in [pc : {"rows", "read"}, op : Ops, at : Nat, todo : Seq(Ids)]
  BY <1>1, Phases
<1>3. tx[t].at \in 1..now /\ applied[tx[t].op] = "none" /\ ~forbidden(tx[t].op)
  BY <1>1 DEF Sound, Working
<1>4. CASE misplaced(rows, tx[t].op)
  <2>1. tx' = Decide(t, "rejected")
    BY <1>4 DEF CheckReferences
  <2>2. outcome(rows, tx[t].op, tx[t].at) = "rejected"
    BY <1>4 DEF outcome
  <2>3. QED
    BY <1>1, <1>3, <2>1, <2>2, DecideStep DEF S!Verdicts
<1>5. CASE ~misplaced(rows, tx[t].op)
  <2>1. tx' = [tx EXCEPT ![t] = y]
    BY <1>5 DEF CheckReferences
  <2>2. /\ y \in [pc : {"rows", "read"}, op : Ops, at : Nat, todo : Seq(Ids)]
        /\ y.pc = "read" /\ y.op = tx[t].op /\ y.at = tx[t].at
    BY <1>2
  <2> HIDE DEF y
  <2>3. y \in Transaction
    BY <2>2 DEF Transaction
  <2>4. tx'[t] = y
    BY <2>1
  <2>5. Sound(t)'
    BY <1>1, <1>3, <1>5, <2>2, <2>4 DEF Sound, Working, committed
  <2>6. Underway'
    BY <1>1, <2>1, <2>3, <2>4, <2>5, OneMoves DEF committed
  <2>7. Pending' = Pending
    BY <1>1, <2>1, <2>2, PendingNext DEF Pending
  <2>8. QED
    BY <1>1, <2>6, <2>7 DEF committed, S!serverVars
<1>6. QED
  BY <1>4, <1>5

LEMMA ReadStep ==
  ASSUME Inv, NEW t \in Txns, Read(t)
  PROVE  Underway' /\ UNCHANGED S!serverVars
<1> USE DEF Inv, Underway
<1> DEFINE op == tx[t].op
           at == tx[t].at
           verdict == applyOp(op, rows[op.id], at)
<1>1. /\ tx[t].pc = "read" /\ userLock = t
      /\ UNCHANGED <<committed, drawn, prune, userLock>>
  BY DEF Read, Exclusive, Working
<1>2. tx[t] \in [pc : {"rows", "read"}, op : Ops, at : Nat, todo : Seq(Ids)] /\ op \in Ops
  BY <1>1, Phases
<1>3. at \in 1..now /\ applied[op] = "none" /\ outcome(rows, op, at) = verdict
  BY <1>1 DEF Sound, Working, outcome
<1>4. verdict \in S!Verdicts
  BY DEF applyOp, S!Verdicts
<1>5. CASE verdict # "applied"
  <2>1. tx' = Decide(t, verdict)
    BY <1>5 DEF Read
  <2> HIDE DEF verdict
  <2>2. QED
    BY <1>1, <1>3, <1>4, <1>5, <2>1, DecideStep
<1>6. CASE verdict = "applied"
  <2> DEFINE row == appliedRow(op, rows[op.id], at)
             y == [pc |-> "draw", op |-> op, row |-> row]
  <2>1. tx' = [tx EXCEPT ![t] = y]
    BY <1>6 DEF Read
  <2>2. row \in Row
    <3>1. rows[op.id] \in S!Row /\ at \in Nat
      BY <1>2, ConstantsAssumption DEF S!IInv, S!ServerTypeOK, IsOp
    <3>2. QED
      BY <1>2, <3>1, RowApplied
  <2>3. y \in Transaction
    BY <1>2, <2>2 DEF Transaction
  <2>4. tx'[t] = y
    BY <2>1
  <2>5. Sound(t)'
    BY <1>1, <1>3, <1>6, <2>4 DEF Sound, Working, committed
  <2>6. Underway'
    BY <1>1, <2>1, <2>3, <2>4, <2>5, OneMoves DEF committed
  <2>7. Pending' = Pending
    BY <1>1, <2>1, PendingNext DEF Pending
  <2>8. QED
    BY <1>1, <2>6, <2>7 DEF committed, S!serverVars
<1>7. QED
  BY <1>5, <1>6

LEMMA DrawStep ==
  ASSUME Inv, NEW t \in Txns, Draw(t)
  PROVE  Underway' /\ UNCHANGED S!serverVars
<1> USE DEF Inv, Underway
<1> DEFINE row == [tx[t].row EXCEPT !.seq = drawn + 1]
           y == [pc |-> "commit", op |-> tx[t].op, verdict |-> "applied", row |-> row]
<1>1. /\ tx[t].pc = "draw" /\ userLock = t /\ tx' = [tx EXCEPT ![t] = y]
      /\ UNCHANGED <<committed, prune, userLock>> /\ drawn < MaxSeq /\ drawn' = drawn + 1
  BY DEF Draw, Exclusive, Working
<1>2. tx[t] \in [pc : {"draw"}, op : Ops, row : Row]
  BY <1>1, Phases
<1>3. row \in Row
  BY <1>2 DEF Row
<1>4. y \in Transaction
  BY <1>2, <1>3 DEF Transaction
<1>5. tx'[t] = y
  BY <1>1
<1>6. Sound(t)'
  <2>1. PICK at \in 1..now : /\ outcome(rows, tx[t].op, at) = "applied"
                             /\ tx[t].row = appliedRow(tx[t].op, rows[tx[t].op.id], at)
    BY <1>1 DEF Sound
  <2>2. row = [appliedRow(tx[t].op, rows[tx[t].op.id], at) EXCEPT !.seq = drawn']
    BY <1>1, <2>1
  <2>3. applied[tx[t].op] = "none"
    BY <1>1 DEF Sound, Working
  <2> HIDE DEF row
  <2>4. QED
    BY <1>1, <1>5, <2>1, <2>2, <2>3 DEF Sound, Working, committed
<1>7. drawn' \in Nat /\ drawn' <= MaxSeq
  BY <1>1, NumbersAssumption
<1>8. y.pc = "commit" /\ y.verdict = "applied"
  OBVIOUS
<1> HIDE DEF y
<1>9. Underway'
  BY <1>1, <1>4, <1>5, <1>6, <1>7, OneMoves DEF committed
<1>10. drawn' - Cardinality(Pending') = drawn - Cardinality(Pending)
  <2>1. Pending = {} /\ Cardinality(Pending) = 0
    BY <1>1, PendingAlone
  <2>2. Pending' = {t}
    BY <1>1, <1>8, <2>1, PendingNext
  <2>3. Cardinality(Pending') = 1
    BY <2>2, FS_Singleton
  <2>4. QED
    BY <1>1, <2>1, <2>3
<1>11. QED
  BY <1>1, <1>9, <1>10 DEF committed, S!serverVars

----------------------------------------------------------------------------
(* The steps that end a transaction.                                       *)

\* When the holder is done nobody is past its first statement.
LEMMA HolderEnds ==
  ASSUME Underway, UNCHANGED <<now, drawn>>,
         \/ \E t \in Txns : /\ userLock = t /\ tx' = [tx EXCEPT ![t] = NoTx]
                            /\ prune' = prune
         \/ userLock = Pruner /\ tx' = tx /\ prune' = NoTx,
         IsFiniteSet({op \in Ops : applied'[op] = "applied"})
  PROVE  Underway' /\ Pending' = {} /\ Cardinality(Pending') = 0
<1> USE DEF Underway
<1>1. NoTx \in Transaction /\ NoTx.pc = "idle"
  BY DEF Transaction, NoTx
<1>2. tx' \in [Txns -> Transaction]
  BY <1>1
<1>3. ASSUME NEW t \in Txns
      PROVE  tx'[t].pc \notin Working /\ tx'[t] \in {NoTx, tx[t]}
  BY <1>1, TxnsAssumption DEF Exclusive, Working, Pruner
<1>4. prune' = NoTx
  BY TxnsAssumption DEF Exclusive, Pruner
<1>5. Exclusive' /\ PruneSound'
  BY <1>3, <1>4 DEF Exclusive, PruneSound
<1>6. ASSUME NEW t \in Txns
      PROVE  Sound(t)'
  <2>1. tx'[t].pc = "lock" => tx[t].pc = "lock" /\ tx'[t].at = tx[t].at
    BY <1>1, <1>3
  <2>2. tx[t].pc = "lock" => tx[t].at \in 1..now
    BY DEF Sound
  <2>3. QED
    BY <1>3, <2>1, <2>2 DEF Sound, Working
<1>7. Pending' = {}
  BY <1>3 DEF Pending, Working
<1>8. Cardinality(Pending') = 0
  BY <1>7, FS_EmptySet
<1>9. QED
  BY <1>2, <1>5, <1>6, <1>7, <1>8

\* A failure rolls back what nobody has seen, but for the number it drew.
LEMMA AbortStep ==
  ASSUME Inv, NEW t \in Txns, Abort(t)
  PROVE  Underway' /\ (UNCHANGED S!serverVars \/ S!ServerNext)
<1> USE DEF Inv, Underway
<1>1. /\ tx' = [tx EXCEPT ![t] = NoTx] /\ tx[t].pc # "idle"
      /\ UNCHANGED <<committed, drawn, prune>>
      /\ userLock' = IF userLock = t THEN Free ELSE userLock
  BY DEF Abort, release
<1>2. NoTx \in Transaction /\ NoTx.pc = "idle" /\ tx'[t] = NoTx
  BY <1>1 DEF Transaction, NoTx
<1>3. Sound(t)'
  BY <1>2 DEF Sound, Working
<1>4. Underway'
  BY <1>1, <1>2, <1>3, OneMoves DEF committed, Working
<1>5. CASE ~(tx[t].pc = "commit" /\ tx[t].verdict = "applied")
  <2>1. Pending' = Pending
    BY <1>1, <1>2, <1>5, PendingNext DEF Pending
  <2>2. QED
    BY <1>1, <1>4, <2>1 DEF committed, S!serverVars
<1>6. CASE tx[t].pc = "commit" /\ tx[t].verdict = "applied"
  <2> DEFINE op == tx[t].op
             C == Cardinality({o \in Ops : applied[o] = "applied"})
  <2>1. op \in Ops /\ applied[op] = "none"
    BY <1>6, Phases DEF Sound, Working
  <2>2. PICK at \in 1..now : outcome(rows, op, at) = "applied"
    BY <1>6 DEF Sound
  <2>3. userLock = t /\ Pending = {t} /\ Cardinality(Pending) = 1
    BY <1>6, PendingAlone DEF Exclusive, Working
  <2>4. Pending' = {} /\ Cardinality(Pending') = 0
    <3>1. Pending' = {}
      BY <1>1, <1>2, <2>3, PendingNext
    <3>2. QED
      BY <3>1, FS_EmptySet
  <2>5. C \in Nat /\ drawn - C < MaxGaps + 1
    BY <2>3, FS_CardinalityType DEF Abort
  <2>6. S!RollBack(op, at)
    <3>1. S!outcome(rows, op, at) = "applied"
      BY <2>2, SameRules
    <3>2. /\ drawn - Cardinality(Pending) < MaxSeq
          /\ drawn - Cardinality(Pending) < C + MaxGaps
          /\ drawn' - Cardinality(Pending') = (drawn - Cardinality(Pending)) + 1
      BY <1>1, <2>3, <2>4, <2>5, NumbersAssumption
    <3>3. QED
      BY <1>1, <2>1, <3>1, <3>2, SameCount DEF S!RollBack, committed
  <2>7. S!Fail(op, at)
    BY <2>6, OneAccount DEF S!Fail
  <2>8. S!ServerNext
    BY <2>1, <2>7 DEF S!ServerNext, S!ServerStep
  <2>9. QED
    BY <1>4, <2>8
<1>7. QED
  BY <1>5, <1>6

\* A commit is SyncServer's step: what it writes was computed from the rows as
\* they still are, and its number is the next one.
LEMMA CommitStep ==
  ASSUME Inv, NEW t \in Txns, Commit(t)
  PROVE  /\ Underway' /\ S!ServerNext
         /\ \A i \in Ids : rows'[i] = rows[i] \/ rows'[i].seq = committedSeq + 1
<1> USE DEF Inv, Underway
<1> DEFINE op == tx[t].op
           verdict == tx[t].verdict
<1>1. /\ tx[t].pc = "commit" /\ userLock = t /\ tx' = [tx EXCEPT ![t] = NoTx]
      /\ applied' = [applied EXCEPT ![op] = verdict]
      /\ UNCHANGED <<watermark, now, drawn, prune>>
  BY DEF Commit, Exclusive, Working
<1>2. op \in Ops /\ applied[op] = "none" /\ op.id \in Ids
  BY <1>1, Phases, ConstantsAssumption DEF Sound, Working, IsOp
<1>3. PICK at \in 1..now :
        /\ outcome(rows, op, at) = verdict
        /\ verdict = "applied" =>
             tx[t].row = [appliedRow(op, rows[op.id], at) EXCEPT !.seq = drawn]
  BY <1>1 DEF Sound
<1>4. IsFiniteSet({o \in Ops : applied'[o] = "applied"})
  <2>1. {o \in Ops : applied'[o] = "applied"}
          \subseteq {o \in Ops : applied[o] = "applied"} \cup {op}
    BY <1>1 DEF S!IInv, S!ServerTypeOK
  <2>2. IsFiniteSet({o \in Ops : applied[o] = "applied"} \cup {op})
    BY FS_AddElement
  <2>3. QED
    BY <2>1, <2>2, FS_Subset
<1>5. Underway' /\ Pending' = {} /\ Cardinality(Pending') = 0
  BY <1>1, <1>4, HolderEnds
<1>6. S!outcome(rows, op, at) = verdict
  BY <1>3, SameRules
<1>7. CASE verdict # "applied"
  <2>1. rows' = rows
    BY <1>7 DEF Commit
  <2>2. Cardinality(Pending) = 0
    BY <1>1, <1>7, PendingAlone
  <2>3. drawn' - Cardinality(Pending') = drawn - Cardinality(Pending)
    BY <1>1, <1>5, <2>2
  <2>4. S!RecordRefusal(op, at)
    BY <1>1, <1>2, <1>6, <1>7, <2>1, <2>3 DEF S!RecordRefusal
  <2>5. QED
    BY <1>2, <1>5, <2>1, <2>4 DEF S!ServerNext, S!ServerStep, S!applyOne
<1>8. CASE verdict = "applied"
  <2> DEFINE new == appliedRow(op, rows[op.id], at)
  <2>1. rows' = [rows EXCEPT ![op.id] = [new EXCEPT !.seq = drawn]]
    BY <1>3, <1>8 DEF Commit
  <2>2. Cardinality(Pending) = 1
    BY <1>1, <1>8, PendingAlone
  <2>3. /\ drawn = (drawn - Cardinality(Pending)) + 1
        /\ drawn' - Cardinality(Pending') = (drawn - Cardinality(Pending)) + 1
        /\ drawn - Cardinality(Pending) < MaxSeq
    BY <1>1, <1>5, <2>2, NumbersAssumption
  <2>4. new = S!appliedRow(op, rows[op.id], at)
    BY SameRules
  <2>5. new \in Row
    BY <1>2, RowApplied DEF S!IInv, S!ServerTypeOK
  <2> HIDE DEF new
  <2>6. S!Write(op, at)
    <3>1. rows' = [rows EXCEPT ![op.id] =
                     [S!appliedRow(op, rows[op.id], at) EXCEPT
                        !.seq = (drawn - Cardinality(Pending)) + 1]]
      BY <2>1, <2>3, <2>4
    <3>2. QED
      BY <1>1, <1>2, <1>6, <1>8, <2>3, <3>1, OneAccount DEF S!Write
  <2>7. [new EXCEPT !.seq = drawn].seq = drawn
    BY <2>5 DEF Row
  <2>8. \A i \in Ids : rows'[i] = rows[i] \/ rows'[i].seq = committedSeq + 1
    BY <1>2, <2>1, <2>3, <2>7 DEF committedSeq, S!IInv, S!ServerTypeOK
  <2>9. QED
    BY <1>2, <1>5, <2>6, <2>8 DEF S!ServerNext, S!ServerStep, S!applyOne
<1>9. QED
  BY <1>7, <1>8

----------------------------------------------------------------------------
(* The pruning run, the pull and the clock.                                *)

LEMMA PruneMoves ==
  ASSUME Inv, UNCHANGED <<committed, drawn, tx>>, userLock \in {Free, Pruner},
         userLock' = Pruner, PruneSound'
  PROVE  Underway' /\ UNCHANGED S!serverVars
<1> USE DEF Inv, Underway
<1>1. Exclusive'
  <2>1. \A t \in Txns : tx[t].pc \notin Working
    BY TxnsAssumption DEF Exclusive
  <2>2. QED
    BY <2>1 DEF Exclusive
<1>2. \A t \in Txns : Sound(t)'
  BY DEF Sound, committed
<1>3. Pending' = Pending
  BY DEF Pending
<1>4. QED
  BY <1>1, <1>2, <1>3 DEF committed, S!serverVars

LEMMA PruneReads ==
  ASSUME Inv, PruneLock \/ PruneSubtasks \/ PruneTasks \/ PruneOthers
  PROVE  Underway' /\ UNCHANGED S!serverVars
<1> USE DEF Inv, Underway
<1>1. CASE PruneLock
  <2>1. PICK at \in 1..now : prune' = [pc |-> "subtasks", at |-> at]
    BY <1>1 DEF PruneLock
  <2>2. PruneSound'
    BY <1>1, <2>1 DEF PruneSound, PruneLock, committed
  <2>3. QED
    BY <1>1, <2>2, PruneMoves DEF PruneLock, lockUserWrites
<1>2. CASE PruneSubtasks
  <2>1. prune # NoTx /\ prune.pc = "subtasks"
    BY <1>2 DEF PruneSubtasks, NoTx
  <2>2. PICK at \in 1..now : prune = [pc |-> "subtasks", at |-> at]
    BY <2>1 DEF PruneSound
  <2>3. prune' = [pc |-> "tasks", at |-> at, gone |-> S!expiredSubtasks(at)]
    BY <1>2, <2>2, SameServer DEF PruneSubtasks
  <2>4. S!expiredSubtasks(at)' = S!expiredSubtasks(at)
    BY <1>2, SamePrunable DEF PruneSubtasks, committed
  <2>5. PruneSound'
    BY <1>2, <2>3, <2>4 DEF PruneSound, PruneSubtasks, committed
  <2>6. QED
    BY <1>2, <2>1, <2>5, PruneMoves DEF PruneSubtasks, Exclusive
<1>3. CASE PruneTasks
  <2>1. prune # NoTx /\ prune.pc = "tasks"
    BY <1>3 DEF PruneTasks, NoTx
  <2>2. PICK at \in 1..now :
          prune = [pc |-> "tasks", at |-> at, gone |-> S!expiredSubtasks(at)]
    BY <2>1 DEF PruneSound
  <2>3. prune' = [pc |-> "others", at |-> at, gone |-> S!expiredTasks(at)]
    BY <1>3, <2>2, SameServer DEF PruneTasks, S!expiredTasks
  <2>4. S!expiredTasks(at)' = S!expiredTasks(at)
    BY <1>3, SamePrunable DEF PruneTasks, committed
  <2>5. PruneSound'
    BY <1>3, <2>3, <2>4 DEF PruneSound, PruneTasks, committed
  <2>6. QED
    BY <1>3, <2>1, <2>5, PruneMoves DEF PruneTasks, Exclusive
<1>4. CASE PruneOthers
  <2>1. prune # NoTx /\ prune.pc = "others"
    BY <1>4 DEF PruneOthers, NoTx
  <2>2. PICK at \in 1..now :
          prune = [pc |-> "others", at |-> at, gone |-> S!expiredTasks(at)]
    BY <2>1 DEF PruneSound
  <2>3. prune' = [pc |-> "commit", gone |-> S!prunable(at)]
    BY <1>4, <2>2, SameServer DEF PruneOthers, S!prunable
  <2>4. S!prunable(at)' = S!prunable(at)
    BY <1>4, SamePrunable DEF PruneOthers, committed
  <2>5. PruneSound'
    BY <1>4, <2>3, <2>4 DEF PruneSound, PruneOthers, committed
  <2>6. QED
    BY <1>4, <2>1, <2>5, PruneMoves DEF PruneOthers, Exclusive
<1>5. QED
  BY <1>1, <1>2, <1>3, <1>4

\* The watermark is the highest of the numbers the run deleted.
LEMMA WatermarkIsHighest ==
  ASSUME Inv, NEW at
  PROVE  LET nums == {watermark} \cup {rows[i].seq : i \in S!prunable(at)}
         IN  S!Highest(Max(nums), nums)
<1> USE DEF Inv
<1> DEFINE nums == {watermark} \cup {rows[i].seq : i \in S!prunable(at)}
           covered == {watermark} \cup {rows[i].seq : i \in S!prunable(at)}
<1>1. 0 \in 0..(drawn - Cardinality(Pending))
  BY DEF S!IInv, S!ServerTypeOK
<1>2. covered # {} /\ covered \subseteq {0, watermark} \cup {rows[i].seq : i \in Ids}
  BY DEF S!prunable, S!expiredTasks, S!expiredSubtasks, S!expiredParents, S!expiredOthers
<1>3. \A c : S!Max(c) = Max(c)
  BY DEF S!Max, Max
<1> HIDE DEF covered
<1>4. S!Max(covered) \in covered /\ \A n \in covered : n <= S!Max(covered)
  BY <1>1, <1>2, S!CursorIsLargest, SameRules, ConstantsAssumption, NumbersAssumption
<1>5. QED
  BY <1>3, <1>4 DEF S!Highest, covered

LEMMA PruneCommitStep ==
  ASSUME Inv, PruneCommit
  PROVE  /\ Underway' /\ (UNCHANGED S!serverVars \/ S!ServerNext)
         /\ \A i \in Ids : rows'[i].seq = rows[i].seq \/ rows'[i].version = 0
<1> USE DEF Inv, Underway
<1>1. prune # NoTx /\ prune.pc = "commit"
  BY DEF PruneCommit, NoTx
<1>2. PICK at \in 1..now : prune = [pc |-> "commit", gone |-> S!prunable(at)]
  BY <1>1 DEF PruneSound
<1> DEFINE gone == S!prunable(at)
<1> HIDE DEF gone
<1>3. /\ userLock = Pruner /\ prune' = NoTx /\ UNCHANGED <<applied, now, drawn, tx>>
      /\ rows' = S!pruned(gone)
      /\ watermark' = Max({watermark} \cup {rows[i].seq : i \in gone})
  BY <1>1, <1>2, SameServer DEF PruneCommit, Exclusive, gone
<1>4. Underway' /\ Cardinality(Pending') = 0
  BY <1>3, HolderEnds
<1>5. Cardinality(Pending) = 0
  BY <1>3, PendingAlone, TxnsAssumption DEF Pruner
<1>6. drawn' - Cardinality(Pending') = drawn - Cardinality(Pending)
  BY <1>3, <1>4, <1>5
<1>7. S!Highest(watermark', {watermark} \cup {rows[i].seq : i \in gone})
  BY <1>3, WatermarkIsHighest DEF gone
<1>8. CASE gone = {}
  <2>1. rows' = rows
    <3>1. rows \in [Ids -> Row]
      BY SameRules DEF S!IInv, S!ServerTypeOK
    <3>2. S!cascaded(gone) = {}
      BY <1>8 DEF S!cascaded
    <3>3. ASSUME NEW i \in Ids
          PROVE  S!setNull(rows[i], gone) = rows[i]
      <4> DEFINE v == [f \in S!Fields |-> IF f \in {"parentId", "projectId", "statusId"}
                                              /\ rows[i].val[f] \in gone
                                          THEN Null ELSE rows[i].val[f]]
      <4>1. rows[i] \in S!Row
        BY DEF S!IInv, S!ServerTypeOK
      <4>2. v = rows[i].val
        BY <1>8, <4>1 DEF S!Row
      <4>3. S!setNull(rows[i], gone) = [rows[i] EXCEPT !.val = v]
        BY DEF S!setNull
      <4> HIDE DEF v
      <4>4. QED
        BY <4>1, <4>2, <4>3 DEF S!Row
    <3>4. QED
      BY <1>3, <1>8, <3>1, <3>2, <3>3 DEF S!pruned
  <2>2. watermark' = watermark
    BY <1>7, <1>8 DEF S!Highest
  <2>3. QED
    BY <1>3, <1>4, <1>6, <2>1, <2>2 DEF S!serverVars
<1>9. CASE gone # {}
  <2>1. S!pruneUser(at)
    BY <1>3, <1>6, <1>7, <1>9 DEF S!pruneUser, gone
  <2>2. ASSUME NEW i \in Ids
        PROVE  rows'[i].seq = rows[i].seq \/ rows'[i].version = 0
    <3>1. S!NoRow.version = 0
      BY DEF S!NoRow
    <3>2. QED
      BY <2>1, <3>1, S!PrunedRow, SameRules, ConstantsAssumption, NumbersAssumption
         DEF S!IInv
  <2>3. QED
    BY <1>4, <2>1, <2>2 DEF S!ServerNext, S!ServerStep
<1>10. QED
  BY <1>8, <1>9

\* A run that fails has deleted nothing.
LEMMA PruneAbortStep ==
  ASSUME Inv, PruneAbort
  PROVE  Underway' /\ UNCHANGED S!serverVars
<1> USE DEF Inv, Underway
<1>1. userLock = Pruner /\ prune' = NoTx /\ UNCHANGED <<committed, drawn, tx>>
  BY DEF PruneAbort, Exclusive
<1>2. Underway'
  BY <1>1, HolderEnds DEF committed
<1>3. Pending' = Pending
  BY <1>1 DEF Pending
<1>4. QED
  BY <1>1, <1>2, <1>3 DEF committed, S!serverVars

LEMMA TickStep ==
  ASSUME Inv, Tick
  PROVE  Underway' /\ S!ServerNext
<1> USE DEF Inv, Underway
<1>1. now \in Nat /\ now' = now + 1 /\ 1..now \subseteq 1..now'
  BY DEF Tick, S!IInv, S!ServerTypeOK
<1>2. \A t \in Txns : Sound(t)'
  BY <1>1 DEF Tick, Sound
<1>3. PruneSound'
  BY <1>1, SamePrunable DEF Tick, PruneSound
<1>4. Exclusive' /\ Pending' = Pending
  BY DEF Tick, Exclusive, Pending
<1>5. S!Tick
  BY <1>4 DEF Tick, S!Tick
<1>6. QED
  BY <1>1, <1>2, <1>3, <1>4, <1>5 DEF Tick, S!ServerNext, S!ServerStep

LEMMA PullStep ==
  ASSUME Inv, Pull
  PROVE  Underway' /\ UNCHANGED S!serverVars /\ pulled' \in Nat /\ pulled' <= committedSeq
<1> USE DEF Inv, Underway
<1>1. Underway' /\ UNCHANGED S!serverVars
  <2>1. UNCHANGED <<committed, drawn, tx, prune, userLock>>
    BY DEF Pull
  <2>2. (\A t \in Txns : Sound(t)') /\ Exclusive' /\ Pending' = Pending
    BY <2>1 DEF Sound, committed, Exclusive, Pending
  <2>3. PruneSound'
    BY <2>1, SamePrunable DEF PruneSound, committed
  <2>4. QED
    BY <2>1, <2>2, <2>3 DEF committed, S!serverVars
<1>2. committedSeq \in Nat
  BY DEF committedSeq, S!IInv, S!ServerTypeOK
<1>3. CASE S!Gone(pulled)
  BY <1>1, <1>2, <1>3, SameServer DEF Pull
<1>4. CASE ~S!Gone(pulled)
  <2> DEFINE delivered == {i \in Ids : IF pulled = 0 THEN S!Visible(rows, i)
                                                     ELSE rows[i].seq > pulled}
             covered == IF pulled = 0
                        THEN {watermark} \cup {rows[i].seq : i \in Ids}
                        ELSE {pulled} \cup {rows[i].seq : i \in delivered}
  <2>1. pulled' = S!Max(covered)
    BY <1>4, SameServer DEF Pull, S!changesSince
  <2>2. pulled \in 0..(drawn - Cardinality(Pending))
    BY <1>2 DEF committedSeq
  <2>3. covered # {} /\ covered \subseteq {pulled, watermark} \cup {rows[i].seq : i \in Ids}
    OBVIOUS
  <2> HIDE DEF covered
  <2>4. S!Max(covered) \in covered
    BY <2>2, <2>3, S!CursorIsLargest, SameRules, ConstantsAssumption, NumbersAssumption
  <2>5. watermark \in Nat /\ \A i \in Ids : rows[i].seq \in Nat
    BY DEF S!IInv, S!ServerTypeOK, S!Row
  <2>6. QED
    BY <1>1, <1>2, <2>1, <2>3, <2>4, <2>5 DEF S!Drawn, committedSeq
<1>5. QED
  BY <1>3, <1>4

----------------------------------------------------------------------------
(* Every step is one of SyncServer's, or none.                             *)

LEMMA UnderwayStep ==
  ASSUME Inv, [Next]_vars
  PROVE  Underway' /\ [S!ServerNext]_(S!serverVars)
<1>1. ASSUME NEW t \in Txns, \/ \E op \in Ops : Begin(t, op)
                             \/ Step(t) \/ Abort(t)
      PROVE  Underway' /\ [S!ServerNext]_(S!serverVars)
  BY <1>1, BeginStep, LockStep, SeenStep, LockRowStep, CheckReferencesStep, ReadStep,
     DrawStep, CommitStep, AbortStep DEF Step
<1>2. CASE PruneLock \/ PruneStep \/ PruneAbort
  BY <1>2, PruneReads, PruneCommitStep, PruneAbortStep DEF PruneStep
<1>3. CASE Pull \/ Tick
  BY <1>3, PullStep, TickStep
<1>4. CASE UNCHANGED vars
  <2>1. UNCHANGED <<committed, drawn, tx, prune, userLock>>
    BY <1>4 DEF vars
  <2>2. (\A t \in Txns : Sound(t)') /\ Exclusive' /\ Pending' = Pending
    BY <2>1 DEF Inv, Underway, Sound, committed, Exclusive, Pending
  <2>3. PruneSound'
    BY <2>1, SamePrunable DEF Inv, Underway, PruneSound, committed
  <2>4. QED
    BY <2>1, <2>2, <2>3 DEF Inv, Underway, committed, S!serverVars
<1>5. QED
  BY <1>1, <1>2, <1>3, <1>4 DEF Next

LEMMA InvStep ==
  ASSUME Inv, [Next]_vars
  PROVE  Inv' /\ [S!ServerNext]_(S!serverVars)
<1>1. Underway' /\ [S!ServerNext]_(S!serverVars)
  BY UnderwayStep
<1>2. S!IInv'
  BY <1>1, S!InvStep, SameRules, ConstantsAssumption, NumbersAssumption DEF Inv
<1>3. S!Drawn'
  BY <1>1, <1>2, S!DrawnStep, SameRules, ConstantsAssumption, NumbersAssumption DEF Inv
<1>4. committedSeq \in Nat /\ committedSeq' \in Nat /\ committedSeq' >= committedSeq
  <2>1. /\ drawn - Cardinality(Pending) \in Nat
        /\ drawn' - Cardinality(Pending') \in Nat
    BY <1>2 DEF Inv, S!IInv, S!ServerTypeOK
  <2>2. \/ drawn' - Cardinality(Pending') = drawn - Cardinality(Pending)
        \/ drawn' - Cardinality(Pending') = (drawn - Cardinality(Pending)) + 1
    BY <1>1 DEF S!ServerNext, S!ServerStep, S!applyOne, S!Fail, S!Replay, S!RecordRefusal,
                S!Write, S!RollBack, S!pruneUser, S!Tick, S!serverVars
  <2>3. QED
    BY <2>1, <2>2 DEF committedSeq
<1>5. (pulled' = pulled) \/ (pulled' \in Nat /\ pulled' <= committedSeq)
  BY PullStep
     DEF Next, Step, PruneStep, Begin, Lock, Seen, LockRow, CheckReferences, Read, Draw,
         Commit, Abort, PruneLock, PruneSubtasks, PruneTasks, PruneOthers, PruneCommit, PruneAbort,
         Tick, vars
<1>6. QED
  BY <1>1, <1>2, <1>3, <1>4, <1>5 DEF Inv

LEMMA InitInv == Init => Inv /\ S!ServerInit
<1> SUFFICES ASSUME Init PROVE Inv /\ S!ServerInit
  OBVIOUS
<1>1. Underway /\ Cardinality(Pending) = 0
  BY InitUnderway
<1>2. S!ServerInit
  BY <1>1, SameRules DEF Init, S!ServerInit
<1>3. S!IInv
  BY <1>2, S!InitInv, SameRules, ConstantsAssumption, NumbersAssumption
<1>4. S!Drawn
  BY <1>2 DEF S!Drawn, S!ServerInit, S!NoRow
<1>5. QED
  BY <1>1, <1>2, <1>3, <1>4 DEF Inv, Init, committedSeq

LEMMA InvCorrect == Spec => []Inv
<1>1. Inv /\ [Next]_vars => Inv'
  BY InvStep
<1>2. QED
  BY InitInv, <1>1, PTL DEF Spec

\* The statements of any number of concurrent transactions, interleaved and
\* failing anywhere, add up to SyncServer's whole operations and pruning runs:
\* what one transaction has read nobody else has changed when it commits.
THEOREM LockImplementsServer == Spec => ImplementsServer
<1>1. Init => Server!ServerInit
  BY InitInv, SameServer
<1>2. Inv /\ [Next]_vars => [Server!ServerNext]_(Server!serverVars)
  <2>1. ASSUME Inv, [Next]_vars PROVE [S!ServerNext]_(S!serverVars)
    BY <2>1, InvStep
  <2>2. Server!serverVars = S!serverVars /\ Server!serverVars' = S!serverVars'
    BY DEF Server!serverVars, S!serverVars
  <2>3. Server!ServerNext = S!ServerNext
    BY SameServer
  <2>4. QED
    BY <2>1, <2>2, <2>3
<1>3. QED
  BY InvCorrect, <1>1, <1>2, PTL DEF Spec, ImplementsServer, Server!ServerSpec

\* No row is committed at or below a cursor a client already holds: numbers
\* commit in the order they were drawn, one at a time.
THEOREM NothingSkipped == Spec => NeverSkipped
<1> DEFINE ahead == \A i \in Ids :
             Exists(rows'[i]) /\ rows'[i].seq # rows[i].seq => rows'[i].seq > pulled
<1>1. Inv /\ [Next]_vars => [ahead]_vars
  <2> SUFFICES ASSUME Inv, Next PROVE ahead
    BY DEF vars, committed
  <2>1. ASSUME NEW t \in Txns, Commit(t)
        PROVE  ahead
    <3>1. committedSeq \in Nat /\ pulled \in Nat /\ pulled <= committedSeq
      BY DEF Inv, S!IInv, S!ServerTypeOK, committedSeq
    <3>2. \A i \in Ids : rows'[i] = rows[i] \/ rows'[i].seq = committedSeq + 1
      BY <2>1, CommitStep
    <3>3. QED
      BY <3>1, <3>2
  <2>2. CASE PruneCommit
    BY <2>2, PruneCommitStep DEF Exists
  <2>3. CASE UNCHANGED rows
    BY <2>3
  <2>4. QED
    BY <2>1, <2>2, <2>3
       DEF Next, Step, PruneStep, Begin, Lock, Seen, LockRow, CheckReferences, Read, Draw,
           Abort, PruneLock, PruneSubtasks, PruneTasks, PruneOthers, PruneAbort,
           Pull, Tick, committed
<1>2. QED
  BY InvCorrect, <1>1, PTL DEF Spec, NeverSkipped

=============================================================================
