----------------------------- MODULE WriteLock -----------------------------
(***************************************************************************)
(* Inside the server's transactions.  SyncServer takes an operation and a  *)
(* pruning run as one step; here each is the sequence of statements the    *)
(* code sends, run under READ COMMITTED beside those of other requests of  *)
(* the same user: the advisory lock (user-lock.ts), the record of past     *)
(* operations, the row locks, the reference checks, the row itself,        *)
(* nextval and the commit.  A transaction may fail at any of them.         *)
(*                                                                         *)
(* It implements SyncServer: that is what the lock is for.                 *)
(***************************************************************************)
EXTENDS SyncOps, FiniteSetsExt, Sequences

CONSTANTS
  Txns,      \* connections serving operations
  IdOrder,   \* [Ids -> Nat]: the order of ids as strings
  Retention, MaxSeq, MaxGaps, MaxNow

ASSUME OneAccount == Foreign = {}
ASSUME NumbersAssumption ==
  Retention \in Nat /\ MaxSeq \in Nat /\ MaxGaps \in Nat /\ MaxNow \in Nat

VARIABLES
  rows, applied, watermark, now,  \* committed, as in SyncServer
  drawn,     \* change_seq, which does not roll back
  tx,        \* [Txns -> transaction]
  prune,     \* the pruning run's transaction
  userLock,  \* who holds pg_advisory_xact_lock(1, user)
  rowLock,   \* [Ids -> who holds the row FOR UPDATE]
  pulled     \* the cursor some client got from its last pull

committed == <<rows, applied, watermark, now>>
vars == <<committed, drawn, tx, prune, userLock, rowLock, pulled>>

Free == "free"
Pruner == "pruner"

ASSUME TxnsAssumption == Free \notin Txns /\ Pruner \notin Txns

NoTx == [pc |-> "idle"]

\* The sequence as the committed state accounts for it: a number drawn by a
\* transaction still under way is not drawn yet.
Pending == {t \in Txns : tx[t].pc = "commit" /\ tx[t].verdict = "applied"}
Server == INSTANCE SyncServer WITH seq <- drawn - Cardinality(Pending)

Init ==
  /\ rows = [i \in Ids |-> NoRow]
  /\ applied = [op \in Ops |-> "none"]
  /\ watermark = 0
  /\ now = 1
  /\ drawn = 0
  /\ tx = [t \in Txns |-> NoTx]
  /\ prune = NoTx
  /\ userLock = Free
  /\ rowLock = [i \in Ids |-> Free]
  /\ pulled = 0

\* Mutated: a session lock outlives the transaction.
releaseRowsOnly(who) ==
  /\ userLock' = userLock
  /\ rowLock' = [i \in Ids |-> IF rowLock[i] = who THEN Free ELSE rowLock[i]]

\* The end of a transaction, either way, gives every lock back.
release(who) ==
  /\ userLock' = IF userLock = who THEN Free ELSE userLock
  /\ rowLock' = [i \in Ids |-> IF rowLock[i] = who THEN Free ELSE rowLock[i]]

----------------------------------------------------------------------------
(* One operation: the statements of applyOne.                              *)

Begin(t, op) ==
  /\ tx[t].pc = "idle"
  /\ tx' = [tx EXCEPT ![t] = [pc |-> "lock", op |-> op, at |-> now]]
  /\ UNCHANGED <<committed, drawn, prune, userLock, rowLock, pulled>>

\* Mutated: nobody waits.
lockUserWritesShared(who) == userLock' = who

lockUserWrites(who) == userLock = Free /\ userLock' = who

Lock(t) ==
  /\ tx[t].pc = "lock"
  /\ lockUserWrites(t)
  /\ tx' = [tx EXCEPT ![t].pc = "seen"]
  /\ UNCHANGED <<committed, drawn, prune, rowLock, pulled>>

\* The row the operation writes and the parent it names, in id order.
lockRows(op) ==
  LET target == IF "parentId" \in DOMAIN op.fields
                THEN op.fields["parentId"] ELSE Null
  IN  IF target \notin Ids \/ target = op.id THEN <<op.id>>
      ELSE IF IdOrder[target] < IdOrder[op.id] THEN <<target, op.id>>
      ELSE <<op.id, target>>

Decide(t, verdict) ==
  [tx EXCEPT ![t] = [pc |-> "commit", op |-> tx[t].op, verdict |-> verdict]]

Seen(t) ==
  LET op == tx[t].op
  IN  /\ tx[t].pc = "seen"
      /\ \/ /\ applied[op] # "none"
            /\ tx' = [tx EXCEPT ![t] = NoTx]
            /\ release(t)
         \/ /\ applied[op] = "none"
            /\ tx' = IF forbidden(op) THEN Decide(t, "rejected")
                     ELSE [tx EXCEPT ![t] = [pc |-> "rows", op |-> op,
                             at |-> tx[t].at, todo |-> lockRows(op)]]
            /\ UNCHANGED <<userLock, rowLock>>
      /\ UNCHANGED <<committed, drawn, prune, pulled>>

\* SELECT ... FOR UPDATE.  A row that does not exist locks nothing.
LockRow(t) ==
  /\ tx[t].pc = "rows"
  /\ tx[t].todo # << >>
  /\ LET i == Head(tx[t].todo)
     IN  /\ rowLock[i] \in {Free, t}
         /\ rowLock' = [rowLock EXCEPT ![i] = IF Exists(rows[i]) THEN t ELSE @]
  /\ tx' = [tx EXCEPT ![t].todo = Tail(@)]
  /\ UNCHANGED <<committed, drawn, prune, userLock, pulled>>

CheckReferences(t) ==
  /\ tx[t].pc = "rows"
  /\ tx[t].todo = << >>
  /\ tx' = IF misplaced(rows, tx[t].op) THEN Decide(t, "rejected")
           ELSE [tx EXCEPT ![t].pc = "read"]
  /\ UNCHANGED <<committed, drawn, prune, userLock, rowLock, pulled>>

Read(t) ==
  LET op == tx[t].op
      verdict == applyOp(op, rows[op.id], tx[t].at)
  IN  /\ tx[t].pc = "read"
      /\ tx' = IF verdict # "applied" THEN Decide(t, verdict)
               ELSE [tx EXCEPT ![t] = [pc |-> "draw", op |-> op,
                       row |-> appliedRow(op, rows[op.id], tx[t].at)]]
      /\ UNCHANGED <<committed, drawn, prune, userLock, rowLock, pulled>>

Draw(t) ==
  /\ tx[t].pc = "draw"
  /\ drawn < MaxSeq
  /\ drawn' = drawn + 1
  /\ tx' = [tx EXCEPT ![t] = [pc |-> "commit", op |-> tx[t].op,
              verdict |-> "applied", row |-> [tx[t].row EXCEPT !.seq = drawn + 1]]]
  /\ UNCHANGED <<committed, prune, userLock, rowLock, pulled>>

\* The write waits for the row's lock and, for its foreign keys, for those of
\* the rows it references (FOR KEY SHARE).
Commit(t) ==
  LET op == tx[t].op
      touched == {op.id} \cup ({op.fields[f] : f \in DOMAIN op.fields} \cap Ids)
  IN  /\ tx[t].pc = "commit"
      /\ \A i \in touched : rowLock[i] \in {Free, t}
      /\ applied' = [applied EXCEPT ![op] = tx[t].verdict]
      /\ rows' = IF tx[t].verdict = "applied"
                 THEN [rows EXCEPT ![op.id] = tx[t].row] ELSE rows
      /\ tx' = [tx EXCEPT ![t] = NoTx]
      /\ release(t)
      /\ UNCHANGED <<watermark, now, drawn, prune, pulled>>

\* Mutated: the record was committed by itself.
AbortRecorded(t) ==
  /\ tx[t].pc = "commit"
  /\ applied' = [applied EXCEPT ![tx[t].op] = tx[t].verdict]
  /\ tx' = [tx EXCEPT ![t] = NoTx]
  /\ release(t)
  /\ UNCHANGED <<rows, watermark, now, drawn, prune, pulled>>

\* A timeout (P2028), a lost connection, a deadlock Postgres broke.
Abort(t) ==
  /\ tx[t].pc # "idle"
  /\ drawn - Cardinality({op \in Ops : applied[op] = "applied"})
       < MaxGaps + Cardinality(Pending)
  /\ tx' = [tx EXCEPT ![t] = NoTx]
  /\ release(t)
  /\ UNCHANGED <<committed, drawn, prune, pulled>>

----------------------------------------------------------------------------
(* Pruning, the pull and the clock.                                        *)

\* The run computed its cutoff when it began, users ago.
PruneLock ==
  /\ prune.pc = "idle"
  /\ lockUserWrites(Pruner)
  /\ \E at \in 1..now : prune' = [pc |-> "subtasks", at |-> at]
  /\ UNCHANGED <<committed, drawn, tx, rowLock, pulled>>

\* The steps' deletions, each reading what is committed when it runs and what
\* the ones before it deleted.
PruneSubtasks ==
  /\ prune.pc = "subtasks"
  /\ prune' = [pc |-> "tasks", at |-> prune.at,
               gone |-> Server!expiredSubtasks(prune.at)]
  /\ UNCHANGED <<committed, drawn, tx, userLock, rowLock, pulled>>

PruneTasks ==
  /\ prune.pc = "tasks"
  /\ prune' = [pc |-> "others", at |-> prune.at,
               gone |-> prune.gone \cup Server!expiredParents(prune.gone, prune.at)]
  /\ UNCHANGED <<committed, drawn, tx, userLock, rowLock, pulled>>

PruneOthers ==
  /\ prune.pc = "others"
  /\ prune' = [pc |-> "commit",
               gone |-> prune.gone \cup Server!expiredOthers(prune.gone, prune.at)]
  /\ UNCHANGED <<committed, drawn, tx, userLock, rowLock, pulled>>

PruneCommit ==
  /\ prune.pc = "commit"
  /\ \A i \in prune.gone : rowLock[i] = Free
  /\ rows' = Server!pruned(prune.gone)
  /\ watermark' = Max({watermark} \cup {rows[i].seq : i \in prune.gone})
  /\ prune' = NoTx
  /\ release(Pruner)
  /\ UNCHANGED <<applied, now, drawn, tx, pulled>>

\* The run failed for this user; it is logged, and tried again another day.
PruneAbort ==
  /\ prune # NoTx
  /\ prune' = NoTx
  /\ release(Pruner)
  /\ UNCHANGED <<committed, drawn, tx, pulled>>

\* REPEATABLE READ: every table as it was committed at one moment.
Pull ==
  /\ pulled' = IF Server!Gone(pulled) THEN 0 ELSE Server!changesSince(pulled).cursor
  /\ UNCHANGED <<committed, drawn, tx, prune, userLock, rowLock>>

Tick ==
  /\ now < MaxNow
  /\ now' = now + 1
  /\ UNCHANGED <<rows, applied, watermark, drawn, tx, prune, userLock, rowLock,
                 pulled>>

Step(t) ==
  Lock(t) \/ Seen(t) \/ LockRow(t) \/ CheckReferences(t) \/ Read(t) \/ Draw(t)
  \/ Commit(t)
PruneStep == PruneSubtasks \/ PruneTasks \/ PruneOthers \/ PruneCommit

Next ==
  \/ \E t \in Txns :
       \/ \E op \in Ops : Begin(t, op)
       \/ Step(t) \/ Abort(t)
  \/ PruneLock \/ PruneStep \/ PruneAbort
  \/ Pull
  \/ Tick

Spec == Init /\ [][Next]_vars

----------------------------------------------------------------------------
(* Properties.                                                             *)

\* Whatever the interleaving and whatever fails, the statements of concurrent
\* requests add up to whole operations and pruning runs, one after the other:
\* no lost update, no check that another request has outdated, and numbers
\* that commit in the order they were drawn.
ImplementsServer == Server!ServerSpec

\* No row is ever committed at or below a cursor a client already holds:
\* nothing would ever select it again (ADR 0016, lockUserWrites).
NeverSkipped ==
  [][\A i \in Ids :
       Exists(rows'[i]) /\ rows'[i].seq # rows[i].seq => rows'[i].seq > pulled]_vars

\* Nobody waits on a circle: while any transaction is under way, one of them
\* can go on.  The locks are always taken in one order, the user's before any
\* row's and rows by id, and are given back with the transaction.  With the
\* locks served in the order they are asked for, every transaction ends.
SomeoneMoves ==
  (\E t \in Txns : tx[t].pc # "idle") \/ prune # NoTx =>
    (\E t \in Txns : ENABLED Step(t)) \/ ENABLED PruneStep
=============================================================================
