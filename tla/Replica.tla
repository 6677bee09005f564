------------------------------- MODULE Replica -------------------------------
(***************************************************************************)
(* What a client keeps on disk and what it shows: store.ts and overlay.ts. *)
(* A store is the outbox, the replica of the server's rows and the cursor. *)
(* The operators are the store's transactions as functions of its state;   *)
(* module Sync runs them from processes that share a store.                *)
(***************************************************************************)
EXTENDS SyncOps, Selection, FiniteSetsExt, SequencesExt

EmptyStore ==
  [outbox |-> << >>, rows |-> [i \in Ids |-> NoRow], cursor |-> 0]

Entry(op) == [op |-> op, status |-> "pending"]

enqueue(store, op) == [store EXCEPT !.outbox = Append(@, Entry(op))]

pending(store) ==
  LET entries == where(store.outbox, {e \in ToSet(store.outbox) : e.status = "pending"})
  IN  [k \in DOMAIN entries |-> entries[k].op]

StatusOf(store, op) ==
  IF \E e \in ToSet(store.outbox) : e.op = op
  THEN (CHOOSE e \in ToSet(store.outbox) : e.op = op).status
  ELSE "absent"

remove(store, op) ==
  [store EXCEPT !.outbox = where(@, {e \in ToSet(@) : e.op # op})]

Refusals == {"rejected", "conflict"}

\* The server's verdicts on the outbox: a refused operation stays as failed
\* unless the running command queued it; every other verdict removes it.
settle(store, verdicts, own) ==
  LET judged == DOMAIN verdicts
      kept(op) == op \in judged => verdicts[op] \in Refusals /\ op \notin own
      mark(e) == IF e.op \in judged THEN [e EXCEPT !.status = "failed"] ELSE e
      rest == where(store.outbox, {e \in ToSet(store.outbox) : kept(e.op)})
  IN  [store EXCEPT !.outbox = [k \in DOMAIN rest |-> mark(rest[k])]]

\* Mutated: INSERT ... ON CONFLICT DO NOTHING.
mergeChangesInsertOnly(store, changes) ==
  [store EXCEPT !.rows = [i \in Ids |->
     IF i \in DOMAIN changes /\ ~Exists(@[i]) THEN changes[i] ELSE @[i]]]

mergeChanges(store, changes) ==
  [store EXCEPT !.rows = [i \in Ids |->
     IF i \in DOMAIN changes /\ changes[i].seq > store.rows[i].seq
     THEN changes[i] ELSE store.rows[i]]]

advanceCursor(store, cursor) ==
  [store EXCEPT !.cursor = IF cursor > @ THEN cursor ELSE @]

resetReplica(store) ==
  [store EXCEPT !.rows = [i \in Ids |-> NoRow], !.cursor = 0]

\* Mutated: merges whatever became of the replica meanwhile.
applyResponseAlways(store, verdicts, answer, own, since) ==
  advanceCursor(mergeChanges(settle(store, verdicts, own), answer.changes),
                answer.cursor)

\* One transaction.  The verdicts always land; the delta only if the replica
\* still holds everything up to the cursor the request carried.
applyResponse(store, verdicts, answer, own, since) ==
  LET settled == settle(store, verdicts, own)
  IN  IF settled.cursor < since THEN settled
      ELSE advanceCursor(mergeChanges(settled, answer.changes), answer.cursor)

----------------------------------------------------------------------------
(* The local view: the replica with the pending operations on top.         *)

overlayOne(view, op) ==
  LET current == view[op.id]
      written == [current EXCEPT
        !.version = IF Exists(current) THEN @ ELSE 1,
        !.val = [f \in Fields |-> IF f \in DOMAIN op.fields
                                  THEN op.fields[f] ELSE current.val[f]]]
  IN  CASE op.kind = "create" /\ Exists(current) /\ ~IsDerived(op.id) -> view
        [] op.kind = "set" /\ ~Exists(current) -> view
        [] op.kind = "delete" ->
             IF Live(current) THEN [view EXCEPT ![op.id].deletedAt = 1] ELSE view
        [] OTHER -> [view EXCEPT ![op.id] = written]

overlay(store) == FoldLeft(overlayOne, store.rows, pending(store))

\* What the commands let a user do: create what is not there, edit what is
\* shown, and delete, or change a rule, only on the version the server sent
\* and with nothing queued for the row (settledTask).
mintable(store, op) ==
  LET view == overlay(store)
  IN  /\ \A f \in DOMAIN op.fields \cap ReferenceFields :
           op.fields[f] \in Ids => Visible(view, op.fields[f])
      /\ op.kind = "create" => ~Exists(view[op.id])
      /\ op.kind # "create" => Visible(view, op.id)
      /\ op.base # 0 => /\ store.rows[op.id].version = op.base
                        /\ \A p \in ToSet(pending(store)) : p.id # op.id
=============================================================================
