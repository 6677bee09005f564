-------------------------------- MODULE Sync --------------------------------
(***************************************************************************)
(* Clients, their stores, the network and the server of one user.          *)
(*                                                                         *)
(* A store (one SQLite file, or one engine's database) may be shared by    *)
(* several processes: agents run the CLI in parallel.  A process flushes   *)
(* (sync.ts): it reads the outbox, sends it in batches, each with the      *)
(* cursor of that moment, and applies each answer in one transaction.  An  *)
(* exchange can be lost at any point, and a request the client gave up on  *)
(* can still be under way at the server when it is sent again.             *)
(***************************************************************************)
EXTENDS SyncServer, Replica

CONSTANTS
  Stores,
  Procs,
  StoreOf,        \* [Procs -> Stores]
  MintedBy,       \* [Ops -> Stores]: who may ever queue an operation
  MAX_OPS,        \* operations per request
  MaxLost,        \* bound: exchanges given up on
  MaxBody         \* the server's body limit, counted in operations

Nobody == "nobody" \* the process of an exchange whose client has given up

ASSUME ClientsAssumption ==
  /\ Nobody \notin Procs
  /\ StoreOf \in [Procs -> Stores]
  /\ MintedBy \in [Ops -> Stores]
  /\ MAX_OPS \in Nat \ {0}
  /\ MaxLost \in Nat
  /\ MaxBody \in Nat \ {0}

VARIABLES
  store,   \* [Stores -> store]
  minted,  \* operations queued so far, by any store
  proc,    \* [Procs -> process]
  net,     \* exchanges under way
  lost     \* how many exchanges have been given up on

clientVars == <<store, minted, proc, lost>>
vars == <<serverVars, clientVars, net>>

\* own: what the running command queued; todo: what this flush has still to
\* send; batch: what it last sent; extra: the last, empty pull of a flush
\* whose last batch was refused whole.
Idle == [pc |-> "idle", own |-> {}, todo |-> << >>, batch |-> << >>,
         since |-> 0, retried |-> FALSE, extra |-> FALSE]

Request(p, since, ops) ==
  [by |-> p, since |-> since, ops |-> ops, at |-> 0, verdicts |-> << >>,
   state |-> "open", answer |-> << >>]

ExchangeOf(p) == {x \in net : x.by = p}

Init ==
  /\ ServerInit
  /\ store = [s \in Stores |-> EmptyStore]
  /\ minted = {}
  /\ proc = [p \in Procs |-> Idle]
  /\ net = {}
  /\ lost = 0

----------------------------------------------------------------------------
(* A process: submit and flush.                                            *)

\* submit, first half: the operation is stored before it is sent.
Mint(p, op) ==
  /\ proc[p].pc = "idle"
  /\ proc[p].own = {}
  /\ op \notin minted
  /\ MintedBy[op] = StoreOf[p]
  /\ mintable(store[StoreOf[p]], op)
  /\ minted' = minted \cup {op}
  /\ store' = [store EXCEPT ![StoreOf[p]] = enqueue(@, op)]
  /\ proc' = [proc EXCEPT ![p].own = {op}]
  /\ UNCHANGED <<serverVars, net, lost>>

StartFlush(p) ==
  /\ proc[p].pc = "idle"
  /\ proc' = [proc EXCEPT ![p].pc = "send",
                          ![p].todo = pending(store[StoreOf[p]])]
  /\ UNCHANGED <<serverVars, store, minted, net, lost>>

\* Mutated: only full batches are sent.
SendFull(p) ==
  LET full == Len(proc[p].todo) >= MAX_OPS
  IN  /\ proc[p].pc = "send"
      /\ proc' = [proc EXCEPT ![p].pc = "wait",
                              ![p].batch = IF full THEN SubSeq(proc[p].todo, 1, MAX_OPS)
                                                   ELSE << >>,
                              ![p].todo = IF full THEN SubSeq(@, MAX_OPS + 1, Len(@))
                                                  ELSE << >>,
                              ![p].since = store[StoreOf[p]].cursor,
                              ![p].retried = FALSE]
      /\ net' = net \cup {Request(p, store[StoreOf[p]].cursor, proc'[p].batch)}
      /\ UNCHANGED <<serverVars, store, minted, lost>>

\* The next request: at most MAX_OPS operations and the cursor of now.
Send(p) ==
  LET n == IF Len(proc[p].todo) < MAX_OPS THEN Len(proc[p].todo) ELSE MAX_OPS
      batch == SubSeq(proc[p].todo, 1, n)
      since == store[StoreOf[p]].cursor
  IN  /\ proc[p].pc = "send"
      /\ proc' = [proc EXCEPT ![p].pc = "wait",
                              ![p].batch = batch,
                              ![p].todo = SubSeq(@, n + 1, Len(@)),
                              ![p].since = since,
                              ![p].retried = FALSE]
      /\ net' = net \cup {Request(p, since, batch)}
      /\ UNCHANGED <<serverVars, store, minted, lost>>

Continue(p) == [proc[p] EXCEPT
  !.pc = IF proc[p].todo = << >> THEN "report" ELSE "send", !.batch = << >>]

Answered(p) ==
  \E x \in ExchangeOf(p) :
    /\ x.state = "answered"
    /\ store' = [store EXCEPT ![StoreOf[p]] =
         applyResponse(@, [op \in ToSet(x.ops) |->
                             x.verdicts[CHOOSE k \in DOMAIN x.ops : x.ops[k] = op]],
                       x.answer, proc[p].own, proc[p].since)]
    /\ proc' = [proc EXCEPT ![p] = Continue(p)]
    /\ net' = net \ {x}
    /\ UNCHANGED <<serverVars, minted, lost>>

\* 410: start the replica over and repeat with since 0, once.
AnsweredGone(p) ==
  \E x \in ExchangeOf(p) :
    /\ x.state = "gone"
    /\ IF proc[p].retried
       THEN /\ proc' = [proc EXCEPT ![p] = Idle]
            /\ net' = net \ {x}
            /\ UNCHANGED store
       ELSE /\ store' = [store EXCEPT ![StoreOf[p]] = resetReplica(@)]
            /\ proc' = [proc EXCEPT ![p].since = 0, ![p].retried = TRUE]
            /\ net' = (net \ {x}) \cup {Request(p, 0, x.ops)}
    /\ UNCHANGED <<serverVars, minted, lost>>

\* Mutated: any 4xx counts as the batch refused, a 410 too.
AnsweredAny4xx(p) ==
  \E x \in ExchangeOf(p) :
    /\ x.state \in {"refused", "gone"}
    /\ store' = [store EXCEPT ![StoreOf[p]] =
         settle(@, [op \in ToSet(x.ops) |-> "rejected"], proc[p].own)]
    /\ proc' = [proc EXCEPT ![p] =
         IF proc[p].extra THEN Idle
         ELSE [Continue(p) EXCEPT !.pc = "send",
                                  !.extra = (proc[p].todo = << >>)]]
    /\ net' = net \ {x}
    /\ UNCHANGED <<serverVars, minted, lost>>

\* 400 or 413: the whole batch counts as rejected, nothing was pulled, and
\* after the last batch the flush asks once more with no operations.
AnsweredRefused(p) ==
  \E x \in ExchangeOf(p) :
    /\ x.state = "refused"
    /\ store' = [store EXCEPT ![StoreOf[p]] =
         settle(@, [op \in ToSet(x.ops) |-> "rejected"], proc[p].own)]
    /\ proc' = [proc EXCEPT ![p] =
         IF proc[p].extra THEN Idle
         ELSE [Continue(p) EXCEPT !.pc = "send",
                                  !.extra = (proc[p].todo = << >>)]]
    /\ net' = net \ {x}
    /\ UNCHANGED <<serverVars, minted, lost>>

\* submit, second half: an own operation that a parallel process sent and that
\* failed is reported here and removed.
Report(p) ==
  /\ proc[p].pc = "report"
  /\ store' = [store EXCEPT ![StoreOf[p]].outbox =
       where(@, {e \in ToSet(@) : ~(e.op \in proc[p].own /\ e.status = "failed")})]
  /\ proc' = [proc EXCEPT ![p] = Idle]
  /\ UNCHANGED <<serverVars, minted, net, lost>>

\* todoer outbox drop.
Drop(p, op) ==
  /\ proc[p].pc = "idle"
  /\ StatusOf(store[StoreOf[p]], op) = "failed"
  /\ store' = [store EXCEPT ![StoreOf[p]] = remove(@, op)]
  /\ UNCHANGED <<serverVars, minted, proc, net, lost>>

\* The network fails, the answer is late, the server answers 5xx, or the
\* process dies.  A request not answered yet may still be carried out.
GiveUp(p) ==
  /\ lost < MaxLost
  /\ proc[p] # Idle
  /\ lost' = lost + 1
  /\ proc' = [proc EXCEPT ![p] = Idle]
  /\ \/ net' = net \ ExchangeOf(p)
     \/ /\ \E x \in ExchangeOf(p) : x.state = "open"
        /\ net' = {IF x.by = p THEN [x EXCEPT !.by = Nobody] ELSE x : x \in net}
  /\ UNCHANGED <<serverVars, store, minted>>

----------------------------------------------------------------------------
(* The server's side of an exchange: SyncService.sync.                     *)

HandleOp(x) ==
  LET k == Len(x.verdicts) + 1
      at == IF x.at = 0 THEN now ELSE x.at
  IN  /\ x.state = "open"
      /\ Len(x.ops) <= MaxBody
      /\ k <= Len(x.ops)
      /\ applyOne(x.ops[k], at)
      /\ net' = (net \ {x}) \cup
           {[x EXCEPT !.at = at,
                      !.verdicts = Append(@, verdict(x.ops[k], at))]}
      /\ UNCHANGED clientVars

HandlePull(x) ==
  /\ x.state = "open"
  /\ Len(x.verdicts) = Len(x.ops)
  /\ net' = (net \ {x}) \cup
       (IF x.by = Nobody THEN {}
        ELSE IF Gone(x.since) THEN {[x EXCEPT !.state = "gone"]}
        ELSE {[x EXCEPT !.state = "answered",
                        !.answer = changesSince(x.since)]})
  /\ UNCHANGED <<serverVars, clientVars>>

\* The body limit, before any operation is read.
RefuseBatch(x) ==
  /\ x.state = "open"
  /\ Len(x.ops) > MaxBody
  /\ net' = (net \ {x}) \cup
       (IF x.by = Nobody THEN {} ELSE {[x EXCEPT !.state = "refused"]})
  /\ UNCHANGED <<serverVars, clientVars>>

Housekeeping ==
  /\ (\E at \in 1..now : pruneUser(at)) \/ Tick
  /\ UNCHANGED <<clientVars, net>>

Next ==
  \/ \E p \in Procs :
       \/ \E op \in Ops : Mint(p, op) \/ Drop(p, op)
       \/ StartFlush(p) \/ Send(p) \/ Report(p) \/ GiveUp(p)
       \/ Answered(p) \/ AnsweredGone(p) \/ AnsweredRefused(p)
  \/ \E x \in net : HandleOp(x) \/ HandlePull(x) \/ RefuseBatch(x)
  \/ Housekeeping

Spec == Init /\ [][Next]_vars

\* A flush once started runs on, a later one follows (the engine's cadence, or
\* the next command), and the server answers what it was asked.  Losing an
\* exchange, dying, and everything the user does are not required.
Progress(p) ==
  \/ StartFlush(p) \/ Send(p) \/ Report(p)
  \/ Answered(p) \/ AnsweredGone(p) \/ AnsweredRefused(p)

Serve(p) == \E x \in ExchangeOf(p) : HandleOp(x) \/ HandlePull(x) \/ RefuseBatch(x)

FairSpec ==
  Spec /\ \A p \in Procs : WF_vars(Progress(p)) /\ WF_vars(Serve(p))
----------------------------------------------------------------------------
(* Properties.                                                             *)

\* No ghosts: a row a replica shows is the server's, or the server has a newer
\* number for it that the next pull will ask for.  A replica whose cursor is
\* below the prune watermark is excused: its next pull is answered 410.  A row
\* that breaks this is shown for ever (Store.applyResponse, changesSince: a
\* snapshot leaves tombstones out).
NoGhosts ==
  \A s \in Stores : store[s].cursor >= watermark =>
    \A i \in Ids : Visible(store[s].rows, i) =>
      rows[i] = store[s].rows[i] \/ rows[i].seq > store[s].cursor

\* The cursor claims no ground the replica does not hold: every row a client
\* may see, numbered up to the cursor, is there as the server has it.  A row
\* that breaks this will never be asked for again.  A parallel process's reset
\* while an incremental answer is under way is what puts it at risk
\* (Store.applyResponse: "a partial replica behind a cursor that claims it is
\* whole").
ReplicaComplete ==
  \A s \in Stores : \A i \in Ids :
    Visible(rows, i) /\ rows[i].seq <= store[s].cursor =>
      store[s].rows[i] = rows[i]

\* A user's own edit does not flicker: once an edit has left the outbox as
\* settled, the replica that queued it shows it or a later one, or knows that
\* the row is gone, or hidden with its task or tag.  Between a 410's reset and
\* the snapshot the replica is empty and says nothing.  The key of a derived-id
\* row is not an edit (Store.applyResponse, settle, mergeFields).
SettledEditShown ==
  \A op \in minted :
    LET s == MintedBy[op]
        row == store[s].rows[op.id]
    IN  (/\ StatusOf(store[s], op) = "absent"
         /\ applied[op] \in {"applied", "superseded"}
         /\ store[s].cursor # 0) =>
           \/ ~Visible(rows, op.id)
           \/ \A f \in DOMAIN op.fields \ derivedIdKeys(op.id) :
                row.fieldTs[f] >= clamp(op.ts, 1)

\* Every queued operation gets its verdict: none waits in the outbox forever,
\* whatever was lost on the way and however often the replica was reset.
EverythingSettles ==
  \A op \in Ops :
    (op \in minted) ~> (StatusOf(store[MintedBy[op]], op) # "pending")

\* Devices converge: in the end every replica shows what the server holds and
\* keeps a cursor a pull accepts.  A snapshot whose cursor lay below the
\* watermark would be answered 410 and reset for ever (changesSince).
Converges ==
  <>[](\A s \in Stores :
         /\ ~Gone(store[s].cursor)
         /\ \A i \in Ids : Visible(store[s].rows, i) \/ Visible(rows, i)
                              => store[s].rows[i] = rows[i])

\* Operations of a request refused whole whose process waits for the answer.
TurnedAway ==
  {op \in Ops : \E x \in net :
     x.by # Nobody /\ x.state = "refused" /\ op \in ToSet(x.ops)}

\* No edit is lost and none is carried out twice: along every interleaving of
\* retries, late requests, refused batches, resets and crashes an operation
\* follows the life OpLedger gives it.
Ledger == INSTANCE OpLedger WITH
  place <- [op \in Ops |-> IF op \in minted THEN StatusOf(store[MintedBy[op]], op)
                                            ELSE "unminted"],
  effect <- applied,
  turnedAway <- TurnedAway,
  Unstorable <- {op \in Ops : op.id \in Foreign}

ImplementsLedger == Ledger!Spec
=============================================================================
