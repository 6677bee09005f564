------------------------------ MODULE SyncProofs ------------------------------
(***************************************************************************)
(* What holds of any number of stores, processes, requests and operations: *)
(* replicas and the answers on their way to them agree with the server on  *)
(* all their cursors claim; and no queued operation is lost, none is       *)
(* carried out twice, what an answer says of one is what the server        *)
(* recorded, and an edit it carried out stays what its device shows.       *)
(***************************************************************************)
EXTENDS Sync, SyncServerProofs, SequencesExt, SequenceTheorems, WellFoundedInduction, TLAPS

----------------------------------------------------------------------------
(* What a selection holds: the rows that are selected, each once if each   *)
(* was there once, and no other.                                           *)

\* A set of numbers, if it is not empty, has a least one.
LEMMA LeastNumber ==
  ASSUME NEW S \in SUBSET Nat, S # {}
  PROVE  \E n \in S : \A m \in S : n <= m
<1>1. PICK n \in S : \A m \in S : ~ (<<m, n>> \in OpToRel(<, Nat))
  BY NatLessThanWellFounded, WFMin
<1>2. \A m \in S : ~ (m < n)
  BY <1>1 DEF OpToRel
<1> QED
  BY <1>2

\* The function `where' is defined by exists.
LEMMA SelectionExists ==
  ASSUME NEW E, NEW s \in Seq(E), NEW T
  PROVE  \E upTo : /\ upTo = [n \in 0 .. Len(s) |->
                        IF n = 0 THEN << >>
                        ELSE IF s[n] \in T THEN Append(upTo[n - 1], s[n])
                        ELSE upTo[n - 1]]
                   /\ where(s, T) = upTo[Len(s)]
<1> DEFINE Step(f, n) == IF n = 0 THEN << >>
                         ELSE IF s[n] \in T THEN Append(f[n - 1], s[n])
                         ELSE f[n - 1]
           Rec(f, k) == f = [n \in 0 .. k |-> Step(f, n)]
           Bad == {k \in 0 .. Len(s) : ~ \E f : Rec(f, k)}
<1>1. Len(s) \in Nat
  OBVIOUS
<1>2. Bad = {}
  <2> SUFFICES ASSUME Bad # {} PROVE FALSE
    OBVIOUS
  <2> HIDE DEF Step
  <2>1. PICK k \in Bad : \A j \in Bad : k <= j
    <3> Bad \subseteq Nat
      BY <1>1
    <3> QED
      BY LeastNumber
  <2>2. CASE k = 0
    <3> DEFINE f == [n \in 0 .. 0 |-> << >>]
    <3>1. f = [n \in 0 .. 0 |-> Step(f, n)]
      BY DEF Step
    <3> QED
      BY <2>1, <2>2, <3>1
  <2>3. CASE k # 0
    <3>1. k - 1 \in 0 .. Len(s) /\ k - 1 \notin Bad
      BY <1>1, <2>1, <2>3
    <3>2. PICK f : f = [n \in 0 .. k - 1 |-> Step(f, n)]
      BY <3>1
    <3>3. PICK g : g = [n \in 0 .. k |-> IF n = k THEN Step(f, k) ELSE f[n]]
      OBVIOUS
    <3>4. k \in Nat
      BY <1>1, <2>1
    <3>5. \A n \in 0 .. k : Step(g, n) = Step(f, n)
      BY <3>3, <3>4 DEF Step
    <3>6. \A n \in 0 .. k : g[n] = Step(g, n)
      <4> SUFFICES ASSUME NEW n \in 0 .. k PROVE g[n] = Step(g, n)
        OBVIOUS
      <4>1. CASE n = k
        BY <3>3, <3>4, <3>5, <4>1
      <4>2. CASE n # k
        <5>1. n \in 0 .. k - 1
          BY <3>4, <4>2
        <5>2. f[n] = Step(f, n)
          BY <3>2, <5>1
        <5> QED
          BY <3>3, <3>5, <4>2, <5>2
      <4> QED
        BY <4>1, <4>2
    <3>7. g = [n \in 0 .. k |-> g[n]]
      BY <3>3
    <3>8. g = [n \in 0 .. k |-> Step(g, n)]
      BY <3>6, <3>7
    <3>9. \E h : Rec(h, k)
      BY <3>8
    <3> QED
      BY <2>1, <3>9
  <2> QED
    BY <2>2, <2>3
<1>3. \E f : Rec(f, Len(s))
  <2> HIDE DEF Step
  <2>1. Len(s) \in 0 .. Len(s)
    BY <1>1
  <2> QED
    BY <1>2, <2>1
<1>4. Rec(CHOOSE f : Rec(f, Len(s)), Len(s))
  BY <1>3
<1>5. where(s, T) = (CHOOSE f : Rec(f, Len(s)))[Len(s)]
  BY DEF where
<1> QED
  BY <1>4, <1>5

LEMMA ToSetAppend ==
  ASSUME NEW E, NEW s \in Seq(E), NEW x \in E
  PROVE  ToSet(Append(s, x)) = ToSet(s) \cup {x}
<1>1. Len(s) \in Nat /\ DOMAIN s = 1 .. Len(s)
  OBVIOUS
<1>2. /\ DOMAIN Append(s, x) = 1 .. Len(s) + 1
      /\ \A i \in 1 .. Len(s) : Append(s, x)[i] = s[i]
      /\ Append(s, x)[Len(s) + 1] = x
  BY AppendProperties
<1>3. 1 .. Len(s) + 1 = (1 .. Len(s)) \cup {Len(s) + 1}
  BY <1>1
<1> QED
  BY <1>1, <1>2, <1>3 DEF ToSet

\* A selection is of the table's rows: those of T, and all of them.
LEMMA SelectedRows ==
  ASSUME NEW E, NEW s \in Seq(E), NEW T
  PROVE  /\ where(s, T) \in Seq(E)
         /\ ToSet(where(s, T)) = ToSet(s) \cap T
<1>1. PICK f : /\ f = [n \in 0 .. Len(s) |->
                        IF n = 0 THEN << >>
                        ELSE IF s[n] \in T THEN Append(f[n - 1], s[n])
                        ELSE f[n - 1]]
               /\ where(s, T) = f[Len(s)]
  BY SelectionExists
<1> DEFINE OK(n) == f[n] \in Seq(E) /\ ToSet(f[n]) = {s[i] : i \in 1 .. n} \cap T
           Bad == {n \in 0 .. Len(s) : ~OK(n)}
<1>2. Len(s) \in Nat /\ DOMAIN s = 1 .. Len(s)
  OBVIOUS
<1>3. f[0] = << >>
  BY <1>1, <1>2
<1>4. \A n \in 1 .. Len(s) :
        f[n] = IF s[n] \in T THEN Append(f[n - 1], s[n]) ELSE f[n - 1]
  <2> SUFFICES ASSUME NEW n \in 1 .. Len(s)
               PROVE  f[n] = IF s[n] \in T THEN Append(f[n - 1], s[n]) ELSE f[n - 1]
    OBVIOUS
  <2>1. n \in 0 .. Len(s) /\ n # 0
    BY <1>2
  <2>2. f[n] = IF n = 0 THEN << >>
               ELSE IF s[n] \in T THEN Append(f[n - 1], s[n]) ELSE f[n - 1]
    BY <1>1, <2>1
  <2> QED
    BY <2>1, <2>2
<1>5. Bad = {}
  <2> SUFFICES ASSUME Bad # {} PROVE FALSE
    OBVIOUS
  <2> HIDE DEF OK
  <2>1. PICK n \in Bad : \A m \in Bad : n <= m
    <3> Bad \subseteq Nat
      BY <1>2
    <3> QED
      BY LeastNumber
  <2>2. OK(0)
    BY <1>3 DEF OK, ToSet
  <2>3. n \in 1 .. Len(s) /\ n - 1 \in 0 .. Len(s) /\ n - 1 \notin Bad
    BY <1>2, <2>1, <2>2
  <2>4. f[n - 1] \in Seq(E) /\ ToSet(f[n - 1]) = {s[i] : i \in 1 .. n - 1} \cap T
    BY <2>3 DEF OK
  <2>5. {s[i] : i \in 1 .. n} = {s[i] : i \in 1 .. n - 1} \cup {s[n]}
    BY <1>2, <2>3
  <2>6. s[n] \in E
    BY <1>2, <2>3
  <2>7. ToSet(Append(f[n - 1], s[n])) = ToSet(f[n - 1]) \cup {s[n]}
    BY <2>4, <2>6, ToSetAppend
  <2>8. OK(n)
    <3>1. CASE s[n] \in T
      <4>1. f[n] = Append(f[n - 1], s[n])
        BY <1>4, <2>3, <3>1
      <4>2. f[n] \in Seq(E)
        BY <2>4, <2>6, <4>1, AppendProperties
      <4>3. ToSet(f[n]) = {s[i] : i \in 1 .. n} \cap T
        BY <2>4, <2>5, <2>7, <3>1, <4>1
      <4> QED
        BY <4>2, <4>3 DEF OK
    <3>2. CASE s[n] \notin T
      <4>1. f[n] = f[n - 1]
        BY <1>4, <2>3, <3>2
      <4> QED
        BY <2>4, <2>5, <3>2, <4>1 DEF OK
    <3> QED
      BY <3>1, <3>2
  <2> QED
    BY <2>1, <2>8
<1>6. OK(Len(s))
  <2> HIDE DEF OK
  <2> QED
    BY <1>2, <1>5
<1> QED
  <2>1. ToSet(s) = {s[i] : i \in 1 .. Len(s)}
    BY <1>2 DEF ToSet
  <2> QED
    BY <1>1, <1>6, <2>1

----------------------------------------------------------------------------
(* Types.                                                                  *)

Entries == [op : Ops, status : {"pending", "failed"}]
StoreType == [outbox : Seq(Entries), rows : [Ids -> Row], cursor : Nat]
Process == [pc : {"idle", "send", "wait", "report"}, own : SUBSET Ops, todo : Seq(Ops),
            batch : Seq(Ops), since : Nat, retried : BOOLEAN, extra : BOOLEAN]
Pull == [cursor : Nat, changes : UNION {[D -> Row] : D \in SUBSET Ids}]
Exchange ==
  [by : Procs \cup {Nobody}, since : Nat, ops : Seq(Ops), at : Nat,
   verdicts : Seq(Verdicts \cup {"duplicate"}),
   state : {"open", "answered", "gone", "refused"}, answer : Pull \cup {<< >>}]

SyncTypeOK ==
  /\ store \in [Stores -> StoreType]
  /\ minted \in SUBSET Ops
  /\ proc \in [Procs -> Process]
  /\ net \in SUBSET Exchange
  /\ \A x \in net : x.at <= now /\ (x.state = "answered" => x.answer \in Pull)
  /\ lost \in Nat

LEMMA PendingOps ==
  ASSUME NEW s \in StoreType
  PROVE  pending(s) \in Seq(Ops)
<1> DEFINE entries == where(s.outbox, {e \in ToSet(s.outbox) : e.status = "pending"})
<1>1. entries \in Seq(Entries)
  BY SelectedRows DEF StoreType
<1> HIDE DEF entries
<1>2. [k \in DOMAIN entries |-> entries[k].op] \in Seq(Ops)
  <2>1. /\ Len(entries) \in Nat /\ DOMAIN entries = 1 .. Len(entries)
        /\ \A k \in DOMAIN entries : entries[k] \in Entries
    BY <1>1
  <2>2. \A k \in 1 .. Len(entries) : entries[k].op \in Ops
    BY <2>1 DEF Entries
  <2> QED
    BY <2>1, <2>2
<1> QED
  BY <1>2 DEF pending, entries

LEMMA SettleType ==
  ASSUME NEW s \in StoreType, NEW verdicts, NEW own
  PROVE  /\ settle(s, verdicts, own) \in StoreType
         /\ settle(s, verdicts, own).rows = s.rows
         /\ settle(s, verdicts, own).cursor = s.cursor
<1> DEFINE judged == DOMAIN verdicts
           kept(op) == op \in judged => verdicts[op] \in Refusals /\ op \notin own
           mark(e) == IF e.op \in judged THEN [e EXCEPT !.status = "failed"] ELSE e
           rest == where(s.outbox, {e \in ToSet(s.outbox) : kept(e.op)})
<1>1. rest \in Seq(Entries)
  BY SelectedRows DEF StoreType
<1>2. \A e \in Entries : mark(e) \in Entries
  BY DEF Entries
<1> HIDE DEF rest, mark
<1>3. [k \in DOMAIN rest |-> mark(rest[k])] \in Seq(Entries)
  BY <1>1, <1>2
<1>4. settle(s, verdicts, own) = [s EXCEPT !.outbox = [k \in DOMAIN rest |-> mark(rest[k])]]
  BY DEF settle, rest, mark
<1> QED
  BY <1>3, <1>4 DEF StoreType

LEMMA MergeType ==
  ASSUME NEW s \in StoreType, NEW a \in Pull
  PROVE  LET t == advanceCursor(mergeChanges(s, a.changes), a.cursor)
         IN  /\ t \in StoreType
             /\ t.cursor = IF a.cursor > s.cursor THEN a.cursor ELSE s.cursor
             /\ \A i \in Ids : t.rows[i] =
                  IF i \in DOMAIN a.changes /\ a.changes[i].seq > s.rows[i].seq
                  THEN a.changes[i] ELSE s.rows[i]
<1>1. \A i \in DOMAIN a.changes : a.changes[i] \in Row
  BY DEF Pull
<1>2. mergeChanges(s, a.changes) \in StoreType
  BY <1>1 DEF mergeChanges, StoreType
<1>3. a.cursor \in Nat
  BY DEF Pull
<1> QED
  BY <1>2, <1>3 DEF mergeChanges, advanceCursor, StoreType

LEMMA HandledOp ==
  ASSUME SyncTypeOK, ServerTypeOK, NEW x \in net, HandleOp(x)
  PROVE  LET k == Len(x.verdicts) + 1
             at == IF x.at = 0 THEN now ELSE x.at
         IN  /\ k \in DOMAIN x.ops /\ x.ops[k] \in Ops
             /\ at \in 1 .. now
             /\ verdict(x.ops[k], at) \in Verdicts \cup {"duplicate"}
             /\ [ServerNext]_serverVars
<1> DEFINE k == Len(x.verdicts) + 1
           at == IF x.at = 0 THEN now ELSE x.at
<1>1. x \in Exchange /\ x.at <= now /\ now \in Nat \ {0} /\ x.at \in Nat
  BY DEF SyncTypeOK, ServerTypeOK, Exchange
<1>2. x.ops \in Seq(Ops) /\ Len(x.verdicts) \in Nat
  BY <1>1 DEF Exchange
<1>3. k \in 1 .. Len(x.ops) /\ x.ops[k] \in Ops
  BY <1>2 DEF HandleOp
<1>4. at \in 1 .. now
  BY <1>1
<1>5. applyOne(x.ops[k], at)
  BY DEF HandleOp
<1>6. [ServerNext]_serverVars
  BY <1>3, <1>4, <1>5 DEF ServerNext, ServerStep
<1>7. verdict(x.ops[k], at) \in Verdicts \cup {"duplicate"}
  BY <1>3, OutcomeIsVerdict DEF verdict, ServerTypeOK, Verdicts
<1> QED
  BY <1>2, <1>3, <1>4, <1>6, <1>7

\* What a step does to the server is a step of SyncServer.
LEMMA ServerMoves ==
  ASSUME SyncTypeOK, ServerTypeOK, [Next]_vars
  PROVE  [ServerNext]_serverVars
<1>1. ASSUME NEW x \in net, HandleOp(x)
      PROVE  [ServerNext]_serverVars
  BY <1>1, HandledOp
<1>2. ASSUME Housekeeping
      PROVE  [ServerNext]_serverVars
  BY <1>2 DEF Housekeeping, ServerNext, ServerStep
<1>3. CASE UNCHANGED serverVars
  BY <1>3
<1> QED
  BY <1>1, <1>2, <1>3
     DEF Next, Mint, Drop, StartFlush, Send, Report, GiveUp, Answered, AnsweredGone,
         AnsweredRefused, HandlePull, RefuseBatch, vars

LEMMA TimeGoesOn ==
  ASSUME ServerTypeOK, [ServerNext]_serverVars
  PROVE  now' \in Nat /\ now <= now'
<1>1. now' = now \/ now' = now + 1
  BY DEF ServerNext, ServerStep, applyOne, Fail, Replay, RecordRefusal, Write,
         RollBack, pruneUser, Tick, serverVars
<1> QED
  BY <1>1 DEF ServerTypeOK

\* What a process does to its store, itself and the net, by action.
LEMMA LocalTypes ==
  ASSUME SyncTypeOK, NEW p \in Procs,
         \/ \E op \in Ops : Mint(p, op) \/ Drop(p, op)
         \/ StartFlush(p) \/ Report(p) \/ GiveUp(p)
  PROVE  SyncTypeOK'
<1> USE ClientsAssumption
<1> DEFINE s == StoreOf[p]
<1>1. s \in Stores /\ store[s] \in StoreType /\ proc[p] \in Process
  BY DEF SyncTypeOK
<1>2. ASSUME NEW op \in Ops, Mint(p, op)
      PROVE  SyncTypeOK'
  <2>1. enqueue(store[s], op) \in StoreType
    <3>1. Entry(op) \in Entries /\ store[s].outbox \in Seq(Entries)
      BY <1>1 DEF Entry, StoreType, Entries
    <3>2. Append(store[s].outbox, Entry(op)) \in Seq(Entries)
      BY <3>1, AppendProperties
    <3> QED
      BY <1>1, <3>2 DEF enqueue, StoreType
  <2>2. [proc[p] EXCEPT !.own = {op}] \in Process
    BY <1>1 DEF Process
  <2>3. store' = [store EXCEPT ![s] = enqueue(store[s], op)]
    BY <1>2 DEF Mint
  <2>4. proc' = [proc EXCEPT ![p] = [proc[p] EXCEPT !.own = {op}]]
    BY <1>2 DEF Mint, SyncTypeOK
  <2>5. store' \in [Stores -> StoreType]
    BY <2>1, <2>3 DEF SyncTypeOK
  <2>6. proc' \in [Procs -> Process]
    BY <2>2, <2>4 DEF SyncTypeOK
  <2> QED
    BY <1>2, <2>5, <2>6 DEF SyncTypeOK, Mint, serverVars
<1>3. ASSUME NEW op \in Ops, Drop(p, op)
      PROVE  SyncTypeOK'
  <2>1. remove(store[s], op) \in StoreType
    BY <1>1, SelectedRows DEF remove, StoreType
  <2>2. store' = [store EXCEPT ![s] = remove(store[s], op)]
    BY <1>3 DEF Drop
  <2>3. store' \in [Stores -> StoreType]
    BY <2>1, <2>2 DEF SyncTypeOK
  <2> QED
    BY <1>3, <2>3 DEF SyncTypeOK, Drop, serverVars
<1>4. ASSUME StartFlush(p)
      PROVE  SyncTypeOK'
  <2>1. [proc[p] EXCEPT !.pc = "send", !.todo = pending(store[s])] \in Process
    BY <1>1, PendingOps DEF Process
  <2>2. proc' = [proc EXCEPT ![p] = [proc[p] EXCEPT !.pc = "send", !.todo = pending(store[s])]]
    BY <1>4 DEF StartFlush, SyncTypeOK
  <2>3. proc' \in [Procs -> Process]
    BY <2>1, <2>2 DEF SyncTypeOK
  <2> QED
    BY <1>4, <2>3 DEF SyncTypeOK, StartFlush, serverVars
<1>5. ASSUME Report(p)
      PROVE  SyncTypeOK'
  <2> DEFINE outbox == where(store[s].outbox, {e \in ToSet(store[s].outbox) :
                                 ~(e.op \in proc[p].own /\ e.status = "failed")})
  <2>1. outbox \in Seq(Entries)
    BY <1>1, SelectedRows DEF StoreType
  <2> HIDE DEF outbox
  <2>2. [store[s] EXCEPT !.outbox = outbox] \in StoreType
    BY <1>1, <2>1 DEF StoreType
  <2>3. store' = [store EXCEPT ![s] = [store[s] EXCEPT !.outbox = outbox]]
    BY <1>5 DEF Report, SyncTypeOK, outbox
  <2>4. store' \in [Stores -> StoreType]
    BY <2>2, <2>3 DEF SyncTypeOK
  <2>5. proc' \in [Procs -> Process]
    BY <1>5 DEF Report, SyncTypeOK, Idle, Process
  <2> QED
    BY <1>5, <2>4, <2>5 DEF SyncTypeOK, Report, serverVars
<1>6. ASSUME GiveUp(p)
      PROVE  SyncTypeOK'
  <2>1. proc' \in [Procs -> Process] /\ lost' \in Nat
    BY <1>6 DEF GiveUp, SyncTypeOK, Idle, Process
  <2>2. \A x \in Exchange : /\ [x EXCEPT !.by = Nobody] \in Exchange
                            /\ [x EXCEPT !.by = Nobody].at = x.at
                            /\ [x EXCEPT !.by = Nobody].state = x.state
                            /\ [x EXCEPT !.by = Nobody].answer = x.answer
    BY DEF Exchange
  <2>3. \A y \in net' : y \in net \/ \E x \in net : y = [x EXCEPT !.by = Nobody]
    BY <1>6 DEF GiveUp, ExchangeOf
  <2>4. net' \in SUBSET Exchange
    BY <2>2, <2>3 DEF SyncTypeOK
  <2>5. \A y \in net' : y.at <= now /\ (y.state = "answered" => y.answer \in Pull)
    <3> SUFFICES ASSUME NEW y \in net'
                 PROVE  y.at <= now /\ (y.state = "answered" => y.answer \in Pull)
      OBVIOUS
    <3>1. \E x \in net : x.at = y.at /\ x.state = y.state /\ x.answer = y.answer
      <4>1. CASE y \in net
        BY <4>1
      <4>2. ASSUME NEW x \in net, y = [x EXCEPT !.by = Nobody]
            PROVE  x.at = y.at /\ x.state = y.state /\ x.answer = y.answer
        BY <2>2, <4>2 DEF SyncTypeOK
      <4> QED
        BY <2>3, <4>1, <4>2
    <3> QED
      BY <3>1 DEF SyncTypeOK
  <2> QED
    BY <1>6, <2>1, <2>4, <2>5 DEF SyncTypeOK, GiveUp, serverVars
<1> QED
  BY <1>2, <1>3, <1>4, <1>5, <1>6

LEMMA NewRequest ==
  ASSUME NEW p \in Procs, NEW since \in Nat, NEW ops \in Seq(Ops)
  PROVE  /\ Request(p, since, ops) \in Exchange
         /\ Request(p, since, ops).at = 0
         /\ Request(p, since, ops).state = "open"
<1>1. << >> \in Seq(Verdicts \cup {"duplicate"})
  OBVIOUS
<1> QED
  BY <1>1 DEF Request, Exchange

LEMMA SendTypes ==
  ASSUME SyncTypeOK, ServerTypeOK, NEW p \in Procs, Send(p)
  PROVE  SyncTypeOK'
<1> USE ClientsAssumption
<1> DEFINE todo == proc[p].todo
           n == IF Len(todo) < MAX_OPS THEN Len(todo) ELSE MAX_OPS
           batch == SubSeq(todo, 1, n)
           rest == SubSeq(todo, n + 1, Len(todo))
           since == store[StoreOf[p]].cursor
<1>1. proc[p] \in Process /\ store[StoreOf[p]] \in StoreType
  BY DEF SyncTypeOK
<1>2. todo \in Seq(Ops) /\ Len(todo) \in Nat /\ since \in Nat
  BY <1>1 DEF Process, StoreType
<1>3. n \in 0 .. Len(todo)
  BY <1>2
<1>4. batch \in Seq(Ops) /\ rest \in Seq(Ops)
  <2>1. \A i \in 1 .. n : i \in 1 .. Len(todo)
    BY <1>2, <1>3
  <2>2. \A i \in n + 1 .. Len(todo) : i \in 1 .. Len(todo)
    BY <1>2, <1>3
  <2> QED
    BY <1>2, <1>3, <2>1, <2>2, SubSeqProperties
<1>5. proc' = [proc EXCEPT ![p] = [proc[p] EXCEPT !.pc = "wait", !.batch = batch,
                 !.todo = rest, !.since = since, !.retried = FALSE]]
  BY DEF Send, SyncTypeOK
<1>6. net' = net \cup {Request(p, since, batch)}
  BY DEF Send
<1> HIDE DEF batch, rest, since
<1>7. [proc[p] EXCEPT !.pc = "wait", !.batch = batch,
         !.todo = rest, !.since = since, !.retried = FALSE] \in Process
  BY <1>1, <1>2, <1>4 DEF Process
<1>8. proc' \in [Procs -> Process]
  BY <1>5, <1>7 DEF SyncTypeOK
<1>9. now' = now /\ minted' = minted /\ store' = store /\ lost' = lost /\ now \in Nat
  BY DEF Send, serverVars, ServerTypeOK
<1>10. \A y \in net' : y \in Exchange /\ y.at <= now
                       /\ (y.state = "answered" => y.answer \in Pull)
  BY <1>2, <1>4, <1>6, <1>9, NewRequest DEF SyncTypeOK
<1> QED
  BY <1>8, <1>9, <1>10 DEF SyncTypeOK

LEMMA ContinueType ==
  ASSUME NEW p \in Procs, proc[p] \in Process
  PROVE  Continue(p) \in Process
<1>1. << >> \in Seq(Ops)
  OBVIOUS
<1>2. (IF proc[p].todo = << >> THEN "report" ELSE "send") \in {"idle", "send", "wait", "report"}
  OBVIOUS
<1> QED
  BY <1>1, <1>2 DEF Continue, Process

LEMMA IdleType == Idle \in Process
<1>1. << >> \in Seq(Ops)
  OBVIOUS
<1> QED
  BY <1>1 DEF Idle, Process

LEMMA AnswerTypes ==
  ASSUME SyncTypeOK, ServerTypeOK, NEW p \in Procs,
         Answered(p) \/ AnsweredGone(p) \/ AnsweredRefused(p)
  PROVE  SyncTypeOK'
<1> USE ClientsAssumption
<1> DEFINE s == StoreOf[p]
<1>1. s \in Stores /\ store[s] \in StoreType /\ proc[p] \in Process
  BY DEF SyncTypeOK
<1>2. CASE Answered(p)
  <2>1. PICK x \in ExchangeOf(p) :
          /\ x.state = "answered"
          /\ \E v : store' = [store EXCEPT ![s] =
               applyResponse(store[s], v, x.answer, proc[p].own, proc[p].since)]
          /\ proc' = [proc EXCEPT ![p] = Continue(p)]
          /\ net' = net \ {x}
    BY <1>2 DEF Answered
  <2>2. PICK v : store' = [store EXCEPT ![s] =
               applyResponse(store[s], v, x.answer, proc[p].own, proc[p].since)]
    BY <2>1
  <2>3. x.answer \in Pull
    BY <2>1 DEF SyncTypeOK, ExchangeOf
  <2>4. applyResponse(store[s], v, x.answer, proc[p].own, proc[p].since) \in StoreType
    BY <1>1, <2>3, SettleType, MergeType DEF applyResponse
  <2>5. store' \in [Stores -> StoreType] /\ proc' \in [Procs -> Process]
    BY <1>1, <2>1, <2>2, <2>4, ContinueType DEF SyncTypeOK
  <2> QED
    BY <1>2, <2>1, <2>5 DEF SyncTypeOK, Answered, serverVars
<1>3. CASE AnsweredGone(p)
  <2>1. PICK x \in ExchangeOf(p) :
          \/ /\ proc' = [proc EXCEPT ![p] = Idle]
             /\ net' = net \ {x}
             /\ UNCHANGED store
          \/ /\ store' = [store EXCEPT ![s] = resetReplica(store[s])]
             /\ proc' = [proc EXCEPT ![p] = [proc[p] EXCEPT !.since = 0, !.retried = TRUE]]
             /\ net' = (net \ {x}) \cup {Request(p, 0, x.ops)}
    BY <1>3 DEF AnsweredGone, SyncTypeOK
  <2>2. x.ops \in Seq(Ops)
    BY DEF ExchangeOf, SyncTypeOK, Exchange
  <2>3. resetReplica(store[s]) \in StoreType
    <3>1. NoRow \in Row
      BY DEF NoRow, Row, Values
    <3> QED
      BY <1>1, <3>1 DEF resetReplica, StoreType
  <2>4. /\ [proc[p] EXCEPT !.since = 0, !.retried = TRUE] \in Process
        /\ Idle \in Process
    <3>1. [proc[p] EXCEPT !.since = 0, !.retried = TRUE] \in Process
      BY <1>1 DEF Process
    <3> QED
      BY <3>1, IdleType
  <2>5. store' \in [Stores -> StoreType] /\ proc' \in [Procs -> Process]
    BY <2>1, <2>3, <2>4 DEF SyncTypeOK
  <2>6. \A y \in net' : y \in net \/ y = Request(p, 0, x.ops)
    BY <2>1
  <2>7. now' = now /\ minted' = minted /\ lost' = lost /\ now \in Nat
    BY <1>3 DEF AnsweredGone, serverVars, ServerTypeOK
  <2>8. \A y \in net' : y \in Exchange /\ y.at <= now
                        /\ (y.state = "answered" => y.answer \in Pull)
    BY <2>2, <2>6, <2>7, NewRequest DEF SyncTypeOK
  <2> QED
    BY <2>5, <2>7, <2>8 DEF SyncTypeOK
<1>4. CASE AnsweredRefused(p)
  <2>1. PICK x, v :
          /\ x \in ExchangeOf(p)
          /\ store' = [store EXCEPT ![s] = settle(store[s], v, proc[p].own)]
          /\ proc' = [proc EXCEPT ![p] =
               IF proc[p].extra THEN Idle
               ELSE [Continue(p) EXCEPT !.pc = "send", !.extra = (proc[p].todo = << >>)]]
          /\ net' = net \ {x}
    BY <1>4 DEF AnsweredRefused
  <2>2. /\ [Continue(p) EXCEPT !.pc = "send", !.extra = (proc[p].todo = << >>)] \in Process
        /\ Idle \in Process
    <3>1. Continue(p) \in Process /\ (proc[p].todo = << >>) \in BOOLEAN
      BY <1>1, ContinueType
    <3> QED
      BY <3>1, IdleType DEF Process
  <2>3. store' \in [Stores -> StoreType] /\ proc' \in [Procs -> Process]
    BY <1>1, <2>1, <2>2, SettleType DEF SyncTypeOK
  <2> QED
    BY <1>4, <2>1, <2>3 DEF SyncTypeOK, AnsweredRefused, serverVars
<1> QED
  BY <1>2, <1>3, <1>4

----------------------------------------------------------------------------
(* Replicas and the server.  The operators take the server's rows (rs) and *)
(* its last number (n), a replica's rows (r) and its cursor (c).           *)

\* A row of a replica is the server's as of some number.
Past(rs, r) ==
  \A i \in Ids : Live(rs[i]) => r[i].seq < rs[i].seq \/ r[i] = rs[i]

Complete(rs, r, c) ==
  \A i \in Ids : Visible(rs, i) /\ rs[i].seq <= c => r[i] = rs[i]

Faithful(rs, n, r, c) ==
  /\ c <= n
  /\ \A i \in Ids : r[i].seq <= c
  /\ Past(rs, r)
  /\ Complete(rs, r, c)

\* An answer a has what a replica that was complete up to `since' lacks.
Covering(rs, n, since, a) ==
  /\ a.cursor <= n
  /\ \A i \in DOMAIN a.changes :
       /\ a.changes[i].seq <= a.cursor
       /\ Live(rs[i]) => a.changes[i].seq < rs[i].seq \/ a.changes[i] = rs[i]
  /\ \A i \in Ids : Visible(rs, i) /\ since < rs[i].seq /\ rs[i].seq <= a.cursor =>
       i \in DOMAIN a.changes /\ a.changes[i] = rs[i]

Numbered == \A i \in Ids : Exists(rows[i]) => rows[i].seq > 0

\* What is known of the server whenever it moves.
ServerSound == IInv /\ History /\ Drawn /\ Numbered

LEMMA ServerSoundInit == ServerInit => ServerSound
<1> SUFFICES ASSUME ServerInit PROVE ServerSound
  OBVIOUS
<1>1. History
  BY DEF ServerInit, History, Begun, Keyed, Orphaned, AppliedTo, Exists, Tombstoned, NoRow
<1>2. Drawn
  BY DEF ServerInit, Drawn, NoRow
<1>3. Numbered
  BY DEF ServerInit, Numbered, Exists, NoRow
<1> QED
  BY InitInv, <1>1, <1>2, <1>3 DEF ServerSound

\* A live row without a new number is the row that was there.
LEMMA LiveKept ==
  ASSUME ServerSound, [ServerNext]_serverVars, NEW i \in Ids, Live(rows'[i]),
         rows'[i].seq <= seq
  PROVE  rows'[i] = rows[i]
<1>1. IInv /\ ServerTypeOK /\ seq \in Nat
  BY DEF ServerSound, IInv, ServerTypeOK
<1>2. ASSUME NEW op \in Ops, NEW at \in Nat \ {0}, Write(op, at)
      PROVE  rows'[i] = rows[i]
  BY <1>1, <1>2, WriteRows
<1>3. ASSUME NEW at, pruneUser(at)
      PROVE  rows'[i] = rows[i]
  <2>1. rows'[i] # NoRow
    BY DEF Live, Exists, NoRow
  <2>2. i \notin prunable(at) \cup cascaded(prunable(at))
    BY <1>1, <1>3, <2>1, PrunedRow
  <2>3. Live(rows[i])
    BY <1>1, <1>3, <2>2, PrunedRow DEF Live, Exists, Tombstoned
  <2> QED
    BY <1>1, <1>3, <2>2, <2>3, PruneKeepsLive
<1> QED
  BY <1>1, <1>2, <1>3, ServerSteps

\* Nothing becomes visible without a number.
LEMMA VisibleKept ==
  ASSUME ServerSound, [ServerNext]_serverVars, NEW i \in Ids, Visible(rows', i),
         rows'[i].seq <= seq
  PROVE  rows'[i] = rows[i] /\ Visible(rows, i)
<1>1. /\ IInv /\ ServerTypeOK /\ seq \in Nat /\ Keyed
      /\ \A k \in Ids : rows[k] \in Row
  BY DEF ServerSound, IInv, ServerTypeOK, History
<1>2. rows'[i] = rows[i] /\ Live(rows[i])
  BY LiveKept DEF Visible
<1>3. ASSUME IsDerived(i), NEW f \in {"taskId", "tagId"} \cap derivedIdKeys(i),
             rows[i].val[f] # Null
      PROVE  Live(rows[rows[i].val[f]])
  <2> DEFINE k == rows[i].val[f]
  <2>1. k \in Ids /\ Exists(rows[k])
    <3>1. f \in Owners(i) /\ Exists(rows[i])
      BY <1>2, <1>3 DEF Owners, Live
    <3> QED
      BY <1>1, <1>3, <3>1 DEF Keyed
  <2>2. Live(rows'[k])
    BY <1>2, <1>3 DEF Visible
  <2>3. ASSUME NEW op \in Ops, NEW at \in Nat \ {0}, Write(op, at)
        PROVE  Live(rows[k])
    <3>1. CASE op.id # k
      BY <1>1, <2>1, <2>2, <2>3, <3>1, WriteRows
    <3>2. CASE op.id = k
      <4>1. Tombstoned(rows[k]) => op.kind = "delete"
        BY <2>1, <2>3, <3>2, WriteKind
      <4>2. op.kind = "delete" => rows'[k].deletedAt = at
        BY <1>1, <2>3, <3>2, WriteValues
      <4>3. op.kind # "delete" => rows'[k].deletedAt = rows[k].deletedAt
        BY <1>1, <2>3, <3>2, WriteValues
      <4> QED
        BY <2>1, <2>2, <4>1, <4>2, <4>3 DEF Live, Tombstoned
    <3> QED
      BY <3>1, <3>2
  <2>4. ASSUME NEW at, pruneUser(at)
        PROVE  Live(rows[k])
    <3>1. k \notin prunable(at) \cup cascaded(prunable(at))
      BY <1>1, <2>1, <2>2, <2>4, PrunedRow DEF Live, Exists, NoRow
    <3> QED
      BY <1>1, <2>1, <2>2, <2>4, <3>1, PrunedRow DEF Live, Exists, Tombstoned
  <2> QED
    BY <1>1, <2>2, <2>3, <2>4, ServerSteps
<1> QED
  BY <1>2, <1>3 DEF Visible

LEMMA SeqGrows ==
  ASSUME ServerTypeOK, [ServerNext]_serverVars
  PROVE  seq \in Nat /\ seq' \in Nat /\ seq <= seq'
<1>1. seq' = seq \/ seq' = seq + 1
  BY DEF ServerNext, ServerStep, applyOne, Fail, Replay, RecordRefusal, Write,
         RollBack, pruneUser, Tick, serverVars
<1> QED
  BY <1>1 DEF ServerTypeOK

\* Whatever the server does next, replicas stay faithful and answers covering.
LEMMA StaysFaithful ==
  ASSUME ServerSound, [ServerNext]_serverVars, rows' \in [Ids -> Row],
         NEW r \in [Ids -> Row], NEW c \in Nat, Faithful(rows, seq, r, c)
  PROVE  Faithful(rows', seq', r, c)
<1>1. seq \in Nat /\ seq' \in Nat /\ seq <= seq'
  BY SeqGrows DEF ServerSound, IInv
<1>2. \A i \in Ids : r[i].seq \in Nat /\ rows'[i].seq \in Nat
  BY DEF Row
<1>3. ASSUME NEW i \in Ids, Live(rows'[i])
      PROVE  r[i].seq < rows'[i].seq \/ r[i] = rows'[i]
  <2>1. CASE rows'[i].seq <= seq
    BY <1>3, <2>1, LiveKept DEF Faithful, Past
  <2>2. CASE rows'[i].seq > seq
    BY <1>1, <1>2, <2>2 DEF Faithful
  <2> QED
    BY <1>1, <1>2, <2>1, <2>2
<1>4. ASSUME NEW i \in Ids, Visible(rows', i), rows'[i].seq <= c
      PROVE  r[i] = rows'[i]
  <2>1. rows'[i].seq <= seq
    BY <1>1, <1>2, <1>4 DEF Faithful
  <2> QED
    BY <1>4, <2>1, VisibleKept DEF Faithful, Complete
<1> QED
  BY <1>1, <1>3, <1>4 DEF Faithful, Past, Complete

LEMMA StaysCovering ==
  ASSUME ServerSound, [ServerNext]_serverVars, rows' \in [Ids -> Row],
         NEW since \in Nat, NEW a \in Pull, Covering(rows, seq, since, a)
  PROVE  Covering(rows', seq', since, a)
<1>1. seq \in Nat /\ seq' \in Nat /\ seq <= seq'
  BY SeqGrows DEF ServerSound, IInv
<1>2. /\ a.cursor \in Nat
      /\ DOMAIN a.changes \subseteq Ids
      /\ \A i \in DOMAIN a.changes : a.changes[i].seq \in Nat
      /\ \A i \in Ids : rows'[i].seq \in Nat
  BY DEF Pull, Row
<1>3. ASSUME NEW i \in DOMAIN a.changes, Live(rows'[i])
      PROVE  a.changes[i].seq < rows'[i].seq \/ a.changes[i] = rows'[i]
  <2>1. CASE rows'[i].seq <= seq
    BY <1>2, <1>3, <2>1, LiveKept DEF Covering
  <2>2. CASE rows'[i].seq > seq
    BY <1>1, <1>2, <2>2 DEF Covering
  <2> QED
    BY <1>1, <1>2, <2>1, <2>2
<1>4. ASSUME NEW i \in Ids, Visible(rows', i), since < rows'[i].seq,
             rows'[i].seq <= a.cursor
      PROVE  i \in DOMAIN a.changes /\ a.changes[i] = rows'[i]
  <2>1. rows'[i].seq <= seq
    BY <1>1, <1>2, <1>4 DEF Covering
  <2> QED
    BY <1>4, <2>1, VisibleKept DEF Covering
<1> QED
  BY <1>1, <1>2, <1>3, <1>4 DEF Covering

LEMMA ServerSoundStep ==
  ASSUME CreatedOnce(Ops), ServerSound, [ServerNext]_serverVars
  PROVE  ServerSound' /\ rows' \in [Ids -> Row]
<1>1. IInv' /\ History' /\ Drawn'
  BY InvStep, HistoryStep, DrawnStep DEF ServerSound
<1>2. IInv /\ ServerTypeOK /\ seq \in Nat
  BY DEF ServerSound, IInv, ServerTypeOK
<1>3. ASSUME NEW op \in Ops, NEW at \in Nat \ {0}, Write(op, at)
      PROVE  Numbered'
  <2>1. \A i \in Ids : rows'[i] = rows[i] \/ rows'[i].seq = seq + 1
    BY <1>2, <1>3, WriteRows
  <2> QED
    BY <1>2, <2>1 DEF Numbered, ServerSound
<1>4. ASSUME NEW at, pruneUser(at)
      PROVE  Numbered'
  <2> SUFFICES ASSUME NEW i \in Ids, Exists(rows'[i]) PROVE rows'[i].seq > 0
    BY DEF Numbered
  <2>1. rows'[i] # NoRow
    BY DEF Exists, NoRow
  <2>2. rows'[i].version = rows[i].version /\ rows'[i].seq = rows[i].seq
    BY <1>2, <1>4, <2>1, PrunedRow
  <2> QED
    BY <2>2 DEF Numbered, ServerSound, Exists
<1>5. ASSUME rows' = rows
      PROVE  Numbered'
  BY <1>5 DEF Numbered, ServerSound
<1>6. Numbered'
  BY <1>2, <1>3, <1>4, <1>5, ServerSteps
<1> QED
  BY <1>1, <1>6 DEF ServerSound, IInv, ServerTypeOK

\* What a pull delivers.
LEMMA PullOf ==
  ASSUME ServerSound, NEW since \in Nat, since <= seq
  PROVE  LET a == changesSince(since)
         IN  /\ a \in Pull
             /\ a.cursor <= seq
             /\ DOMAIN a.changes = {i \in Ids : IF since = 0 THEN Visible(rows, i)
                                                ELSE rows[i].seq > since}
             /\ \A i \in DOMAIN a.changes : a.changes[i] = rows[i]
             /\ \A i \in Ids : since = 0 \/ rows[i].seq > since => rows[i].seq <= a.cursor
             /\ since <= a.cursor
<1> DEFINE delivered == {i \in Ids : IF since = 0 THEN Visible(rows, i)
                                                 ELSE rows[i].seq > since}
           covered == IF since = 0
                      THEN {watermark} \cup {rows[i].seq : i \in Ids}
                      ELSE {since} \cup {rows[i].seq : i \in delivered}
           cursor == Max(covered)
           changes == [i \in delivered |-> rows[i]]
<1>1. /\ seq \in Nat /\ watermark \in Nat /\ since \in 0..seq
      /\ \A i \in Ids : rows[i] \in Row /\ rows[i].seq \in Nat
      /\ IInv /\ Drawn
  BY DEF ServerSound, IInv, ServerTypeOK, Row
<1>2. covered # {} /\ covered \subseteq {since, watermark} \cup {rows[i].seq : i \in Ids}
  OBVIOUS
<1>3. cursor \in covered /\ \A n \in covered : n <= cursor
  BY <1>1, <1>2, CursorIsLargest
<1>4. covered \subseteq Nat /\ \A n \in covered : n <= seq
  BY <1>1, <1>2 DEF Drawn
<1>5. /\ since # 0 => since \in covered
      /\ \A i \in Ids : since = 0 \/ rows[i].seq > since => rows[i].seq \in covered
  OBVIOUS
<1>6. changesSince(since) = [cursor |-> cursor, changes |-> changes]
  BY DEF changesSince
<1>7. changes \in [delivered -> Row] /\ delivered \in SUBSET Ids
  BY <1>1
<1> HIDE DEF delivered, covered, cursor
<1>8. cursor \in Nat /\ cursor <= seq /\ since <= cursor
  BY <1>1, <1>3, <1>4, <1>5
<1>9. [cursor |-> cursor, changes |-> changes] \in Pull
  BY <1>7, <1>8 DEF Pull
<1>10. \A i \in Ids : since = 0 \/ rows[i].seq > since => rows[i].seq <= cursor
  BY <1>3, <1>5
<1>11. DOMAIN changes = delivered /\ \A i \in delivered : changes[i] = rows[i]
  OBVIOUS
<1> HIDE DEF changes
<1>12. /\ changesSince(since).cursor = cursor
       /\ changesSince(since).changes = changes
  BY <1>6
<1>13. delivered = {i \in Ids : IF since = 0 THEN Visible(rows, i)
                                             ELSE rows[i].seq > since}
  BY DEF delivered
<1> QED
  BY <1>6, <1>8, <1>9, <1>10, <1>11, <1>12, <1>13

LEMMA PullIsCovering ==
  ASSUME ServerSound, NEW since \in Nat, since <= seq
  PROVE  Covering(rows, seq, since, changesSince(since))
<1>1. \A i \in Ids : rows[i].seq \in Nat
  BY DEF ServerSound, IInv, ServerTypeOK, Row
<1>2. \A i \in Ids : Visible(rows, i) => rows[i].seq > 0
  BY DEF ServerSound, Numbered, Visible, Live
<1>3. ASSUME NEW i \in DOMAIN changesSince(since).changes
      PROVE  rows[i].seq <= changesSince(since).cursor
  <2>1. i \in Ids /\ (since = 0 \/ rows[i].seq > since)
    BY <1>3, PullOf
  <2> QED
    BY <2>1, PullOf
<1> QED
  BY <1>1, <1>2, <1>3, PullOf DEF Covering

\* A replica that holds all up to where an answer begins takes it in.
LEMMA MergeIsFaithful ==
  ASSUME NEW rs \in [Ids -> Row], NEW n \in Nat, NEW since \in Nat, NEW a \in Pull,
         NEW s \in StoreType, Faithful(rs, n, s.rows, s.cursor), Covering(rs, n, since, a),
         since <= s.cursor
  PROVE  LET t == advanceCursor(mergeChanges(s, a.changes), a.cursor)
         IN  Faithful(rs, n, t.rows, t.cursor)
<1> DEFINE t == advanceCursor(mergeChanges(s, a.changes), a.cursor)
<1>1. /\ t \in StoreType
      /\ t.cursor = IF a.cursor > s.cursor THEN a.cursor ELSE s.cursor
      /\ \A i \in Ids : t.rows[i] =
           IF i \in DOMAIN a.changes /\ a.changes[i].seq > s.rows[i].seq
           THEN a.changes[i] ELSE s.rows[i]
  BY MergeType
<1>2. /\ a.cursor \in Nat /\ s.cursor \in Nat
      /\ \A i \in Ids : rs[i].seq \in Nat /\ s.rows[i].seq \in Nat
      /\ \A i \in DOMAIN a.changes : i \in Ids /\ a.changes[i].seq \in Nat
  BY DEF Pull, StoreType, Row
<1> HIDE DEF t
<1>3. t.cursor <= n /\ \A i \in Ids : t.rows[i].seq <= t.cursor
  BY <1>1, <1>2 DEF Faithful, Covering
<1>4. Past(rs, t.rows)
  BY <1>1, <1>2 DEF Faithful, Covering, Past
<1>5. ASSUME NEW i \in Ids, Visible(rs, i), rs[i].seq <= t.cursor
      PROVE  t.rows[i] = rs[i]
  <2>1. Live(rs[i])
    BY <1>5 DEF Visible
  <2>2. CASE rs[i].seq <= s.cursor
    <3>1. s.rows[i] = rs[i]
      BY <1>5, <2>2 DEF Faithful, Complete
    <3>2. i \in DOMAIN a.changes => a.changes[i].seq < rs[i].seq \/ a.changes[i] = rs[i]
      BY <2>1 DEF Covering
    <3> QED
      BY <1>1, <1>2, <3>1, <3>2
  <2>3. CASE rs[i].seq > s.cursor
    <3>1. since < rs[i].seq /\ rs[i].seq <= a.cursor
      BY <1>1, <1>2, <1>5, <2>3
    <3>2. i \in DOMAIN a.changes /\ a.changes[i] = rs[i]
      BY <1>5, <3>1 DEF Covering
    <3>3. s.rows[i].seq < rs[i].seq \/ s.rows[i] = rs[i]
      BY <2>1 DEF Faithful, Past
    <3> QED
      BY <1>1, <1>2, <3>2, <3>3
  <2> QED
    BY <1>2, <2>2, <2>3
<1> QED
  BY <1>3, <1>4, <1>5 DEF Faithful, Complete, t

----------------------------------------------------------------------------
(* The invariant of stores and exchanges.                                  *)

\* A process waits for one exchange at most, with the cursor it asked with.
Waiting ==
  /\ \A x \in net : x.by # Nobody =>
       proc[x.by].pc = "wait" /\ proc[x.by].since = x.since
  /\ \A x, y \in net : x.by = y.by /\ x.by # Nobody => x = y

Agreed ==
  /\ \A s \in Stores : Faithful(rows, seq, store[s].rows, store[s].cursor)
  /\ \A x \in net :
       /\ x.since <= seq
       /\ x.state = "answered" => Covering(rows, seq, x.since, x.answer)

SyncInv == SyncTypeOK /\ ServerSound /\ Waiting /\ Agreed

LEMMA SyncInvInit == Init => SyncInv
<1> SUFFICES ASSUME Init PROVE SyncInv
  OBVIOUS
<1>1. ServerSound /\ ServerInit
  BY ServerSoundInit DEF Init
<1>2. rows = [i \in Ids |-> NoRow] /\ seq = 0
  BY <1>1 DEF ServerInit
<1>3. NoRow \in Row /\ ~Live(NoRow) /\ NoRow.seq = 0
  BY DEF NoRow, Row, Values, Live, Exists
<1>4. EmptyStore \in StoreType
  <2>1. << >> \in Seq(Entries)
    OBVIOUS
  <2> QED
    BY <1>3, <2>1 DEF EmptyStore, StoreType
<1>5. SyncTypeOK
  BY <1>4, IdleType DEF Init, SyncTypeOK
<1>6. Faithful(rows, seq, EmptyStore.rows, EmptyStore.cursor)
  BY <1>2, <1>3 DEF Faithful, Past, Complete, EmptyStore, Visible
<1>7. Waiting /\ Agreed
  BY <1>6 DEF Init, Waiting, Agreed
<1> QED
  BY <1>1, <1>5, <1>7 DEF SyncInv

\* What the server makes of an exchange.
Served(x, y) == /\ y \in Exchange /\ y.by = x.by /\ y.since = x.since /\ y.ops = x.ops
                /\ y.at <= now'

LEMMA Serving ==
  ASSUME SyncInv, NEW x \in net, HandleOp(x) \/ HandlePull(x) \/ RefuseBatch(x)
  PROVE  \A y \in net' :
           \/ y \in net \ {x}
           \/ /\ Served(x, y)
              /\ y.state = "answered" =>
                   /\ x.state = "open" /\ ~Gone(x.since) /\ UNCHANGED serverVars
                   /\ y.answer = changesSince(x.since) /\ y.answer \in Pull
                   /\ y.verdicts = x.verdicts /\ Len(x.verdicts) = Len(x.ops)
<1>1. /\ SyncTypeOK /\ ServerTypeOK /\ ServerSound /\ x \in Exchange
      /\ x.at <= now /\ x.at \in Nat /\ now \in Nat
      /\ x.since \in Nat /\ x.since <= seq
  BY DEF SyncInv, ServerSound, IInv, SyncTypeOK, ServerTypeOK, Agreed, Exchange
<1>2. CASE HandleOp(x)
  <2> DEFINE at == IF x.at = 0 THEN now ELSE x.at
             v == verdict(x.ops[Len(x.verdicts) + 1], at)
  <2>1. at \in Nat /\ at <= now /\ v \in Verdicts \cup {"duplicate"} /\ now <= now'
        /\ now' \in Nat
    BY <1>1, <1>2, HandledOp, TimeGoesOn
  <2>2. x.state = "open"
    BY <1>2 DEF HandleOp
  <2>3. net' = (net \ {x}) \cup {[x EXCEPT !.at = at, !.verdicts = Append(@, v)]}
    BY <1>2 DEF HandleOp
  <2> DEFINE z == [x EXCEPT !.at = at, !.verdicts = Append(@, v)]
  <2> HIDE DEF at, v
  <2>4. /\ z \in Exchange /\ z.at = at /\ z.by = x.by /\ z.since = x.since
        /\ z.state = x.state /\ z.ops = x.ops
    <3>1. Append(x.verdicts, v) \in Seq(Verdicts \cup {"duplicate"})
      BY <1>1, <2>1, AppendProperties DEF Exchange
    <3> QED
      BY <1>1, <2>1, <3>1 DEF Exchange
  <2>5. Served(x, z) /\ z.state = "open"
    BY <1>1, <2>1, <2>2, <2>4 DEF Served
  <2> HIDE DEF z
  <2>6. net' = (net \ {x}) \cup {z}
    BY <2>3 DEF z
  <2> QED
    BY <2>5, <2>6
<1>3. CASE HandlePull(x)
  <2>1. changesSince(x.since) \in Pull
    BY <1>1, PullOf
  <2>2. /\ UNCHANGED serverVars /\ now' = now
        /\ x.state = "open" /\ Len(x.verdicts) = Len(x.ops)
    BY <1>3 DEF HandlePull, serverVars
  <2>3. \A y \in net' :
          \/ y \in net \ {x}
          \/ y = [x EXCEPT !.state = "gone"]
          \/ y = [x EXCEPT !.state = "answered", !.answer = changesSince(x.since)]
             /\ ~Gone(x.since)
    BY <1>3 DEF HandlePull
  <2> DEFINE a == changesSince(x.since)
             y1 == [x EXCEPT !.state = "gone"]
             y2 == [x EXCEPT !.state = "answered", !.answer = a]
  <2> HIDE DEF a
  <2>4. /\ y1 \in Exchange /\ y1.at = x.at /\ y1.by = x.by /\ y1.since = x.since
        /\ y1.state = "gone" /\ y1.ops = x.ops
        /\ y2 \in Exchange /\ y2.at = x.at /\ y2.by = x.by /\ y2.since = x.since
        /\ y2.state = "answered" /\ y2.answer = a /\ y2.ops = x.ops
        /\ y2.verdicts = x.verdicts
    BY <1>1, <2>1 DEF Exchange, a
  <2>5. Served(x, y1) /\ Served(x, y2)
    BY <1>1, <2>2, <2>4 DEF Served
  <2>6. \A y \in net' : y \in net \ {x} \/ y = y1 \/ (y = y2 /\ ~Gone(x.since))
    BY <2>3 DEF a
  <2> HIDE DEF y1, y2
  <2> QED
    BY <2>1, <2>2, <2>4, <2>5, <2>6 DEF a
<1>4. CASE RefuseBatch(x)
  <2>1. now' = now
    BY <1>4 DEF RefuseBatch, serverVars
  <2>2. \A y \in net' : y \in net \ {x} \/ y = [x EXCEPT !.state = "refused"]
    BY <1>4 DEF RefuseBatch
  <2>3. [x EXCEPT !.state = "refused"] \in Exchange
        /\ [x EXCEPT !.state = "refused"].state = "refused"
        /\ [x EXCEPT !.state = "refused"].by = x.by
        /\ [x EXCEPT !.state = "refused"].at = x.at
        /\ [x EXCEPT !.state = "refused"].ops = x.ops
        /\ [x EXCEPT !.state = "refused"].since = x.since
    BY <1>1 DEF Exchange
  <2> QED
    BY <1>1, <2>1, <2>2, <2>3 DEF Served
<1> QED
  BY <1>2, <1>3, <1>4

LEMMA ServeStep ==
  ASSUME CreatedOnce(Ops), SyncInv, NEW x \in net,
         HandleOp(x) \/ HandlePull(x) \/ RefuseBatch(x)
  PROVE  SyncInv'
<1>1. /\ SyncTypeOK /\ ServerTypeOK /\ ServerSound /\ x \in Exchange
      /\ Waiting /\ Agreed /\ seq \in Nat
  BY DEF SyncInv, ServerSound, IInv, SyncTypeOK, ServerTypeOK
<1>2. /\ [ServerNext]_serverVars /\ now' \in Nat /\ now <= now'
      /\ UNCHANGED <<store, minted, proc, lost>>
  <2>1. [ServerNext]_serverVars
    BY <1>1, HandledOp DEF HandlePull, RefuseBatch
  <2> QED
    BY <1>1, <2>1, TimeGoesOn DEF HandleOp, HandlePull, RefuseBatch, clientVars
<1>3. ServerSound' /\ rows' \in [Ids -> Row] /\ seq' \in Nat /\ seq <= seq'
  BY <1>1, <1>2, ServerSoundStep, SeqGrows
<1>4. \A y \in net' :
        \/ y \in net
        \/ /\ Served(x, y)
           /\ y.state = "answered" =>
                /\ UNCHANGED serverVars /\ y.answer = changesSince(x.since)
                /\ y.answer \in Pull
  BY Serving
<1>5. SyncTypeOK'
  <2>1. \A y \in net' : y \in Exchange /\ y.at <= now'
                        /\ (y.state = "answered" => y.answer \in Pull)
    <3> SUFFICES ASSUME NEW y \in net'
                 PROVE  y \in Exchange /\ y.at <= now'
                        /\ (y.state = "answered" => y.answer \in Pull)
      OBVIOUS
    <3>1. CASE y \in net
      <4>1. y \in Exchange /\ y.at <= now /\ y.at \in Nat /\ now \in Nat
            /\ (y.state = "answered" => y.answer \in Pull)
        BY <1>1, <3>1 DEF SyncTypeOK, ServerTypeOK, Exchange
      <4> QED
        BY <1>2, <4>1
    <3>2. CASE y \notin net
      BY <1>4, <3>2 DEF Served
    <3> QED
      BY <3>1, <3>2
  <2> QED
    BY <1>1, <1>2, <2>1 DEF SyncTypeOK
<1>6. Waiting'
  <2>1. \A y \in net' : y \in net \ {x} \/ (y.by = x.by /\ y.since = x.since)
    <3>1. \A y \in net' : y \in net \ {x} \/ Served(x, y)
      BY Serving
    <3> QED
      BY <3>1 DEF Served
  <2>2. \A y, z \in net' : y \notin net \ {x} /\ z \notin net \ {x} => y = z
    BY DEF HandleOp, HandlePull, RefuseBatch
  <2>3. ASSUME NEW y \in net', y.by # Nobody
        PROVE  proc'[y.by].pc = "wait" /\ proc'[y.by].since = y.since
    BY <1>1, <1>2, <2>1, <2>3 DEF Waiting
  <2>4. ASSUME NEW y \in net', NEW z \in net', y.by = z.by, y.by # Nobody
        PROVE  y = z
    <3>1. CASE y \in net \ {x} /\ z \in net \ {x}
      BY <1>1, <2>4, <3>1 DEF Waiting
    <3>2. CASE y \notin net \ {x} /\ z \notin net \ {x}
      BY <2>2, <3>2
    <3>3. CASE y \in net \ {x} /\ z \notin net \ {x}
      BY <1>1, <2>1, <2>4, <3>3 DEF Waiting
    <3>4. CASE y \notin net \ {x} /\ z \in net \ {x}
      BY <1>1, <2>1, <2>4, <3>4 DEF Waiting
    <3> QED
      BY <3>1, <3>2, <3>3, <3>4
  <2> QED
    BY <2>3, <2>4 DEF Waiting
<1>7. Agreed'
  <2>1. ASSUME NEW s \in Stores
        PROVE  Faithful(rows', seq', store[s].rows, store[s].cursor)
    <3>1. store[s].rows \in [Ids -> Row] /\ store[s].cursor \in Nat
      BY <1>1 DEF SyncTypeOK, StoreType
    <3> QED
      BY <1>1, <1>2, <1>3, <3>1, StaysFaithful DEF Agreed
  <2>2. ASSUME NEW y \in net'
        PROVE  /\ y.since <= seq'
               /\ y.state = "answered" => Covering(rows', seq', y.since, y.answer)
    <3>1. CASE y \in net
      <4>1. /\ y.since \in Nat /\ y.since <= seq
            /\ y.state = "answered" =>
                 y.answer \in Pull /\ Covering(rows, seq, y.since, y.answer)
        BY <1>1, <3>1 DEF SyncTypeOK, Exchange, Agreed
      <4> QED
        BY <1>1, <1>2, <1>3, <4>1, StaysCovering
    <3>2. CASE y \notin net
      <4>1. x.since \in Nat /\ x.since <= seq /\ y.since = x.since
        BY <1>1, <1>4, <3>2 DEF Agreed, Exchange, Served
      <4>2. ASSUME y.state = "answered"
            PROVE  Covering(rows', seq', y.since, y.answer)
        <5>1. rows' = rows /\ seq' = seq /\ y.answer = changesSince(x.since)
          BY <1>4, <3>2, <4>2 DEF serverVars
        <5> QED
          BY <1>1, <4>1, <5>1, PullIsCovering
      <4> QED
        BY <1>1, <1>3, <4>1, <4>2
    <3> QED
      BY <3>1, <3>2
  <2> QED
    BY <1>2, <2>1, <2>2 DEF Agreed
<1> QED
  BY <1>3, <1>5, <1>6, <1>7 DEF SyncInv

LEMMA HousekeepingStep ==
  ASSUME CreatedOnce(Ops), SyncInv, Housekeeping
  PROVE  SyncInv'
<1>1. /\ SyncTypeOK /\ ServerTypeOK /\ ServerSound /\ Waiting /\ Agreed
  BY DEF SyncInv, ServerSound, IInv
<1>2. [ServerNext]_serverVars /\ UNCHANGED <<store, minted, proc, lost, net>>
  BY DEF Housekeeping, ServerNext, ServerStep, clientVars
<1>3. /\ ServerSound' /\ rows' \in [Ids -> Row] /\ seq' \in Nat /\ seq <= seq'
      /\ now' \in Nat /\ now <= now' /\ now \in Nat /\ seq \in Nat
  BY <1>1, <1>2, ServerSoundStep, SeqGrows, TimeGoesOn DEF ServerTypeOK
<1>4. SyncTypeOK' /\ Waiting'
  <2>1. \A x \in net : x.at \in Nat /\ x.at <= now
    BY <1>1 DEF SyncTypeOK, Exchange
  <2>2. \A x \in net : x.at <= now'
    BY <1>3, <2>1
  <2> QED
    BY <1>1, <1>2, <2>2 DEF SyncTypeOK, Waiting
<1>5. ASSUME NEW s \in Stores
      PROVE  Faithful(rows', seq', store[s].rows, store[s].cursor)
  <2>1. store[s].rows \in [Ids -> Row] /\ store[s].cursor \in Nat
    BY <1>1 DEF SyncTypeOK, StoreType
  <2> QED
    BY <1>1, <1>2, <1>3, <2>1, StaysFaithful DEF Agreed
<1>6. ASSUME NEW x \in net
      PROVE  /\ x.since <= seq'
             /\ x.state = "answered" => Covering(rows', seq', x.since, x.answer)
  <2>1. /\ x.since \in Nat /\ x.since <= seq
        /\ x.state = "answered" => x.answer \in Pull /\ Covering(rows, seq, x.since, x.answer)
    BY <1>1 DEF SyncTypeOK, Exchange, Agreed
  <2> QED
    BY <1>1, <1>2, <1>3, <2>1, StaysCovering
<1> QED
  BY <1>2, <1>3, <1>4, <1>5, <1>6 DEF SyncInv, Agreed

----------------------------------------------------------------------------
(* A step of a process.                                                    *)

LEMMA OthersWait ==
  ASSUME SyncTypeOK, Waiting, NEW p \in Procs,
         \A q \in Procs \ {p} : proc'[q] = proc[q],
         \A y \in net' :
           \/ y \in net /\ y.by # p
           \/ y.by = Nobody
           \/ y.by = p /\ proc'[p].pc = "wait" /\ proc'[p].since = y.since,
         \A y, z \in net' : y.by = p /\ z.by = p => y = z
  PROVE  Waiting'
<1>1. \A x \in net : x.by \in Procs \cup {Nobody}
  BY DEF SyncTypeOK, Exchange
<1> QED
  BY <1>1 DEF Waiting

\* A step that leaves the server alone has to keep replicas faithful and send
\* nothing but what is known or a request from a cursor that was drawn.
LEMMA ClientStep ==
  ASSUME CreatedOnce(Ops), SyncInv, UNCHANGED serverVars, SyncTypeOK', Waiting',
         \A s \in Stores : Faithful(rows, seq, store'[s].rows, store'[s].cursor),
         \A y \in net' :
           \/ \E x \in net : y.since = x.since /\ y.state = x.state /\ y.answer = x.answer
           \/ y.since <= seq /\ y.state = "open"
  PROVE  SyncInv'
<1>1. ServerSound'
  BY ServerSoundStep DEF SyncInv
<1>2. rows' = rows /\ seq' = seq
  BY DEF serverVars
<1>3. Agreed'
  BY <1>2 DEF SyncInv, Agreed
<1> QED
  BY <1>1, <1>3 DEF SyncInv

\* What a process does on its own: the replica stays as it is.
LEMMA ReplicaKept ==
  ASSUME SyncTypeOK, NEW p \in Procs,
         \/ \E op \in Ops : Mint(p, op) \/ Drop(p, op)
         \/ StartFlush(p) \/ Report(p),
         NEW s \in Stores
  PROVE  store'[s].rows = store[s].rows /\ store'[s].cursor = store[s].cursor
<1> USE ClientsAssumption
<1>1. store[s] \in StoreType /\ store \in [Stores -> StoreType] /\ StoreOf[p] \in Stores
  BY DEF SyncTypeOK
<1>2. ASSUME NEW op \in Ops, Mint(p, op)
      PROVE  store'[s].rows = store[s].rows /\ store'[s].cursor = store[s].cursor
  BY <1>1, <1>2 DEF Mint, enqueue, StoreType
<1>3. ASSUME NEW op \in Ops, Drop(p, op)
      PROVE  store'[s].rows = store[s].rows /\ store'[s].cursor = store[s].cursor
  BY <1>1, <1>3 DEF Drop, remove, StoreType
<1>4. ASSUME Report(p)
      PROVE  store'[s].rows = store[s].rows /\ store'[s].cursor = store[s].cursor
  BY <1>1, <1>4 DEF Report, StoreType
<1>5. CASE StartFlush(p)
  BY <1>5 DEF StartFlush
<1> QED
  BY <1>2, <1>3, <1>4, <1>5

LEMMA OwnStep ==
  ASSUME CreatedOnce(Ops), SyncInv, NEW p \in Procs,
         \/ \E op \in Ops : Mint(p, op) \/ Drop(p, op)
         \/ StartFlush(p) \/ Report(p)
  PROVE  SyncInv'
<1> USE ClientsAssumption
<1>1. SyncTypeOK' /\ SyncTypeOK /\ Waiting /\ StoreOf[p] \in Stores
  BY LocalTypes DEF SyncInv
<1>2. /\ UNCHANGED serverVars /\ net' = net /\ proc[p].pc # "wait"
      /\ \A q \in Procs \ {p} : proc'[q] = proc[q]
  BY <1>1 DEF Mint, Drop, StartFlush, Report, SyncTypeOK
<1>3. Waiting'
  <2>1. \A y \in net : y.by # p
    BY <1>1, <1>2 DEF Waiting
  <2> QED
    BY <1>1, <1>2, <2>1, OthersWait
<1>4. \A s \in Stores : store'[s].rows = store[s].rows /\ store'[s].cursor = store[s].cursor
  BY <1>1, ReplicaKept
<1>5. \A s \in Stores : Faithful(rows, seq, store'[s].rows, store'[s].cursor)
  BY <1>4 DEF SyncInv, Agreed
<1> QED
  BY <1>1, <1>2, <1>3, <1>5, ClientStep

LEMMA SendStep ==
  ASSUME CreatedOnce(Ops), SyncInv, NEW p \in Procs, Send(p)
  PROVE  SyncInv'
<1> USE ClientsAssumption
<1>1. SyncTypeOK /\ Waiting /\ Agreed /\ StoreOf[p] \in Stores /\ ServerTypeOK
  BY DEF SyncInv, ServerSound, IInv
<1>2. SyncTypeOK'
  BY <1>1, SendTypes
<1> DEFINE since == store[StoreOf[p]].cursor
<1>3. PICK r : /\ net' = net \cup {r}
                /\ r.by = p /\ r.since = since /\ r.state = "open"
  <2>1. PICK ops : net' = net \cup {Request(p, since, ops)}
    BY DEF Send
  <2>2. /\ Request(p, since, ops).by = p /\ Request(p, since, ops).since = since
        /\ Request(p, since, ops).state = "open"
    BY DEF Request
  <2> QED
    BY <2>1, <2>2
<1>4. /\ UNCHANGED <<serverVars, store>> /\ proc[p].pc = "send"
      /\ \A q \in Procs \ {p} : proc'[q] = proc[q]
      /\ proc'[p].pc = "wait" /\ proc'[p].since = since
  BY <1>1 DEF Send, SyncTypeOK, Process
<1>5. \A y \in net : y.by # p
  BY <1>1, <1>4 DEF Waiting
<1>7. Waiting'
  BY <1>1, <1>3, <1>4, <1>5, OthersWait
<1>8. /\ since <= seq
      /\ \A s \in Stores : Faithful(rows, seq, store'[s].rows, store'[s].cursor)
  BY <1>1, <1>4 DEF Agreed, Faithful
<1>9. \A y \in net' : y \in net \/ (y.since <= seq /\ y.state = "open")
  BY <1>3, <1>8
<1> QED
  BY <1>2, <1>4, <1>7, <1>8, <1>9, ClientStep

LEMMA GiveUpStep ==
  ASSUME CreatedOnce(Ops), SyncInv, NEW p \in Procs, GiveUp(p)
  PROVE  SyncInv'
<1> USE ClientsAssumption
<1>1. SyncTypeOK' /\ SyncTypeOK /\ Waiting /\ Agreed
  BY LocalTypes DEF SyncInv
<1>2. /\ UNCHANGED <<serverVars, store>>
      /\ \A q \in Procs \ {p} : proc'[q] = proc[q]
  BY <1>1 DEF GiveUp, SyncTypeOK
<1> DEFINE left(x) == [x EXCEPT !.by = Nobody]
<1>3. \A y \in net' : (y \in net /\ y.by # p) \/ \E x \in net : y = left(x)
  BY DEF GiveUp, ExchangeOf
<1>4. \A x \in net : /\ left(x).by = Nobody /\ left(x).since = x.since
                     /\ left(x).state = x.state /\ left(x).answer = x.answer
  BY <1>1 DEF SyncTypeOK, Exchange
<1> HIDE DEF left
<1>5. Waiting'
  <2>1. \A y \in net' : (y \in net /\ y.by # p) \/ y.by = Nobody
    BY <1>3, <1>4
  <2> QED
    BY <1>1, <1>2, <2>1, OthersWait
<1>6. \A y \in net' :
        \E x \in net : y.since = x.since /\ y.state = x.state /\ y.answer = x.answer
  BY <1>3, <1>4
<1> QED
  BY <1>1, <1>2, <1>5, <1>6, ClientStep DEF Agreed

LEMMA AnsweredStep ==
  ASSUME CreatedOnce(Ops), SyncInv, NEW p \in Procs, Answered(p)
  PROVE  SyncInv'
<1> USE ClientsAssumption
<1>1. /\ SyncTypeOK' /\ SyncTypeOK /\ Waiting /\ Agreed /\ StoreOf[p] \in Stores
      /\ rows \in [Ids -> Row] /\ seq \in Nat
  BY AnswerTypes DEF SyncInv, ServerSound, IInv, ServerTypeOK
<1> DEFINE s == StoreOf[p]
<1>2. PICK x, v :
        /\ x \in ExchangeOf(p)
        /\ x.state = "answered"
        /\ store' = [store EXCEPT ![s] =
             applyResponse(store[s], v, x.answer, proc[p].own, proc[p].since)]
        /\ proc' = [proc EXCEPT ![p] = Continue(p)]
        /\ net' = net \ {x}
        /\ UNCHANGED serverVars
  BY DEF Answered
<1>3. /\ x \in net /\ x.by = p /\ x.answer \in Pull /\ x.since \in Nat
      /\ proc[p].since = x.since /\ store[s] \in StoreType
  BY <1>1, <1>2 DEF ExchangeOf, Waiting, SyncTypeOK, Exchange
<1> DEFINE settled == settle(store[s], v, proc[p].own)
           t == applyResponse(store[s], v, x.answer, proc[p].own, proc[p].since)
<1>4. /\ settled \in StoreType /\ settled.rows = store[s].rows
      /\ settled.cursor = store[s].cursor
  BY <1>3, SettleType
<1>5. Faithful(rows, seq, t.rows, t.cursor)
  <2>1. Faithful(rows, seq, settled.rows, settled.cursor)
    BY <1>1, <1>4 DEF Agreed
  <2>2. Covering(rows, seq, x.since, x.answer)
    BY <1>1, <1>2, <1>3 DEF Agreed
  <2>3. CASE settled.cursor < x.since
    BY <1>3, <2>1, <2>3 DEF applyResponse
  <2>4. CASE x.since <= settled.cursor
    <3>1. ~(settled.cursor < x.since)
      BY <1>3, <1>4, <2>4 DEF StoreType
    <3>2. t = advanceCursor(mergeChanges(settled, x.answer.changes), x.answer.cursor)
      BY <1>3, <3>1 DEF applyResponse
    <3> HIDE DEF settled, t
    <3> QED
      BY <1>1, <1>3, <1>4, <2>1, <2>2, <2>4, <3>2, MergeIsFaithful
  <2> QED
    BY <1>3, <1>4, <2>3, <2>4 DEF StoreType
<1>6. \A r \in Stores : Faithful(rows, seq, store'[r].rows, store'[r].cursor)
  <2> HIDE DEF t
  <2>1. store' = [store EXCEPT ![s] = t]
    BY <1>2 DEF t
  <2> QED
    BY <1>1, <1>5, <2>1 DEF Agreed, SyncTypeOK
<1>7. Waiting'
  <2>1. \A y \in net' : y \in net /\ y.by # p
    BY <1>1, <1>2, <1>3 DEF Waiting
  <2>2. \A q \in Procs \ {p} : proc'[q] = proc[q]
    BY <1>1, <1>2 DEF SyncTypeOK
  <2> QED
    BY <1>1, <2>1, <2>2, OthersWait
<1>8. \A y \in net' : y \in net
  BY <1>2
<1> QED
  BY <1>1, <1>2, <1>6, <1>7, <1>8, ClientStep

LEMMA AnsweredGoneStep ==
  ASSUME CreatedOnce(Ops), SyncInv, NEW p \in Procs, AnsweredGone(p)
  PROVE  SyncInv'
<1> USE ClientsAssumption
<1>1. /\ SyncTypeOK' /\ SyncTypeOK /\ Waiting /\ Agreed /\ StoreOf[p] \in Stores
      /\ rows \in [Ids -> Row] /\ seq \in Nat
  BY AnswerTypes DEF SyncInv, ServerSound, IInv, ServerTypeOK
<1> DEFINE s == StoreOf[p]
<1>2. PICK x \in ExchangeOf(p) :
        \/ /\ net' = net \ {x} /\ UNCHANGED store
        \/ /\ store' = [store EXCEPT ![s] = resetReplica(store[s])]
           /\ proc' = [proc EXCEPT ![p] = [proc[p] EXCEPT !.since = 0, !.retried = TRUE]]
           /\ net' = (net \ {x}) \cup {Request(p, 0, x.ops)}
  BY <1>1 DEF AnsweredGone, SyncTypeOK
<1>3. /\ x \in net /\ x.by = p /\ UNCHANGED serverVars /\ proc[p].pc = "wait"
      /\ \A q \in Procs \ {p} : proc'[q] = proc[q]
      /\ proc[p] \in Process /\ store[s] \in StoreType
  BY <1>1, <1>2 DEF ExchangeOf, AnsweredGone, Waiting, SyncTypeOK
<1>4. /\ Request(p, 0, x.ops).by = p /\ Request(p, 0, x.ops).since = 0
      /\ Request(p, 0, x.ops).state = "open"
  BY DEF Request
<1>5. \A y \in net \ {x} : y.by # p
  BY <1>1, <1>3 DEF Waiting
<1>6. CASE net' = net \ {x} /\ UNCHANGED store
  <2>1. Waiting'
    BY <1>1, <1>3, <1>5, <1>6, OthersWait
  <2>2. \A y \in net' : y \in net
    BY <1>6
  <2> QED
    BY <1>1, <1>3, <1>6, <2>1, <2>2, ClientStep DEF Agreed
<1>7. CASE /\ store' = [store EXCEPT ![s] = resetReplica(store[s])]
           /\ proc' = [proc EXCEPT ![p] = [proc[p] EXCEPT !.since = 0, !.retried = TRUE]]
           /\ net' = (net \ {x}) \cup {Request(p, 0, x.ops)}
  <2>1. proc'[p].pc = "wait" /\ proc'[p].since = 0
    BY <1>1, <1>3, <1>7 DEF SyncTypeOK, Process
  <2>2. Waiting'
    BY <1>1, <1>3, <1>4, <1>5, <1>7, <2>1, OthersWait
  <2> DEFINE t == resetReplica(store[s])
  <2>3. t.cursor = 0 /\ t.rows = [i \in Ids |-> NoRow]
    BY <1>3 DEF resetReplica, StoreType
  <2>4. Faithful(rows, seq, t.rows, t.cursor)
    <3>1. NoRow.seq = 0 /\ \A i \in Ids : rows[i].seq \in Nat
      BY <1>1 DEF NoRow, Row
    <3>2. \A i \in Ids : Live(rows[i]) => rows[i].seq > 0
      BY DEF SyncInv, ServerSound, Numbered, Live
    <3> QED
      BY <1>1, <2>3, <3>1, <3>2 DEF Faithful, Past, Complete, Visible
  <2>5. \A r \in Stores : Faithful(rows, seq, store'[r].rows, store'[r].cursor)
    BY <1>1, <1>7, <2>4 DEF Agreed, SyncTypeOK
  <2>6. \A y \in net' : y \in net \/ (y.since <= seq /\ y.state = "open")
    BY <1>1, <1>4, <1>7
  <2> QED
    BY <1>1, <1>3, <2>2, <2>5, <2>6, ClientStep
<1> QED
  BY <1>2, <1>6, <1>7

LEMMA AnsweredRefusedStep ==
  ASSUME CreatedOnce(Ops), SyncInv, NEW p \in Procs, AnsweredRefused(p)
  PROVE  SyncInv'
<1> USE ClientsAssumption
<1>1. /\ SyncTypeOK' /\ SyncTypeOK /\ Waiting /\ Agreed /\ StoreOf[p] \in Stores
  BY AnswerTypes DEF SyncInv, ServerSound, IInv
<1> DEFINE s == StoreOf[p]
<1>2. PICK x, v :
        /\ x \in ExchangeOf(p)
        /\ store' = [store EXCEPT ![s] = settle(store[s], v, proc[p].own)]
        /\ net' = net \ {x}
        /\ UNCHANGED serverVars
  BY DEF AnsweredRefused
<1>3. /\ x \in net /\ x.by = p /\ store[s] \in StoreType
      /\ \A q \in Procs \ {p} : proc'[q] = proc[q]
  BY <1>1, <1>2 DEF ExchangeOf, AnsweredRefused, SyncTypeOK
<1>4. Waiting'
  <2>1. \A y \in net' : y \in net /\ y.by # p
    BY <1>1, <1>2, <1>3 DEF Waiting
  <2> QED
    BY <1>1, <1>3, <2>1, OthersWait
<1>5. \A r \in Stores : store'[r].rows = store[r].rows /\ store'[r].cursor = store[r].cursor
  BY <1>1, <1>2, <1>3, SettleType DEF SyncTypeOK
<1>6. \A r \in Stores : Faithful(rows, seq, store'[r].rows, store'[r].cursor)
  BY <1>1, <1>5 DEF Agreed
<1>7. \A y \in net' : y \in net
  BY <1>2
<1> QED
  BY <1>1, <1>2, <1>4, <1>6, <1>7, ClientStep

LEMMA SyncInvStep ==
  ASSUME CreatedOnce(Ops), SyncInv, [Next]_vars
  PROVE  SyncInv'
<1>1. ASSUME NEW p \in Procs,
             \/ \E op \in Ops : Mint(p, op) \/ Drop(p, op)
             \/ StartFlush(p) \/ Send(p) \/ Report(p) \/ GiveUp(p)
             \/ Answered(p) \/ AnsweredGone(p) \/ AnsweredRefused(p)
      PROVE  SyncInv'
  BY <1>1, OwnStep, SendStep, GiveUpStep, AnsweredStep, AnsweredGoneStep, AnsweredRefusedStep
<1>2. ASSUME NEW x \in net, HandleOp(x) \/ HandlePull(x) \/ RefuseBatch(x)
      PROVE  SyncInv'
  BY <1>2, ServeStep
<1>3. CASE Housekeeping
  BY <1>3, HousekeepingStep
<1>4. CASE UNCHANGED vars
  <2>1. UNCHANGED serverVars /\ UNCHANGED <<store, minted, proc, lost, net>>
    BY <1>4 DEF vars, clientVars
  <2>2. SyncTypeOK' /\ Waiting'
    BY <2>1 DEF SyncInv, SyncTypeOK, Waiting, serverVars
  <2>3. /\ \A s \in Stores : Faithful(rows, seq, store'[s].rows, store'[s].cursor)
        /\ \A y \in net' : y \in net
    BY <2>1 DEF SyncInv, Agreed
  <2> QED
    BY <2>1, <2>2, <2>3, ClientStep
<1> QED
  BY <1>1, <1>2, <1>3, <1>4 DEF Next

LEMMA SyncInvCorrect == CreatedOnce(Ops) => (Spec => []SyncInv)
<1> SUFFICES ASSUME CreatedOnce(Ops) PROVE Spec => []SyncInv
  OBVIOUS
<1>1. Init => SyncInv
  BY SyncInvInit
<1>2. SyncInv /\ [Next]_vars => SyncInv'
  BY SyncInvStep
<1> QED
  BY <1>1, <1>2, PTL DEF Spec

\* However many processes share a store, whatever is lost, late or started
\* over: a row a client may see, numbered up to the cursor, is in the replica
\* as the server has it (Store.applyResponse).
THEOREM ReplicasAreComplete == CreatedOnce(Ops) => (Spec => []ReplicaComplete)
<1> SUFFICES ASSUME CreatedOnce(Ops) PROVE Spec => []ReplicaComplete
  OBVIOUS
<1>1. SyncInv => ReplicaComplete
  BY DEF SyncInv, Agreed, Faithful, Complete, ReplicaComplete
<1> QED
  BY <1>1, SyncInvCorrect, PTL

\* Seen from the server, clients of any number are steps of SyncServer: what
\* is proved of it holds here.
THEOREM ServerIsImplemented == CreatedOnce(Ops) => (Spec => ServerSpec)
<1> SUFFICES ASSUME CreatedOnce(Ops) PROVE Spec => ServerSpec
  OBVIOUS
<1>1. Init => ServerInit
  BY DEF Init
<1>2. SyncInv /\ [Next]_vars => [ServerNext]_serverVars
  BY ServerMoves DEF SyncInv, ServerSound, IInv
<1> QED
  BY <1>1, <1>2, SyncInvCorrect, PTL DEF Spec, ServerSpec

----------------------------------------------------------------------------
(* No ghosts.  K is the set of ids something was ever applied to, wm the   *)
(* prune watermark.                                                        *)

Known(ap) == {i \in Ids : \E op \in Ops : op.id = i /\ ap[op] = "applied"}

\* A replica's rows are rows the server held at some time.
Genuine(K, r) ==
  \A i \in Ids : Exists(r[i]) =>
    /\ r[i].seq > 0 /\ i \in K
    /\ IsDerived(i) => \A f \in Owners(i) :
         /\ r[i].val[f] = KeyOf[i][f]
         /\ KeyOf[i][f] # Null => KeyOf[i][f] \in K /\ ~IsDerived(KeyOf[i][f])

\* A live derived-id row whose task or tag the replica does not show belongs
\* to one that is gone for good.
Buried(rs, r) ==
  \A i \in Ids : Live(r[i]) /\ IsDerived(i) =>
    \A f \in Owners(i) : r[i].val[f] # Null =>
      Live(r[r[i].val[f]]) \/ ~Live(rs[r[i].val[f]])

GhostFree(rs, wm, r, c) ==
  c >= wm => \A i \in Ids : Visible(r, i) => rs[i] = r[i] \/ rs[i].seq > c

Tended(rs, wm, K, r, c) == Genuine(K, r) /\ Buried(rs, r) /\ GhostFree(rs, wm, r, c)

LEMMA KnownApplied ==
  /\ \A i \in Known(applied) : i \in Ids /\ AppliedTo(i) # {}
  /\ \A i \in Ids : AppliedTo(i) # {} => i \in Known(applied)
BY DEF Known, AppliedTo

LEMMA WatermarkGrows ==
  ASSUME IInv, [ServerNext]_serverVars
  PROVE  watermark' \in Nat /\ watermark <= watermark'
<1>1. watermark' = watermark \/ \E at : pruneUser(at)
  BY DEF ServerNext, ServerStep, applyOne, Fail, Replay, RecordRefusal, Write,
         RollBack, Tick, serverVars
<1>2. watermark \in Nat /\ \A i \in Ids : rows[i].seq \in Nat
  BY DEF IInv, ServerTypeOK, Row
<1>3. ASSUME NEW at, pruneUser(at)
      PROVE  watermark' \in Nat /\ watermark <= watermark'
  <2>1. Highest(watermark', {watermark} \cup {rows[i].seq : i \in prunable(at)})
    BY <1>3 DEF pruneUser
  <2>2. {watermark} \cup {rows[i].seq : i \in prunable(at)} \subseteq Nat
    BY <1>2, PrunableTombstoned
  <2> QED
    BY <2>1, <2>2 DEF Highest
<1> QED
  BY <1>1, <1>2, <1>3

\* What the server does leaves a replica without ghosts.
LEMMA StaysTended ==
  ASSUME CreatedOnce(Ops), ServerSound, [ServerNext]_serverVars, rows' \in [Ids -> Row],
         NEW r \in [Ids -> Row], NEW c \in Nat, c <= seq,
         Tended(rows, watermark, Known(applied), r, c)
  PROVE  Tended(rows', watermark', Known(applied'), r, c)
<1>1. /\ IInv /\ ServerTypeOK /\ History /\ Keyed /\ seq \in Nat /\ watermark \in Nat
      /\ watermark' \in Nat /\ watermark <= watermark'
      /\ \A i \in Ids : rows[i].seq \in Nat
  BY WatermarkGrows DEF ServerSound, IInv, ServerTypeOK, History, Row
<1>2. Known(applied) \subseteq Known(applied')
  BY <1>1, AppliedKept DEF Known, AppliedTo
<1>3. Genuine(Known(applied'), r)
  BY <1>2 DEF Tended, Genuine
<1>4. Buried(rows', r)
  <2> SUFFICES ASSUME NEW i \in Ids, Live(r[i]), IsDerived(i), NEW f \in Owners(i),
                      r[i].val[f] # Null, ~Live(r[r[i].val[f]])
               PROVE  ~Live(rows'[r[i].val[f]])
    BY DEF Buried
  <2>1. ~Live(rows[r[i].val[f]])
    BY DEF Tended, Buried
  <2>2. r[i].val[f] \in Known(applied)
    BY DEF Tended, Genuine, Live
  <2> QED
    BY <1>1, <2>1, <2>2, KnownApplied, StaysDead
<1>5. ASSUME c >= watermark', NEW i \in Ids, Visible(r, i)
      PROVE  rows'[i] = r[i] \/ rows'[i].seq > c
  <2>1. c >= watermark
    BY <1>1, <1>5
  <2>2. \A j \in Ids : Visible(r, j) => rows[j] = r[j] \/ rows[j].seq > c
    BY <2>1 DEF Tended, GhostFree
  <2>3. ASSUME NEW op \in Ops, NEW at \in Nat \ {0}, Write(op, at)
        PROVE  rows'[i] = r[i] \/ rows'[i].seq > c
    <3>1. rows'[i] = rows[i] \/ rows'[i].seq = seq + 1
      BY <1>1, <2>3, WriteRows
    <3> QED
      BY <1>1, <1>5, <2>2, <3>1
  <2>4. ASSUME NEW at, pruneUser(at)
        PROVE  rows'[i] = r[i] \/ rows'[i].seq > c
    <3>1. \A j \in prunable(at) : /\ j \in Ids /\ Tombstoned(rows[j])
                                  /\ rows[j].seq <= watermark'
      BY <2>4, PrunableTombstoned DEF pruneUser, Highest
    <3>2. \A j \in prunable(at) : ~Visible(r, j)
      BY <1>1, <1>5, <2>2, <3>1 DEF Visible, Live
    <3>3. i \notin cascaded(prunable(at))
      <4> SUFFICES ASSUME i \in cascaded(prunable(at)) PROVE FALSE
        OBVIOUS
      <4>1. IsDerived(i) /\ Exists(rows[i])
        BY DEF cascaded
      <4>2. PICK f \in Owners(i) : KeyOf[i][f] # Null /\ KeyOf[i][f] \in prunable(at)
        BY <1>1, <4>1, PrunedWithOwner
      <4>3. r[i].val[f] = KeyOf[i][f] /\ ~IsDerived(KeyOf[i][f])
        BY <1>5, <4>1, <4>2 DEF Tended, Genuine, Visible, Live
      <4>4. Visible(r, KeyOf[i][f])
        BY <1>5, <4>1, <4>2, <4>3 DEF Visible, Owners
      <4> QED
        BY <3>2, <4>2, <4>4
    <3>4. CASE i \in prunable(at)
      BY <1>5, <3>2, <3>4
    <3>5. CASE i \notin prunable(at)
      <4>1. rows'[i].seq = rows[i].seq
        BY <1>1, <2>4, <3>3, <3>5, PrunedRow
      <4>2. rows[i] = r[i] => Live(rows[i])
        BY <1>5 DEF Visible
      <4> QED
        BY <1>1, <1>5, <2>2, <2>4, <3>3, <4>1, <4>2, PruneKeepsLive
    <3> QED
      BY <3>4, <3>5
  <2>5. CASE rows' = rows
    BY <1>5, <2>2, <2>5
  <2> QED
    BY <1>1, <2>3, <2>4, <2>5, ServerSteps
<1> QED
  BY <1>3, <1>4, <1>5 DEF Tended, GhostFree

\* What the client makes of its replica when it takes an answer in.
Merged(s, a) == advanceCursor(mergeChanges(s, a.changes), a.cursor)

\* A replica that pulls from its own cursor, and is not told to start over,
\* is without ghosts once it has taken the answer in.
LEMMA PullTends ==
  ASSUME ServerSound, NEW s \in StoreType, ~Gone(s.cursor),
         Faithful(rows, seq, s.rows, s.cursor),
         Tended(rows, watermark, Known(applied), s.rows, s.cursor)
  PROVE  LET t == Merged(s, changesSince(s.cursor))
         IN  Tended(rows, watermark, Known(applied), t.rows, t.cursor)
<1> DEFINE since == s.cursor
           r == s.rows
           a == changesSince(since)
           t == Merged(s, a)
           delivered == {i \in Ids : IF since = 0 THEN Visible(rows, i)
                                                  ELSE rows[i].seq > since}
<1>1. /\ IInv /\ ServerTypeOK /\ Begun /\ Keyed /\ Numbered
      /\ since \in Nat /\ since <= seq /\ watermark \in Nat
      /\ \A i \in Ids : rows[i].seq \in Nat /\ r[i].seq \in Nat /\ r[i].seq <= since
  BY DEF ServerSound, IInv, ServerTypeOK, History, StoreType, Row, Faithful
<1>2. /\ a \in Pull /\ since <= a.cursor
      /\ DOMAIN a.changes = delivered
      /\ \A i \in DOMAIN a.changes : a.changes[i] = rows[i]
  BY <1>1, PullOf
<1> HIDE DEF a
<1>3. \A i \in Ids : t.rows[i] = IF i \in DOMAIN a.changes /\ a.changes[i].seq > r[i].seq
                                 THEN a.changes[i] ELSE r[i]
  BY <1>2, MergeType DEF Merged
<1> HIDE DEF t
<1>4. \A i \in delivered : i \in Ids /\ rows[i].seq > r[i].seq
  <2>1. \A i \in Ids : Visible(rows, i) => rows[i].seq > 0
    BY <1>1 DEF Numbered, Visible, Live
  <2> SUFFICES ASSUME NEW i \in delivered PROVE i \in Ids /\ rows[i].seq > r[i].seq
    OBVIOUS
  <2>2. i \in Ids
    OBVIOUS
  <2>3. /\ r[i].seq <= since /\ since \in Nat /\ r[i].seq \in Nat /\ rows[i].seq \in Nat
        /\ since = 0 => rows[i].seq > 0
        /\ since # 0 => rows[i].seq > since
    BY <1>1, <2>1, <2>2
  <2> QED
    BY <2>2, <2>3
<1>5. \A i \in Ids : t.rows[i] = IF i \in delivered THEN rows[i] ELSE r[i]
  BY <1>2, <1>3, <1>4
<1>6. \A i \in Ids : Exists(rows[i]) => i \in Known(applied)
  BY <1>1, KnownApplied DEF Begun, Created
<1>7. Genuine(Known(applied), t.rows)
  <2> SUFFICES ASSUME NEW i \in Ids, i \in delivered, Exists(rows[i])
               PROVE  /\ rows[i].seq > 0 /\ i \in Known(applied)
                      /\ IsDerived(i) => \A f \in Owners(i) :
                           /\ rows[i].val[f] = KeyOf[i][f]
                           /\ KeyOf[i][f] # Null =>
                                KeyOf[i][f] \in Known(applied) /\ ~IsDerived(KeyOf[i][f])
    BY <1>5 DEF Tended, Genuine
  <2>1. rows[i].seq > 0 /\ i \in Known(applied)
    BY <1>1, <1>6 DEF Numbered
  <2>2. ASSUME IsDerived(i), NEW f \in Owners(i)
        PROVE  /\ rows[i].val[f] = KeyOf[i][f]
               /\ KeyOf[i][f] # Null =>
                    KeyOf[i][f] \in Known(applied) /\ ~IsDerived(KeyOf[i][f])
    <3>1. f \in derivedIdKeys(i) /\ f \in {"taskId", "tagId"}
      BY DEF Owners
    <3>2. rows[i].val[f] = KeyOf[i][f]
      BY <1>1, <2>2, <3>1 DEF Keyed
    <3>3. KeyOf[i][f] # Null => KeyOf[i][f] \in Ids /\ Exists(rows[KeyOf[i][f]])
      BY <1>1, <2>2 DEF Keyed
    <3>4. KeyOf[i][f] # Null => ~IsDerived(KeyOf[i][f])
      BY <1>1, <2>2, <3>1, <3>2, OwnerIsNotDerived
    <3> QED
      BY <1>6, <3>2, <3>3, <3>4
  <2> QED
    BY <2>1, <2>2
<1>8. ASSUME NEW i \in Ids, Live(t.rows[i]), IsDerived(i), NEW f \in Owners(i),
             t.rows[i].val[f] # Null
      PROVE  t.rows[i].val[f] \in Ids /\ ~IsDerived(t.rows[i].val[f])
  BY <1>7, <1>8, KnownApplied DEF Genuine, Live
<1>9. Buried(rows, t.rows)
  <2> SUFFICES ASSUME NEW i \in Ids, Live(t.rows[i]), IsDerived(i), NEW f \in Owners(i),
                      t.rows[i].val[f] # Null, Live(rows[t.rows[i].val[f]])
               PROVE  Live(t.rows[t.rows[i].val[f]])
    BY DEF Buried
  <2> DEFINE o == t.rows[i].val[f]
  <2>1. o \in Ids /\ Visible(rows, o)
    BY <1>8 DEF Visible
  <2>2. CASE o \in delivered
    BY <1>5, <2>1, <2>2
  <2>3. CASE o \notin delivered
    <3>1. rows[o].seq <= since
      BY <1>1, <2>1, <2>3
    <3>2. r[o] = rows[o]
      BY <2>1, <3>1 DEF Faithful, Complete
    <3> QED
      BY <1>5, <2>1, <3>2
  <2> QED
    BY <2>2, <2>3
<1>10. ASSUME NEW i \in Ids, Visible(t.rows, i), i \notin delivered
       PROVE  rows[i] = r[i]
  <2>1. t.rows[i] = r[i] /\ Live(r[i])
    BY <1>5, <1>10 DEF Visible
  <2>2. since # 0
    BY <1>1, <2>1 DEF Tended, Genuine, Live
  <2>3. since >= watermark /\ rows[i].seq <= since
    BY <1>1, <1>10, <2>2 DEF Gone
  <2>4. ASSUME IsDerived(i), NEW f \in {"taskId", "tagId"} \cap derivedIdKeys(i),
               r[i].val[f] # Null
        PROVE  Live(r[r[i].val[f]])
    <3> DEFINE o == r[i].val[f]
    <3>1. o \in Ids /\ Live(t.rows[o]) /\ f \in Owners(i)
      BY <1>8, <1>10, <2>1, <2>4 DEF Visible, Owners
    <3>2. CASE o \in delivered
      BY <1>5, <2>1, <2>4, <3>1, <3>2 DEF Tended, Buried
    <3>3. CASE o \notin delivered
      BY <1>5, <3>1, <3>3
    <3> QED
      BY <3>2, <3>3
  <2>5. Visible(r, i)
    BY <2>1, <2>4 DEF Visible
  <2> QED
    BY <1>1, <2>3, <2>5 DEF Tended, GhostFree
<1>11. GhostFree(rows, watermark, t.rows, t.cursor)
  BY <1>5, <1>10 DEF GhostFree
<1> QED
  BY <1>7, <1>9, <1>11 DEF Tended, t, a

\* Taking an answer in depends on the replica only, not on the outbox.
LEMMA MergedReplica ==
  ASSUME NEW s \in StoreType, NEW u \in StoreType, NEW a \in Pull,
         s.rows = u.rows, s.cursor = u.cursor
  PROVE  /\ Merged(s, a).rows = Merged(u, a).rows
         /\ Merged(s, a).cursor = Merged(u, a).cursor
BY DEF Merged, advanceCursor, mergeChanges, StoreType

LEMMA EmptyTended ==
  ASSUME NEW c \in Nat
  PROVE  Tended(rows, watermark, Known(applied), [i \in Ids |-> NoRow], c)
<1>1. ~Exists(NoRow)
  BY DEF Exists, NoRow
<1> QED
  BY <1>1 DEF Tended, Genuine, Buried, GhostFree, Visible, Live

\* Every process has its store to itself.
Solo == \A p, q \in Procs : StoreOf[p] = StoreOf[q] => p = q

\* Nobody moves a replica while its process waits for an answer, and with the
\* answer taken in it is without ghosts, too.
Tending ==
  /\ \A s \in Stores :
       Tended(rows, watermark, Known(applied), store[s].rows, store[s].cursor)
  /\ \A x \in net : x.by # Nobody =>
       LET s == store[StoreOf[x.by]]
           t == Merged(s, x.answer)
       IN  /\ x.since = s.cursor
           /\ x.state = "answered" =>
                Tended(rows, watermark, Known(applied), t.rows, t.cursor)

LEMMA TendingInit == Init => Tending
<1> SUFFICES ASSUME Init PROVE Tending
  OBVIOUS
<1>1. \A s \in Stores : store[s].rows = [i \in Ids |-> NoRow] /\ store[s].cursor = 0
  BY DEF Init, EmptyStore
<1>2. net = {}
  BY DEF Init
<1> QED
  BY <1>1, <1>2, EmptyTended DEF Tending

LEMMA StoreOfExchange ==
  ASSUME SyncTypeOK, NEW x \in net, x.by # Nobody
  PROVE  /\ x.by \in Procs /\ StoreOf[x.by] \in Stores
         /\ store[StoreOf[x.by]] \in StoreType
BY ClientsAssumption DEF SyncTypeOK, Exchange

\* What the server does while the stores stay as they are.
LEMMA ServerTends ==
  ASSUME CreatedOnce(Ops), SyncInv, Tending, [ServerNext]_serverVars, store' = store,
         \A y \in net' :
           \/ y \in net
           \/ y.by = Nobody
           \/ \E x \in net :
                /\ y.by = x.by /\ y.since = x.since
                /\ y.state = "answered" =>
                     /\ UNCHANGED serverVars
                     /\ ~Gone(x.since) /\ y.answer = changesSince(x.since)
  PROVE  Tending'
<1> DEFINE tended(r, c) == Tended(rows, watermark, Known(applied), r, c)
           tendedNext(r, c) == Tended(rows', watermark', Known(applied'), r, c)
<1>1. /\ SyncTypeOK /\ ServerSound /\ Agreed /\ rows' \in [Ids -> Row]
      /\ seq \in Nat
  BY ServerSoundStep DEF SyncInv, ServerSound, IInv, ServerTypeOK
<1>2. ASSUME NEW r \in [Ids -> Row], NEW c \in Nat, c <= seq, tended(r, c)
      PROVE  tendedNext(r, c)
  BY <1>1, <1>2, StaysTended
<1>3. ASSUME NEW s \in Stores
      PROVE  tendedNext(store'[s].rows, store'[s].cursor)
  <2>1. /\ store[s].rows \in [Ids -> Row] /\ store[s].cursor \in Nat
        /\ store[s].cursor <= seq
    BY <1>1 DEF SyncTypeOK, StoreType, Agreed, Faithful
  <2> QED
    BY <1>2, <2>1 DEF Tending
<1>4. ASSUME NEW x \in net, x.by # Nobody, x.state = "answered"
      PROVE  LET t == Merged(store[StoreOf[x.by]], x.answer)
             IN  tendedNext(t.rows, t.cursor)
  <2> DEFINE s == store[StoreOf[x.by]]
             t == Merged(s, x.answer)
  <2>1. x.answer \in Pull /\ s \in StoreType /\ x.answer.cursor <= seq /\ s.cursor <= seq
    BY <1>1, <1>4, StoreOfExchange DEF SyncTypeOK, Agreed, Faithful, Covering
  <2>2. t \in StoreType /\ (t.cursor = x.answer.cursor \/ t.cursor = s.cursor)
    BY <2>1, MergeType DEF Merged
  <2>3. t.rows \in [Ids -> Row] /\ t.cursor \in Nat /\ t.cursor <= seq
    BY <2>1, <2>2 DEF StoreType
  <2>4. tended(t.rows, t.cursor)
    BY <1>4 DEF Tending
  <2> QED
    BY <1>2, <2>3, <2>4
<1>5. ASSUME NEW y \in net', y.by # Nobody
      PROVE  LET s == store[StoreOf[y.by]]
                 t == Merged(s, y.answer)
             IN  /\ y.since = s.cursor
                 /\ y.state = "answered" => tendedNext(t.rows, t.cursor)
  <2>1. CASE y \in net
    BY <1>4, <1>5, <2>1 DEF Tending
  <2>2. ASSUME NEW x \in net, y.by = x.by, y.since = x.since,
               y.state = "answered" =>
                 /\ UNCHANGED serverVars
                 /\ ~Gone(x.since) /\ y.answer = changesSince(x.since)
        PROVE  LET s == store[StoreOf[y.by]]
                   t == Merged(s, y.answer)
               IN  /\ y.since = s.cursor
                   /\ y.state = "answered" => tendedNext(t.rows, t.cursor)
    <3> DEFINE s == store[StoreOf[x.by]]
               t == Merged(s, changesSince(s.cursor))
    <3>1. x.since = s.cursor
      BY <1>5, <2>2 DEF Tending
    <3>2. /\ s \in StoreType /\ Faithful(rows, seq, s.rows, s.cursor)
          /\ tended(s.rows, s.cursor)
      BY <1>1, <1>5, <2>2, StoreOfExchange DEF Tending, Agreed
    <3>3. ~Gone(s.cursor) => tended(t.rows, t.cursor)
      BY <1>1, <3>2, PullTends
    <3>4. UNCHANGED serverVars => rows' = rows /\ watermark' = watermark /\ applied' = applied
      BY DEF serverVars
    <3> QED
      BY <2>2, <3>1, <3>3, <3>4
  <2> QED
    BY <1>5, <2>1, <2>2
<1> HIDE DEF tendedNext
<1>6. \A s \in Stores : tendedNext(store'[s].rows, store'[s].cursor)
  BY <1>3
<1>7. \A y \in net' : y.by # Nobody =>
        LET s == store'[StoreOf[y.by]]
            t == Merged(s, y.answer)
        IN  /\ y.since = s.cursor
            /\ y.state = "answered" => tendedNext(t.rows, t.cursor)
  BY <1>5
<1> QED
  BY <1>6, <1>7 DEF Tending, tendedNext, Merged, advanceCursor, mergeChanges

\* What the clients do while the server stays as it is.
LEMMA ClientTends ==
  ASSUME SyncInv, Tending, UNCHANGED serverVars, SyncTypeOK',
         \A s \in Stores :
           Tended(rows, watermark, Known(applied), store'[s].rows, store'[s].cursor),
         \A y \in net' : y.by # Nobody =>
           \/ /\ y \in net
              /\ store'[StoreOf[y.by]].rows = store[StoreOf[y.by]].rows
              /\ store'[StoreOf[y.by]].cursor = store[StoreOf[y.by]].cursor
           \/ y.state = "open" /\ y.since = store'[StoreOf[y.by]].cursor
  PROVE  Tending'
<1> DEFINE tended(r, c) == Tended(rows, watermark, Known(applied), r, c)
<1>1. rows' = rows /\ watermark' = watermark /\ Known(applied)' = Known(applied)
  BY DEF serverVars, Known
<1>2. ASSUME NEW y \in net', y.by # Nobody
      PROVE  LET s == store'[StoreOf[y.by]]
                 t == Merged(s, y.answer)
             IN  /\ y.since = s.cursor
                 /\ y.state = "answered" => tended(t.rows, t.cursor)
  <2> DEFINE s == store[StoreOf[y.by]]
             u == store'[StoreOf[y.by]]
  <2>1. CASE y \in net /\ u.rows = s.rows /\ u.cursor = s.cursor
    <3>1. s \in StoreType /\ u \in StoreType
      BY <1>2, <2>1, StoreOfExchange DEF SyncInv, SyncTypeOK
    <3>2. y.since = u.cursor
      BY <1>2, <2>1 DEF Tending
    <3>3. ASSUME y.state = "answered"
          PROVE  tended(Merged(u, y.answer).rows, Merged(u, y.answer).cursor)
      <4>1. y.answer \in Pull
        BY <2>1, <3>3 DEF SyncInv, SyncTypeOK
      <4>2. /\ Merged(u, y.answer).rows = Merged(s, y.answer).rows
            /\ Merged(u, y.answer).cursor = Merged(s, y.answer).cursor
        BY <2>1, <3>1, <4>1, MergedReplica
      <4> QED
        BY <1>2, <2>1, <3>3, <4>2 DEF Tending
    <3> QED
      BY <3>2, <3>3
  <2>2. CASE y.state = "open" /\ y.since = u.cursor
    BY <2>2
  <2> QED
    BY <1>2, <2>1, <2>2
<1> HIDE DEF tended
<1>3. /\ \A s \in Stores : tended(store'[s].rows, store'[s].cursor)
      /\ \A y \in net' : y.by # Nobody =>
           LET s == store'[StoreOf[y.by]]
               t == Merged(s, y.answer)
           IN  /\ y.since = s.cursor
               /\ y.state = "answered" => tended(t.rows, t.cursor)
  BY <1>2 DEF tended
<1> QED
  BY <1>1, <1>3 DEF Tending, tended, Merged, advanceCursor, mergeChanges

LEMMA ProcessTends ==
  ASSUME CreatedOnce(Ops), Solo, SyncInv, Tending, SyncTypeOK', NEW p \in Procs,
         \/ \E op \in Ops : Mint(p, op) \/ Drop(p, op)
         \/ StartFlush(p) \/ Send(p) \/ Report(p) \/ GiveUp(p)
         \/ Answered(p) \/ AnsweredGone(p) \/ AnsweredRefused(p)
  PROVE  Tending'
<1> USE ClientsAssumption
<1> DEFINE s == StoreOf[p]
           tended(r, c) == Tended(rows, watermark, Known(applied), r, c)
<1>1. /\ SyncTypeOK /\ Waiting /\ Agreed /\ s \in Stores /\ store[s] \in StoreType
      /\ proc[p] \in Process /\ \A q \in Stores : tended(store[q].rows, store[q].cursor)
  BY DEF SyncInv, SyncTypeOK, Tending
<1>2. ASSUME \/ \E op \in Ops : Mint(p, op) \/ Drop(p, op)
             \/ StartFlush(p) \/ Report(p)
      PROVE  Tending'
  <2>1. UNCHANGED serverVars /\ net' = net
    BY <1>2 DEF Mint, Drop, StartFlush, Report
  <2>2. \A q \in Stores : store'[q].rows = store[q].rows /\ store'[q].cursor = store[q].cursor
    BY <1>1, <1>2, ReplicaKept
  <2>3. \A y \in net : y.by # Nobody => StoreOf[y.by] \in Stores
    BY <1>1, StoreOfExchange
  <2> QED
    BY <1>1, <2>1, <2>2, <2>3, ClientTends
<1>3. CASE Send(p)
  <2>1. PICK ops : net' = net \cup {Request(p, store[s].cursor, ops)}
    BY <1>3 DEF Send
  <2>2. /\ Request(p, store[s].cursor, ops).by = p
        /\ Request(p, store[s].cursor, ops).since = store[s].cursor
        /\ Request(p, store[s].cursor, ops).state = "open"
    BY DEF Request
  <2>3. UNCHANGED serverVars /\ store' = store
    BY <1>3 DEF Send
  <2> QED
    BY <1>1, <2>1, <2>2, <2>3, ClientTends
<1>4. CASE GiveUp(p)
  <2>1. UNCHANGED serverVars /\ store' = store
    BY <1>4 DEF GiveUp
  <2> DEFINE left(x) == [x EXCEPT !.by = Nobody]
  <2>2. \A y \in net' : y \in net \/ \E x \in net : y = left(x)
    BY <1>4 DEF GiveUp, ExchangeOf
  <2>3. \A x \in net : left(x).by = Nobody
    BY <1>1 DEF SyncTypeOK, Exchange
  <2> HIDE DEF left
  <2>4. \A y \in net' : y \in net \/ y.by = Nobody
    BY <2>2, <2>3
  <2> QED
    BY <1>1, <2>1, <2>4, ClientTends
<1>5. ASSUME NEW x \in net, x.by = p
      PROVE  \A y \in net \ {x} : y.by # Nobody => y.by # p /\ StoreOf[y.by] # s
             /\ StoreOf[y.by] \in Stores
  <2>1. \A y \in net \ {x} : y.by # p
    BY <1>1, <1>5 DEF Waiting
  <2> QED
    BY <1>1, <2>1, StoreOfExchange DEF Solo
<1>6. CASE Answered(p)
  <2>1. PICK x, v :
          /\ x \in ExchangeOf(p)
          /\ x.state = "answered"
          /\ store' = [store EXCEPT ![s] =
               applyResponse(store[s], v, x.answer, proc[p].own, proc[p].since)]
          /\ net' = net \ {x}
          /\ UNCHANGED serverVars
    BY <1>6 DEF Answered
  <2>2. /\ x \in net /\ x.by = p /\ x.answer \in Pull /\ proc[p].since = x.since
        /\ x.since = store[s].cursor
    BY <1>1, <2>1 DEF ExchangeOf, Waiting, SyncTypeOK, Tending
  <2> DEFINE settled == settle(store[s], v, proc[p].own)
             t == Merged(settled, x.answer)
  <2>3. /\ settled \in StoreType /\ settled.rows = store[s].rows
        /\ settled.cursor = store[s].cursor
    BY <1>1, SettleType
  <2>4. ~(settled.cursor < proc[p].since)
    BY <1>1, <2>2, <2>3 DEF StoreType
  <2>5. store' = [store EXCEPT ![s] = t]
    BY <2>1, <2>4 DEF applyResponse, Merged
  <2> HIDE DEF settled
  <2>6. /\ t.rows = Merged(store[s], x.answer).rows
        /\ t.cursor = Merged(store[s], x.answer).cursor
    BY <1>1, <2>2, <2>3, MergedReplica
  <2>7. tended(t.rows, t.cursor)
    BY <2>1, <2>2, <2>6 DEF Tending
  <2> HIDE DEF t
  <2>8. \A q \in Stores : tended(store'[q].rows, store'[q].cursor)
    BY <1>1, <2>5, <2>7 DEF SyncTypeOK
  <2>9. \A y \in net' : y.by # Nobody => y \in net /\ store'[StoreOf[y.by]] = store[StoreOf[y.by]]
    BY <1>1, <1>5, <2>1, <2>2, <2>5 DEF SyncTypeOK
  <2> QED
    BY <2>1, <2>8, <2>9, ClientTends
<1>7. CASE AnsweredGone(p)
  <2>1. PICK x \in ExchangeOf(p) :
          \/ /\ net' = net \ {x} /\ UNCHANGED store
          \/ /\ store' = [store EXCEPT ![s] = resetReplica(store[s])]
             /\ net' = (net \ {x}) \cup {Request(p, 0, x.ops)}
    BY <1>7 DEF AnsweredGone
  <2>2. x \in net /\ x.by = p /\ UNCHANGED serverVars
    BY <1>7, <2>1 DEF ExchangeOf, AnsweredGone
  <2>3. CASE net' = net \ {x} /\ UNCHANGED store
    BY <1>1, <2>2, <2>3, ClientTends
  <2>4. CASE /\ store' = [store EXCEPT ![s] = resetReplica(store[s])]
             /\ net' = (net \ {x}) \cup {Request(p, 0, x.ops)}
    <3> DEFINE t == resetReplica(store[s])
    <3>1. t.cursor = 0 /\ t.rows = [i \in Ids |-> NoRow]
      BY <1>1 DEF resetReplica, StoreType
    <3> HIDE DEF t
    <3>2. tended(t.rows, t.cursor)
      BY <3>1, EmptyTended
    <3>3. store' = [store EXCEPT ![s] = t]
      BY <2>4 DEF t
    <3>4. \A q \in Stores : tended(store'[q].rows, store'[q].cursor)
      BY <1>1, <3>2, <3>3 DEF SyncTypeOK
    <3>5. /\ Request(p, 0, x.ops).by = p /\ Request(p, 0, x.ops).since = 0
          /\ Request(p, 0, x.ops).state = "open"
      BY DEF Request
    <3>6. store'[s].cursor = 0
      BY <1>1, <3>1, <3>3 DEF SyncTypeOK
    <3>7. \A y \in net \ {x} : y.by # Nobody =>
            y \in net /\ store'[StoreOf[y.by]] = store[StoreOf[y.by]]
      BY <1>1, <1>5, <2>2, <3>3 DEF SyncTypeOK
    <3> QED
      BY <2>2, <2>4, <3>4, <3>5, <3>6, <3>7, ClientTends
  <2> QED
    BY <2>1, <2>3, <2>4
<1>8. CASE AnsweredRefused(p)
  <2>1. PICK x, v :
          /\ x \in ExchangeOf(p)
          /\ store' = [store EXCEPT ![s] = settle(store[s], v, proc[p].own)]
          /\ net' = net \ {x}
          /\ UNCHANGED serverVars
    BY <1>8 DEF AnsweredRefused
  <2>2. x \in net /\ x.by = p
    BY <2>1 DEF ExchangeOf
  <2>3. \A q \in Stores : store'[q].rows = store[q].rows /\ store'[q].cursor = store[q].cursor
    BY <1>1, <2>1, SettleType DEF SyncTypeOK
  <2>4. \A y \in net' : y.by # Nobody => y \in net /\ StoreOf[y.by] \in Stores
    BY <1>5, <2>1, <2>2
  <2> QED
    BY <1>1, <2>1, <2>3, <2>4, ClientTends
<1> QED
  BY <1>2, <1>3, <1>4, <1>6, <1>7, <1>8

LEMMA TendingStep ==
  ASSUME CreatedOnce(Ops), Solo, SyncInv, SyncInv', Tending, [Next]_vars
  PROVE  Tending'
<1>1. ASSUME NEW p \in Procs,
             \/ \E op \in Ops : Mint(p, op) \/ Drop(p, op)
             \/ StartFlush(p) \/ Send(p) \/ Report(p) \/ GiveUp(p)
             \/ Answered(p) \/ AnsweredGone(p) \/ AnsweredRefused(p)
      PROVE  Tending'
  BY <1>1, ProcessTends DEF SyncInv
<1>2. [ServerNext]_serverVars
  BY ServerMoves DEF SyncInv, ServerSound, IInv
<1>3. ASSUME NEW x \in net, HandleOp(x) \/ HandlePull(x) \/ RefuseBatch(x)
      PROVE  Tending'
  <2>1. store' = store
    BY <1>3 DEF HandleOp, HandlePull, RefuseBatch, clientVars
  <2>2. \A y \in net' :
          \/ y \in net \ {x}
          \/ /\ Served(x, y)
             /\ y.state = "answered" =>
                  /\ x.state = "open" /\ ~Gone(x.since) /\ UNCHANGED serverVars
                  /\ y.answer = changesSince(x.since) /\ y.answer \in Pull
                  /\ y.verdicts = x.verdicts /\ Len(x.verdicts) = Len(x.ops)
    BY <1>3, Serving
  <2>3. \A y \in net' : y \in net \/ (/\ y.by = x.by /\ y.since = x.since
                                      /\ y.state = "answered" =>
                                           /\ UNCHANGED serverVars /\ ~Gone(x.since)
                                           /\ y.answer = changesSince(x.since))
    BY <2>2 DEF Served
  <2> QED
    BY <1>2, <2>1, <2>3, ServerTends
<1>4. ASSUME Housekeeping \/ UNCHANGED vars
      PROVE  Tending'
  <2>1. store' = store /\ net' = net
    BY <1>4 DEF Housekeeping, vars, clientVars
  <2> QED
    BY <1>2, <2>1, ServerTends
<1> QED
  BY <1>1, <1>3, <1>4 DEF Next

\* With a store to itself, a device shows no row the server has changed or
\* taken away without the device being told of it by its next pull
\* (changesSince, Store.applyResponse, pruneUser).
THEOREM NoGhostsOnOwnStore ==
  CreatedOnce(Ops) /\ Solo => (Spec => []NoGhosts)
<1> SUFFICES ASSUME CreatedOnce(Ops), Solo PROVE Spec => []NoGhosts
  OBVIOUS
<1>1. Init => Tending
  BY TendingInit
<1>2. SyncInv /\ SyncInv' /\ Tending /\ [Next]_vars => Tending'
  BY TendingStep
<1>3. Tending => NoGhosts
  BY DEF Tending, Tended, GhostFree, NoGhosts
<1> QED
  BY <1>1, <1>2, <1>3, SyncInvCorrect, PTL DEF Spec

----------------------------------------------------------------------------
(* The outboxes.                                                           *)

\* No request is larger than the server takes: assumed only of an edit that
\* is to stay shown, for a refused request pulls nothing.
Small == MAX_OPS <= MaxBody

Done == {"applied", "superseded"}

----------------------------------------------------------------------------
(* Outboxes as sets of entries.                                            *)

\* At most one entry for an operation.
Single(E) == \A d, e \in E : d.op = e.op => d = e

LEMMA StatusIs ==
  ASSUME NEW s \in StoreType, Single(ToSet(s.outbox)), NEW op
  PROVE  /\ \A e \in ToSet(s.outbox) : e.op = op => StatusOf(s, op) = e.status
         /\ (\A e \in ToSet(s.outbox) : e.op # op) => StatusOf(s, op) = "absent"
         /\ StatusOf(s, op) # "absent" =>
              \E e \in ToSet(s.outbox) : e.op = op /\ StatusOf(s, op) = e.status
<1>1. ASSUME NEW e \in ToSet(s.outbox), e.op = op
      PROVE  StatusOf(s, op) = e.status
  <2>1. (CHOOSE d \in ToSet(s.outbox) : d.op = op) = e
    BY <1>1 DEF Single
  <2> QED
    BY <1>1, <2>1 DEF StatusOf
<1> QED
  BY <1>1 DEF StatusOf

LEMMA EntriesOf ==
  ASSUME NEW s \in StoreType
  PROVE  \A e \in ToSet(s.outbox) : e \in Entries
<1>1. s.outbox \in Seq(Entries)
  BY DEF StoreType
<1> QED
  BY <1>1 DEF ToSet

LEMMA Enqueued ==
  ASSUME NEW s \in StoreType, NEW op \in Ops
  PROVE  ToSet(enqueue(s, op).outbox) = ToSet(s.outbox) \cup {Entry(op)}
<1>1. s.outbox \in Seq(Entries) /\ Entry(op) \in Entries
  BY DEF StoreType, Entry, Entries
<1>2. enqueue(s, op).outbox = Append(s.outbox, Entry(op))
  BY DEF enqueue, StoreType
<1> QED
  BY <1>1, <1>2, ToSetAppend

LEMMA Removed ==
  ASSUME NEW s \in StoreType, NEW op
  PROVE  ToSet(remove(s, op).outbox) = {e \in ToSet(s.outbox) : e.op # op}
<1>1. s.outbox \in Seq(Entries)
  BY DEF StoreType
<1>2. remove(s, op).outbox = where(s.outbox, {e \in ToSet(s.outbox) : e.op # op})
  BY DEF remove, StoreType
<1> QED
  BY <1>1, <1>2, SelectedRows

\* What settling keeps of an entry: one that was not judged as it is, one that
\* was refused, unless the running command queued it, as failed.
LEMMA SettledEntries ==
  ASSUME NEW s \in StoreType, NEW verdicts, NEW own
  PROVE  \A d : d \in ToSet(settle(s, verdicts, own).outbox) <=>
           \E e \in ToSet(s.outbox) :
             \/ e.op \notin DOMAIN verdicts /\ d = e
             \/ /\ e.op \in DOMAIN verdicts
                /\ verdicts[e.op] \in Refusals /\ e.op \notin own
                /\ d = [op |-> e.op, status |-> "failed"]
<1> DEFINE judged == DOMAIN verdicts
           kept(op) == op \in judged => verdicts[op] \in Refusals /\ op \notin own
           mark(e) == IF e.op \in judged THEN [e EXCEPT !.status = "failed"] ELSE e
           rest == where(s.outbox, {e \in ToSet(s.outbox) : kept(e.op)})
<1>1. rest \in Seq(Entries) /\ ToSet(rest) = {e \in ToSet(s.outbox) : kept(e.op)}
  BY SelectedRows DEF StoreType
<1>2. \A e \in Entries : e.op \in judged => mark(e) = [op |-> e.op, status |-> "failed"]
  BY DEF Entries
<1> HIDE DEF rest
<1>3. settle(s, verdicts, own).outbox = [k \in DOMAIN rest |-> mark(rest[k])]
  BY DEF settle, rest, StoreType
<1>4. \A d : d \in ToSet(settle(s, verdicts, own).outbox) <=>
               \E e \in ToSet(rest) : d = mark(e)
  BY <1>3 DEF ToSet
<1> QED
  BY <1>1, <1>2, <1>4, EntriesOf

----------------------------------------------------------------------------
(* The ledger's invariant.                                                 *)

\* The server will not carry the operation out.
Refusable(op) == applied[op] \in Refusals \/ op.id \in Foreign

\* What an outbox holds is its store's own; where no batch is refused whole,
\* failed means refused.
Owned ==
  \A s \in Stores :
    /\ Single(ToSet(store[s].outbox))
    /\ \A e \in ToSet(store[s].outbox) :
         /\ e.op \in minted /\ MintedBy[e.op] = s
         /\ Small /\ e.status = "failed" => Refusable(e.op)

\* What has left its outbox was judged, where no batch is refused whole.
Answerable ==
  Small => \A op \in minted :
    (\A e \in ToSet(store[MintedBy[op]].outbox) : e.op # op) =>
      applied[op] \in Done \/ Refusable(op)

\* The verdicts of an exchange are the ones recorded.
Spoken(x) ==
  \A k \in 1 .. Len(x.verdicts) :
    IF x.verdicts[k] \in Refusals THEN Refusable(x.ops[k]) ELSE applied[x.ops[k]] \in Done

\* What is sent was minted, and no request that is small enough is refused.
Sent ==
  /\ \A p \in Procs : \A k \in DOMAIN proc[p].todo : proc[p].todo[k] \in minted
  /\ \A x \in net :
       /\ \A k \in DOMAIN x.ops : x.ops[k] \in minted
       /\ Len(x.ops) <= MAX_OPS /\ Len(x.verdicts) <= Len(x.ops)
       /\ x.state = "answered" => Len(x.verdicts) = Len(x.ops)
       /\ Small => x.state # "refused"
       /\ Spoken(x)

\* The database lets nobody write another account's row.
Barred ==
  /\ \A i \in Foreign : ~Exists(rows[i])
  /\ \A op \in Ops : op.id \in Foreign => applied[op] \notin Done

LedgerInv == Owned /\ Answerable /\ Sent /\ Barred

----------------------------------------------------------------------------
(* What a step may do to an operation.                                     *)

Place(op) == IF op \in minted THEN StatusOf(store[MintedBy[op]], op) ELSE "unminted"

Moves(op) ==
  \/ Place(op) = "unminted" /\ Place(op)' = "pending" /\ applied'[op] = applied[op]
  \/ /\ Place(op) # "unminted" /\ applied[op] = "none" /\ Place(op)' = Place(op)
     /\ applied'[op] \in Refusals \cup (IF op.id \in Foreign THEN {} ELSE Done)
  \/ /\ Place(op) = "pending" /\ applied'[op] = applied[op]
     /\ \/ applied[op] \in Done /\ Place(op)' = "absent"
        \/ /\ Refusable(op) \/ op \in TurnedAway
           /\ Place(op)' \in {"failed", "absent"}
  \/ Place(op) = "failed" /\ Place(op)' = "absent" /\ applied'[op] = applied[op]
  \/ Place(op)' = Place(op) /\ applied'[op] = applied[op]

\* The client may count the operation as refused.
Failable(op) == Refusable(op) \/ op \in TurnedAway

\* How an outbox changes: an entry is new, stays, fails or goes.
OutboxMoves(s) ==
  /\ Single(ToSet(store'[s].outbox))
  /\ \A d \in ToSet(store'[s].outbox) :
       \/ d.op \in minted' \ minted /\ MintedBy[d.op] = s /\ d.status = "pending"
       \/ d \in ToSet(store[s].outbox)
       \/ /\ \E e \in ToSet(store[s].outbox) : e.op = d.op
          /\ d.status = "failed" /\ Failable(d.op)
  /\ \A e \in ToSet(store[s].outbox) :
       \/ \E d \in ToSet(store'[s].outbox) : d.op = e.op
       \/ e.status = "failed" \/ applied[e.op] \in Done \/ Failable(e.op)

\* What is newly minted is in its store's outbox.
Minting ==
  /\ minted \subseteq minted'
  /\ \A op \in minted' \ minted :
       \E e \in ToSet(store'[MintedBy[op]].outbox) : e.op = op /\ e.status = "pending"

OutboxesMove == Minting /\ \A s \in Stores : OutboxMoves(s)

LEMMA ClientLedger ==
  ASSUME SyncTypeOK, SyncTypeOK', Owned, Answerable, Sent, OutboxesMove,
         UNCHANGED applied
  PROVE  Owned' /\ Answerable' /\ \A op \in Ops : Moves(op)
<1>1. \A op \in Ops : MintedBy[op] \in Stores
  BY ClientsAssumption
<1>2. /\ minted \subseteq Ops /\ minted' \subseteq Ops /\ minted \subseteq minted'
      /\ \A s \in Stores : store[s] \in StoreType /\ store'[s] \in StoreType
      /\ \A op : Refusable(op)' = Refusable(op)
      /\ Small => \A op : Failable(op) => Refusable(op)
  BY DEF SyncTypeOK, OutboxesMove, Minting, Refusable, Failable, TurnedAway, Sent
<1>3. Owned'
  BY <1>2 DEF Owned, OutboxesMove, OutboxMoves
<1>4. Answerable'
  <2> SUFFICES ASSUME Small, NEW op \in minted',
                      \A e \in ToSet(store'[MintedBy[op]].outbox) : e.op # op
               PROVE  applied[op] \in Done \/ Refusable(op)
    BY <1>2 DEF Answerable
  <2>1. op \in minted
    BY DEF OutboxesMove, OutboxMoves, Minting
  <2>2. CASE \A e \in ToSet(store[MintedBy[op]].outbox) : e.op # op
    BY <2>1, <2>2 DEF Answerable
  <2>3. ASSUME NEW e \in ToSet(store[MintedBy[op]].outbox), e.op = op
        PROVE  applied[op] \in Done \/ Refusable(op)
    BY <1>1, <1>2, <2>1, <2>3 DEF OutboxesMove, OutboxMoves, Minting, Owned
  <2> QED
    BY <2>2, <2>3
<1>5. ASSUME NEW op \in Ops
      PROVE  Moves(op)
  <2> DEFINE s == MintedBy[op]
             E == ToSet(store[s].outbox)
             F == ToSet(store'[s].outbox)
  <2>1. /\ s \in Stores /\ Single(E) /\ Single(F)
        /\ store[s] \in StoreType /\ store'[s] \in StoreType
    BY <1>1, <1>2 DEF Owned, OutboxesMove, OutboxMoves
  <2>2. /\ \A e \in E : e.op = op => StatusOf(store[s], op) = e.status
        /\ (\A e \in E : e.op # op) => StatusOf(store[s], op) = "absent"
        /\ \A e \in F : e.op = op => StatusOf(store'[s], op) = e.status
        /\ (\A e \in F : e.op # op) => StatusOf(store'[s], op) = "absent"
    BY <2>1, StatusIs
  <2>3. /\ Place(op) = IF op \in minted THEN StatusOf(store[s], op) ELSE "unminted"
        /\ Place(op)' = IF op \in minted' THEN StatusOf(store'[s], op) ELSE "unminted"
    BY DEF Place
  <2> HIDE DEF E, F
  <2>4. CASE op \notin minted'
    BY <1>2, <2>3, <2>4 DEF Moves, Failable
  <2>5. CASE op \in minted' \ minted
    <3>1. \E e \in F : e.op = op /\ e.status = "pending"
      BY <2>5 DEF OutboxesMove, Minting, F
    <3> QED
      BY <2>2, <2>3, <2>5, <3>1 DEF Moves, Failable
  <2>6. CASE op \in minted
    <3>1. \A d \in F : d.op = op =>
            \/ d \in E
            \/ (\E e \in E : e.op = op) /\ d.status = "failed" /\ Failable(op)
      <4> SUFFICES ASSUME NEW d \in F, d.op = op
                   PROVE  \/ d \in E
                          \/ /\ \E e \in E : e.op = op
                             /\ d.status = "failed" /\ Failable(op)
        OBVIOUS
      <4>1. \/ d.op \in minted' \ minted
            \/ d \in E
            \/ /\ \E e \in E : e.op = d.op
               /\ d.status = "failed" /\ Failable(d.op)
        BY <2>1 DEF OutboxesMove, OutboxMoves, E, F
      <4> QED
        BY <2>6, <4>1
    <3>2. \A e \in E : e.op = op =>
            \/ \E d \in F : d.op = op
            \/ e.status = "failed" \/ applied[op] \in Done \/ Failable(op)
      BY <2>1 DEF OutboxesMove, OutboxMoves, E, F
    <3>3. Place(op) = StatusOf(store[s], op) /\ Place(op)' = StatusOf(store'[s], op)
      BY <1>2, <2>3, <2>6
    <3>4. \A e \in E : e.status \in {"pending", "failed"}
      BY <2>1, EntriesOf DEF E, Entries
    <3>5. CASE \A e \in E : e.op # op
      BY <2>2, <3>1, <3>3, <3>5 DEF Moves, Failable
    <3>6. ASSUME NEW e \in E, e.op = op
          PROVE  Moves(op)
      <4>1. Place(op) = e.status /\ e.status \in {"pending", "failed"}
        BY <2>2, <3>3, <3>4, <3>6
      <4>2. ASSUME NEW d \in F, d.op = op
            PROVE  Moves(op)
        <5>1. Place(op)' = d.status
          BY <2>2, <3>3, <4>2
        <5>2. d = e \/ (d.status = "failed" /\ Failable(op))
          <6>1. d \in E \/ (d.status = "failed" /\ Failable(op))
            BY <3>1, <4>2
          <6>2. d \in E => d = e
            BY <2>1, <3>6, <4>2 DEF Single
          <6> QED
            BY <6>1, <6>2
        <5> QED
          BY <4>1, <5>1, <5>2 DEF Moves, Failable
      <4>3. CASE \A d \in F : d.op # op
        <5>1. Place(op)' = "absent"
          BY <2>2, <3>3, <4>3
        <5> QED
          BY <3>2, <3>6, <4>1, <4>3, <5>1 DEF Moves, Failable
      <4> QED
        BY <4>2, <4>3
    <3> QED
      BY <3>5, <3>6
  <2> QED
    BY <1>2, <2>4, <2>5, <2>6
<1> QED
  BY <1>3, <1>4, <1>5

LEMMA Untouched ==
  ASSUME Owned, NEW s \in Stores, store'[s].outbox = store[s].outbox
  PROVE  OutboxMoves(s)
BY DEF OutboxMoves, Owned

LEMMA PendingEntries ==
  ASSUME NEW s \in StoreType
  PROVE  \A k \in DOMAIN pending(s) : \E e \in ToSet(s.outbox) : e.op = pending(s)[k]
<1> DEFINE entries == where(s.outbox, {e \in ToSet(s.outbox) : e.status = "pending"})
<1>1. entries \in Seq(Entries)
      /\ ToSet(entries) = {e \in ToSet(s.outbox) : e.status = "pending"}
  BY SelectedRows DEF StoreType
<1>2. \A k \in DOMAIN entries : entries[k] \in ToSet(entries)
  BY DEF ToSet
<1> HIDE DEF entries
<1>3. pending(s) = [k \in DOMAIN entries |-> entries[k].op]
  BY DEF pending, entries
<1> QED
  BY <1>1, <1>2, <1>3

----------------------------------------------------------------------------
(* A step of a process.                                                    *)

LEMMA MintMoves ==
  ASSUME SyncTypeOK, Owned, NEW p \in Procs, NEW op \in Ops, Mint(p, op)
  PROVE  OutboxesMove
<1> USE ClientsAssumption
<1> DEFINE s == StoreOf[p]
<1>1. /\ s \in Stores /\ store[s] \in StoreType /\ op \notin minted
      /\ minted' = minted \cup {op} /\ MintedBy[op] = s
      /\ store' = [store EXCEPT ![s] = enqueue(store[s], op)]
  BY DEF Mint, SyncTypeOK
<1>2. ToSet(store'[s].outbox) = ToSet(store[s].outbox) \cup {Entry(op)}
  BY <1>1, Enqueued DEF SyncTypeOK
<1>3. Entry(op).op = op /\ Entry(op).status = "pending"
  BY DEF Entry
<1>4. OutboxMoves(s)
  <2>1. \A e \in ToSet(store[s].outbox) : e.op # op
    BY <1>1 DEF Owned
  <2>2. Single(ToSet(store'[s].outbox))
    BY <1>1, <1>2, <1>3, <2>1 DEF Owned, Single
  <2> QED
    BY <1>1, <1>2, <1>3, <2>2 DEF OutboxMoves
<1>5. \A q \in Stores \ {s} : store'[q].outbox = store[q].outbox
  BY <1>1 DEF SyncTypeOK
<1>6. \A q \in Stores : OutboxMoves(q)
  BY <1>4, <1>5, Untouched
<1>7. Minting
  BY <1>1, <1>2, <1>3 DEF Minting
<1> QED
  BY <1>6, <1>7 DEF OutboxesMove

\* Entries go only when they have failed.
LEMMA FailedGo ==
  ASSUME SyncTypeOK, Owned, minted' = minted, NEW s \in Stores,
         ToSet(store'[s].outbox) \subseteq ToSet(store[s].outbox),
         \A e \in ToSet(store[s].outbox) :
           e \in ToSet(store'[s].outbox) \/ e.status = "failed",
         \A q \in Stores \ {s} : store'[q].outbox = store[q].outbox
  PROVE  OutboxesMove
<1>1. OutboxMoves(s)
  BY DEF OutboxMoves, Owned, Single
<1>2. \A q \in Stores : OutboxMoves(q)
  BY <1>1, Untouched
<1> QED
  BY <1>2 DEF OutboxesMove, Minting

\* What the user takes out of an outbox, and a report, has failed.
LEMMA DropGoes ==
  ASSUME SyncTypeOK, Owned, NEW p \in Procs, NEW op \in Ops, Drop(p, op)
  PROVE  /\ minted' = minted
         /\ ToSet(store'[StoreOf[p]].outbox) \subseteq ToSet(store[StoreOf[p]].outbox)
         /\ \A e \in ToSet(store[StoreOf[p]].outbox) :
              e \in ToSet(store'[StoreOf[p]].outbox) \/ e.status = "failed"
         /\ \A q \in Stores \ {StoreOf[p]} : store'[q].outbox = store[q].outbox
<1> USE ClientsAssumption
<1> DEFINE s == StoreOf[p]
<1>1. /\ s \in Stores /\ store[s] \in StoreType /\ minted' = minted
      /\ StatusOf(store[s], op) = "failed"
      /\ store' = [store EXCEPT ![s] = remove(store[s], op)]
  BY DEF Drop, SyncTypeOK
<1>2. ToSet(store'[s].outbox) = {e \in ToSet(store[s].outbox) : e.op # op}
  BY <1>1, Removed DEF SyncTypeOK
<1>3. \A e \in ToSet(store[s].outbox) : e.op = op => e.status = "failed"
  BY <1>1, StatusIs DEF Owned
<1>4. \A q \in Stores \ {s} : store'[q].outbox = store[q].outbox
  BY <1>1 DEF SyncTypeOK
<1> QED
  BY <1>1, <1>2, <1>3, <1>4

LEMMA ReportGoes ==
  ASSUME SyncTypeOK, NEW p \in Procs, Report(p)
  PROVE  /\ minted' = minted
         /\ ToSet(store'[StoreOf[p]].outbox) \subseteq ToSet(store[StoreOf[p]].outbox)
         /\ \A e \in ToSet(store[StoreOf[p]].outbox) :
              e \in ToSet(store'[StoreOf[p]].outbox) \/ e.status = "failed"
         /\ \A q \in Stores \ {StoreOf[p]} : store'[q].outbox = store[q].outbox
<1> USE ClientsAssumption
<1> DEFINE s == StoreOf[p]
           kept == {e \in ToSet(store[s].outbox) :
                      ~(e.op \in proc[p].own /\ e.status = "failed")}
<1>1. s \in Stores /\ store[s] \in StoreType /\ minted' = minted
  BY DEF Report, SyncTypeOK
<1>2. store' = [store EXCEPT ![s] = [store[s] EXCEPT !.outbox = where(store[s].outbox, kept)]]
  BY DEF Report, SyncTypeOK
<1>3. ToSet(where(store[s].outbox, kept)) = ToSet(store[s].outbox) \cap kept
  BY <1>1, SelectedRows DEF StoreType
<1>4. store'[s].outbox = where(store[s].outbox, kept)
  BY <1>1, <1>2 DEF SyncTypeOK, StoreType
<1>5. \A q \in Stores \ {s} : store'[q].outbox = store[q].outbox
  BY <1>1, <1>2 DEF SyncTypeOK
<1> QED
  BY <1>1, <1>3, <1>4, <1>5

\* An answer, or anything that speaks the truth about what it judges.
LEMMA SettleMoves ==
  ASSUME SyncTypeOK, Owned, minted' = minted, NEW s \in Stores, NEW v, NEW own,
         \A op \in DOMAIN v : IF v[op] \in Refusals THEN Failable(op)
                                                    ELSE applied[op] \in Done,
         store'[s].outbox = settle(store[s], v, own).outbox,
         \A q \in Stores \ {s} : store'[q].outbox = store[q].outbox
  PROVE  OutboxesMove
<1> DEFINE E == ToSet(store[s].outbox)
           F == ToSet(store'[s].outbox)
<1>1. /\ store[s] \in StoreType /\ Single(E)
      /\ \A d \in E : d.status \in {"pending", "failed"}
  BY EntriesOf DEF SyncTypeOK, Owned, Entries
<1>2. \A d : d \in F <=>
        \E e \in E : \/ e.op \notin DOMAIN v /\ d = e
                     \/ /\ e.op \in DOMAIN v
                        /\ v[e.op] \in Refusals /\ e.op \notin own
                        /\ d = [op |-> e.op, status |-> "failed"]
  BY <1>1, SettledEntries
<1> HIDE DEF E, F
<1>3. Single(F)
  <2> SUFFICES ASSUME NEW c \in F, NEW d \in F, c.op = d.op PROVE c = d
    BY DEF Single
  <2>1. PICK e \in E : \/ e.op \notin DOMAIN v /\ c = e
                       \/ e.op \in DOMAIN v /\ c = [op |-> e.op, status |-> "failed"]
    BY <1>2
  <2>2. PICK f \in E : \/ f.op \notin DOMAIN v /\ d = f
                       \/ f.op \in DOMAIN v /\ d = [op |-> f.op, status |-> "failed"]
    BY <1>2
  <2>3. e = f
    BY <1>1, <2>1, <2>2 DEF Single
  <2> QED
    BY <2>1, <2>2, <2>3
<1>4. ASSUME NEW d \in F
      PROVE  d \in E \/ (/\ \E e \in E : e.op = d.op
                         /\ d.status = "failed" /\ Failable(d.op))
  BY <1>2, <1>4
<1>5. ASSUME NEW e \in E
      PROVE  \/ \E d \in F : d.op = e.op
             \/ e.status = "failed" \/ applied[e.op] \in Done \/ Failable(e.op)
  <2>1. CASE e.op \notin DOMAIN v
    BY <1>2, <2>1
  <2>2. CASE e.op \in DOMAIN v
    BY <2>2
  <2> QED
    BY <2>1, <2>2
<1>6. OutboxMoves(s)
  BY <1>3, <1>4, <1>5 DEF OutboxMoves, E, F
<1>7. \A q \in Stores : OutboxMoves(q)
  BY <1>6, Untouched
<1> QED
  BY <1>7 DEF OutboxesMove, Minting

LEMMA ClientSends ==
  ASSUME Sent, UNCHANGED applied, minted \subseteq minted', NEW p \in Procs,
         \A q \in Procs \ {p} : proc'[q] = proc[q],
         \A k \in DOMAIN proc'[p].todo : proc'[p].todo[k] \in minted',
         \A y \in net' :
           \/ \E x \in net : y.ops = x.ops /\ y.verdicts = x.verdicts /\ y.state = x.state
           \/ /\ y.state = "open" /\ Len(y.verdicts) = 0 /\ Len(y.ops) \in 0 .. MAX_OPS
              /\ \A k \in DOMAIN y.ops : y.ops[k] \in minted'
  PROVE  Sent'
<1>1. \A op : Refusable(op)' = Refusable(op)
  BY DEF Refusable
<1>2. \A q \in Procs : \A k \in DOMAIN proc'[q].todo : proc'[q].todo[k] \in minted'
  BY DEF Sent
<1>3. ASSUME NEW y \in net'
      PROVE  /\ \A k \in DOMAIN y.ops : y.ops[k] \in minted'
             /\ Len(y.ops) <= MAX_OPS /\ Len(y.verdicts) <= Len(y.ops)
             /\ y.state = "answered" => Len(y.verdicts) = Len(y.ops)
             /\ Small => y.state # "refused"
             /\ \A k \in 1 .. Len(y.verdicts) :
                  IF y.verdicts[k] \in Refusals THEN Refusable(y.ops[k])
                                                ELSE applied[y.ops[k]] \in Done
  <2>1. CASE \E x \in net : y.ops = x.ops /\ y.verdicts = x.verdicts /\ y.state = x.state
    BY <2>1 DEF Sent, Spoken
  <2>2. CASE /\ y.state = "open" /\ Len(y.verdicts) = 0 /\ Len(y.ops) \in 0 .. MAX_OPS
             /\ \A k \in DOMAIN y.ops : y.ops[k] \in minted'
    BY <2>2
  <2> QED
    BY <1>3, <2>1, <2>2
<1> QED
  BY <1>1, <1>2, <1>3 DEF Sent, Spoken

LEMMA StillMove ==
  ASSUME Owned, UNCHANGED minted, \A s \in Stores : store'[s].outbox = store[s].outbox
  PROVE  OutboxesMove
BY Untouched DEF OutboxesMove, Minting

LEMMA OwnLedger ==
  ASSUME SyncTypeOK, Owned, Sent, NEW p \in Procs,
         \/ \E op \in Ops : Mint(p, op) \/ Drop(p, op)
         \/ StartFlush(p) \/ Report(p)
  PROVE  OutboxesMove /\ Sent' /\ UNCHANGED serverVars
<1> USE ClientsAssumption
<1>1. UNCHANGED serverVars /\ net' = net /\ minted \subseteq minted' /\ UNCHANGED applied
  BY DEF Mint, Drop, StartFlush, Report, serverVars
<1>2. /\ \A q \in Procs \ {p} : proc'[q] = proc[q]
      /\ StoreOf[p] \in Stores /\ store[StoreOf[p]] \in StoreType
  BY DEF Mint, Drop, StartFlush, Report, SyncTypeOK
<1>3. OutboxesMove
  <2>1. ASSUME StartFlush(p) PROVE OutboxesMove
    BY <2>1, StillMove DEF StartFlush
  <2>2. ASSUME \/ \E op \in Ops : Drop(p, op)
               \/ Report(p)
        PROVE  OutboxesMove
    BY <1>2, <2>2, DropGoes, ReportGoes, FailedGo
  <2> QED
    BY <2>1, <2>2, MintMoves
<1>4. \A k \in DOMAIN proc'[p].todo : proc'[p].todo[k] \in minted'
  <2>1. ASSUME NEW op \in Ops, Mint(p, op)
        PROVE  proc'[p].todo = proc[p].todo
    BY <2>1 DEF Mint, SyncTypeOK, Process
  <2>2. ASSUME NEW op \in Ops, Drop(p, op)
        PROVE  proc'[p].todo = proc[p].todo
    BY <2>2 DEF Drop
  <2>3. CASE StartFlush(p)
    <3>1. proc'[p].todo = pending(store[StoreOf[p]])
      BY <2>3 DEF StartFlush, SyncTypeOK, Process
    <3> QED
      BY <1>1, <1>2, <3>1, PendingEntries DEF Owned
  <2>4. CASE Report(p)
    BY <2>4 DEF Report, SyncTypeOK, Idle
  <2> QED
    BY <1>1, <2>1, <2>2, <2>3, <2>4 DEF Sent
<1>5. Sent'
  BY <1>1, <1>2, <1>4, ClientSends
<1> QED
  BY <1>1, <1>3, <1>5

LEMMA SendLedger ==
  ASSUME SyncTypeOK, Owned, Sent, NEW p \in Procs, Send(p)
  PROVE  OutboxesMove /\ Sent' /\ UNCHANGED serverVars
<1> USE ClientsAssumption
<1> DEFINE todo == proc[p].todo
           n == IF Len(todo) < MAX_OPS THEN Len(todo) ELSE MAX_OPS
           batch == SubSeq(todo, 1, n)
           rest == SubSeq(todo, n + 1, Len(todo))
           r == Request(p, store[StoreOf[p]].cursor, batch)
<1>1. todo \in Seq(Ops) /\ Len(todo) \in Nat
  BY DEF SyncTypeOK, Process
<1>2. n \in 0 .. Len(todo) /\ n <= MAX_OPS
  BY <1>1
<1>3. \A k \in 1 .. Len(todo) : todo[k] \in minted
  BY <1>1 DEF Sent
<1> HIDE DEF n
<1>4. /\ Len(batch) = n /\ \A k \in DOMAIN batch : batch[k] \in minted
      /\ \A k \in DOMAIN rest : rest[k] \in minted
  <2>1. Len(batch) = n /\ DOMAIN batch = 1 .. n /\ \A k \in 1 .. n : batch[k] = todo[k]
    BY <1>1, <1>2
  <2>2. /\ DOMAIN rest = 1 .. Len(todo) - n
        /\ \A k \in 1 .. Len(todo) - n : rest[k] = todo[n + k]
    BY <1>1, <1>2
  <2> QED
    BY <1>1, <1>2, <1>3, <2>1, <2>2
<1>5. /\ UNCHANGED serverVars /\ UNCHANGED applied /\ store' = store /\ minted' = minted
      /\ net' = net \cup {r} /\ proc'[p].todo = rest
      /\ \A q \in Procs \ {p} : proc'[q] = proc[q]
  BY DEF Send, SyncTypeOK, Process, serverVars, n
<1>6. r.ops = batch /\ r.state = "open" /\ r.verdicts = << >>
  BY DEF Request
<1> HIDE DEF batch, rest, r
<1>7. \A y \in net' : y \in net \/ (/\ y.state = "open" /\ Len(y.verdicts) = 0
                                    /\ Len(y.ops) \in 0 .. MAX_OPS
                                    /\ \A k \in DOMAIN y.ops : y.ops[k] \in minted')
  BY <1>2, <1>4, <1>5, <1>6
<1>8. Sent'
  BY <1>4, <1>5, <1>7, ClientSends
<1> QED
  BY <1>5, <1>8, StillMove

LEMMA GiveUpLedger ==
  ASSUME SyncTypeOK, Owned, Sent, NEW p \in Procs, GiveUp(p)
  PROVE  OutboxesMove /\ Sent' /\ UNCHANGED serverVars
<1>1. /\ UNCHANGED serverVars /\ UNCHANGED applied /\ store' = store /\ minted' = minted
      /\ proc'[p].todo = << >> /\ \A q \in Procs \ {p} : proc'[q] = proc[q]
  BY DEF GiveUp, SyncTypeOK, serverVars, Idle
<1> DEFINE left(x) == [x EXCEPT !.by = Nobody]
<1>2. \A y \in net' : y \in net \/ \E x \in net : y = left(x)
  BY DEF GiveUp, ExchangeOf
<1>3. \A x \in net : /\ left(x).ops = x.ops /\ left(x).verdicts = x.verdicts
                     /\ left(x).state = x.state
  BY DEF SyncTypeOK, Exchange
<1> HIDE DEF left
<1>4. \A y \in net' :
        \E x \in net : y.ops = x.ops /\ y.verdicts = x.verdicts /\ y.state = x.state
  BY <1>2, <1>3
<1>5. Sent'
  BY <1>1, <1>4, ClientSends
<1> QED
  BY <1>1, <1>5, StillMove

LEMMA AnsweredLedger ==
  ASSUME SyncTypeOK, Owned, Sent, NEW p \in Procs, Answered(p)
  PROVE  OutboxesMove /\ Sent' /\ UNCHANGED serverVars
<1> USE ClientsAssumption
<1> DEFINE s == StoreOf[p]
           spoken(x) == [op \in ToSet(x.ops) |->
                           x.verdicts[CHOOSE k \in DOMAIN x.ops : x.ops[k] = op]]
<1>1. PICK x \in ExchangeOf(p) :
        /\ x.state = "answered"
        /\ store' = [store EXCEPT ![s] =
             applyResponse(store[s], spoken(x), x.answer, proc[p].own, proc[p].since)]
        /\ proc' = [proc EXCEPT ![p] = Continue(p)]
        /\ net' = net \ {x}
        /\ UNCHANGED serverVars /\ minted' = minted
  BY DEF Answered
<1>2. /\ x \in net /\ x \in Exchange /\ s \in Stores /\ store[s] \in StoreType
      /\ x.answer \in Pull /\ proc[p] \in Process /\ UNCHANGED applied
  BY <1>1 DEF ExchangeOf, SyncTypeOK, serverVars
<1>3. \A op \in DOMAIN spoken(x) :
        IF spoken(x)[op] \in Refusals THEN Refusable(op) ELSE applied[op] \in Done
  <2> SUFFICES ASSUME NEW op \in ToSet(x.ops)
               PROVE  IF spoken(x)[op] \in Refusals THEN Refusable(op)
                                                    ELSE applied[op] \in Done
    OBVIOUS
  <2> DEFINE k == CHOOSE i \in DOMAIN x.ops : x.ops[i] = op
  <2>1. k \in DOMAIN x.ops /\ x.ops[k] = op
    BY DEF ToSet
  <2>2. spoken(x)[op] = x.verdicts[k]
    OBVIOUS
  <2>3. k \in 1 .. Len(x.verdicts)
    BY <1>1, <1>2, <2>1 DEF Sent, Exchange
  <2> QED
    BY <1>2, <2>1, <2>2, <2>3 DEF Sent, Spoken
<1> DEFINE t == applyResponse(store[s], spoken(x), x.answer, proc[p].own, proc[p].since)
<1>4. t.outbox = settle(store[s], spoken(x), proc[p].own).outbox
  <2> DEFINE settled == settle(store[s], spoken(x), proc[p].own)
  <2>1. settled \in StoreType
    BY <1>2, SettleType
  <2> HIDE DEF settled
  <2>2. t = settled \/ t = advanceCursor(mergeChanges(settled, x.answer.changes), x.answer.cursor)
    BY DEF applyResponse, settled
  <2> HIDE DEF t
  <2>3. advanceCursor(mergeChanges(settled, x.answer.changes), x.answer.cursor).outbox
          = settled.outbox
    BY <2>1 DEF advanceCursor, mergeChanges, StoreType
  <2> QED
    BY <2>2, <2>3 DEF settled
<1>5. /\ store'[s].outbox = settle(store[s], spoken(x), proc[p].own).outbox
      /\ \A q \in Stores \ {s} : store'[q].outbox = store[q].outbox
  <2> HIDE DEF t
  <2>1. store' = [store EXCEPT ![s] = t]
    BY <1>1 DEF t
  <2> QED
    BY <1>2, <1>4, <2>1 DEF SyncTypeOK
<1> HIDE DEF spoken
<1>6. OutboxesMove
  BY <1>1, <1>2, <1>3, <1>5, SettleMoves DEF Failable
<1>7. proc'[p].todo = proc[p].todo /\ \A q \in Procs \ {p} : proc'[q] = proc[q]
  BY <1>1, <1>2 DEF SyncTypeOK, Continue, Process
<1>8. \A k \in DOMAIN proc'[p].todo : proc'[p].todo[k] \in minted'
  BY <1>1, <1>7 DEF Sent
<1>9. \A y \in net' : y \in net
  BY <1>1
<1>10. Sent'
  BY <1>1, <1>2, <1>7, <1>8, <1>9, ClientSends
<1> QED
  BY <1>1, <1>6, <1>10

LEMMA AnsweredRefusedLedger ==
  ASSUME SyncTypeOK, Owned, Sent, NEW p \in Procs, AnsweredRefused(p)
  PROVE  OutboxesMove /\ Sent' /\ UNCHANGED serverVars
<1> USE ClientsAssumption
<1> DEFINE s == StoreOf[p]
           refused(x) == [op \in ToSet(x.ops) |-> "rejected"]
<1>1. PICK x \in ExchangeOf(p) :
        /\ x.state = "refused"
        /\ store' = [store EXCEPT ![s] = settle(store[s], refused(x), proc[p].own)]
        /\ proc' = [proc EXCEPT ![p] =
             IF proc[p].extra THEN Idle
             ELSE [Continue(p) EXCEPT !.pc = "send",
                                      !.extra = (proc[p].todo = << >>)]]
        /\ net' = net \ {x}
        /\ UNCHANGED serverVars /\ minted' = minted
  BY DEF AnsweredRefused, SyncTypeOK
<1>2. /\ x \in net /\ x.by = p /\ x.ops \in Seq(Ops) /\ s \in Stores
      /\ proc[p] \in Process /\ UNCHANGED applied
  BY <1>1 DEF ExchangeOf, SyncTypeOK, Exchange, serverVars
<1>3. \A op \in DOMAIN refused(x) : Failable(op) /\ refused(x)[op] \in Refusals
  <2>1. \A op \in ToSet(x.ops) : op \in Ops
    BY <1>2 DEF ToSet
  <2> QED
    BY <1>1, <1>2, <2>1 DEF Failable, TurnedAway, Refusals
<1> HIDE DEF refused
<1>4. /\ store'[s].outbox = settle(store[s], refused(x), proc[p].own).outbox
      /\ \A q \in Stores \ {s} : store'[q].outbox = store[q].outbox
  BY <1>1, <1>2 DEF SyncTypeOK
<1>5. OutboxesMove
  BY <1>1, <1>2, <1>3, <1>4, SettleMoves
<1>6. /\ proc'[p].todo = << >> \/ proc'[p].todo = proc[p].todo
      /\ \A q \in Procs \ {p} : proc'[q] = proc[q]
  <2>1. DOMAIN Continue(p) = DOMAIN proc[p] /\ Continue(p).todo = proc[p].todo
    BY <1>2 DEF Continue, Process
  <2>2. [Continue(p) EXCEPT !.pc = "send",
                            !.extra = (proc[p].todo = << >>)].todo = proc[p].todo
    BY <2>1 DEF Continue, Process
  <2>3. Idle.todo = << >>
    BY DEF Idle
  <2>4. /\ \/ proc'[p] = Idle
           \/ proc'[p] = [Continue(p) EXCEPT !.pc = "send",
                                             !.extra = (proc[p].todo = << >>)]
        /\ \A q \in Procs \ {p} : proc'[q] = proc[q]
    BY <1>1 DEF SyncTypeOK
  <2> QED
    BY <2>2, <2>3, <2>4
<1>7. \A k \in DOMAIN proc'[p].todo : proc'[p].todo[k] \in minted'
  BY <1>1, <1>6 DEF Sent
<1>8. \A y \in net' : y \in net
  BY <1>1
<1>9. Sent'
  BY <1>1, <1>2, <1>6, <1>7, <1>8, ClientSends
<1> QED
  BY <1>1, <1>5, <1>9

LEMMA AnsweredGoneLedger ==
  ASSUME SyncTypeOK, Owned, Sent, NEW p \in Procs, AnsweredGone(p)
  PROVE  OutboxesMove /\ Sent' /\ UNCHANGED serverVars
<1> USE ClientsAssumption
<1> DEFINE s == StoreOf[p]
<1>1. PICK x \in ExchangeOf(p) :
        \/ /\ proc' = [proc EXCEPT ![p] = Idle]
           /\ net' = net \ {x}
           /\ UNCHANGED store
        \/ /\ store' = [store EXCEPT ![s] = resetReplica(store[s])]
           /\ proc' = [proc EXCEPT ![p] = [proc[p] EXCEPT !.since = 0, !.retried = TRUE]]
           /\ net' = (net \ {x}) \cup {Request(p, 0, x.ops)}
  BY DEF AnsweredGone, SyncTypeOK
<1>2. /\ x \in net /\ x.ops \in Seq(Ops) /\ s \in Stores /\ store[s] \in StoreType
      /\ proc[p] \in Process /\ UNCHANGED serverVars /\ UNCHANGED applied
      /\ minted' = minted
  BY DEF ExchangeOf, AnsweredGone, SyncTypeOK, Exchange, serverVars
<1>3. \A q \in Stores : store'[q].outbox = store[q].outbox
  <2>1. resetReplica(store[s]).outbox = store[s].outbox
    BY <1>2 DEF resetReplica, StoreType
  <2> QED
    BY <1>1, <1>2, <2>1 DEF SyncTypeOK
<1>4. /\ proc'[p].todo = << >> \/ proc'[p].todo = proc[p].todo
      /\ \A q \in Procs \ {p} : proc'[q] = proc[q]
  <2>1. [proc[p] EXCEPT !.since = 0, !.retried = TRUE].todo = proc[p].todo
    BY <1>2 DEF Process
  <2>2. Idle.todo = << >>
    BY DEF Idle
  <2>3. /\ proc'[p] = Idle \/ proc'[p] = [proc[p] EXCEPT !.since = 0, !.retried = TRUE]
        /\ \A q \in Procs \ {p} : proc'[q] = proc[q]
    BY <1>1 DEF SyncTypeOK
  <2> QED
    BY <2>1, <2>2, <2>3
<1>5. \A k \in DOMAIN proc'[p].todo : proc'[p].todo[k] \in minted'
  BY <1>2, <1>4 DEF Sent
<1> DEFINE r == Request(p, 0, x.ops)
<1>6. r.ops = x.ops /\ r.state = "open" /\ Len(r.verdicts) = 0
  BY DEF Request
<1>7. Len(x.ops) \in 0 .. MAX_OPS /\ \A k \in DOMAIN x.ops : x.ops[k] \in minted'
  BY <1>2 DEF Sent
<1>8. \A y \in net' : y \in net \/ y = r
  BY <1>1
<1> HIDE DEF r
<1>9. Sent'
  BY <1>2, <1>4, <1>5, <1>6, <1>7, <1>8, ClientSends
<1> QED
  BY <1>2, <1>3, <1>9, StillMove

----------------------------------------------------------------------------
(* A step of the server.                                                   *)

\* An operation is judged once, and the verdict told is the one recorded.
LEMMA JudgedOnce ==
  ASSUME ServerTypeOK, Barred, NEW op \in Ops, NEW at, applyOne(op, at)
  PROVE  /\ \A o \in Ops \ {op} : applied'[o] = applied[o]
         /\ \/ applied'[op] = applied[op]
            \/ /\ applied[op] = "none"
               /\ applied'[op] \in Refusals \cup (IF op.id \in Foreign THEN {} ELSE Done)
         /\ IF verdict(op, at) \in Refusals THEN applied'[op] \in Refusals \/ op.id \in Foreign
                                            ELSE applied'[op] \in Done
<1>1. applied \in [Ops -> Verdicts \cup {"none"}] /\ outcome(rows, op, at) \in Verdicts
  BY OutcomeIsVerdict DEF ServerTypeOK
<1>2. CASE Replay(op)
  <2>1. applied' = applied /\ applied[op] # "none" /\ applied[op] \in Verdicts
    BY <1>1, <1>2 DEF Replay, serverVars
  <2> QED
    BY <2>1 DEF verdict, Verdicts, Refusals, Done
<1>3. CASE RecordRefusal(op, at)
  <2> DEFINE o == outcome(rows, op, at)
  <2>1. applied[op] = "none" /\ o # "applied" /\ applied' = [applied EXCEPT ![op] = o]
    BY <1>3 DEF RecordRefusal
  <2>2. o = "superseded" => op.id \notin Foreign
    <3>1. o = "superseded" => Exists(rows[op.id])
      BY DEF outcome, applyOp
    <3> QED
      BY <3>1 DEF Barred
  <2>3. verdict(op, at) = o
    BY <2>1 DEF verdict
  <2> HIDE DEF o
  <2>4. o \in Verdicts
    BY <1>1 DEF o
  <2> QED
    BY <1>1, <2>1, <2>2, <2>3, <2>4 DEF Verdicts, Refusals, Done
<1>4. CASE Write(op, at)
  <2>1. /\ applied[op] = "none" /\ op.id \notin Foreign /\ verdict(op, at) = "applied"
        /\ applied' = [applied EXCEPT ![op] = "applied"]
    BY <1>4 DEF Write, verdict
  <2> QED
    BY <1>1, <2>1 DEF Refusals, Done
<1>5. CASE op.id \in Foreign /\ RollBack(op, at)
  <2>1. applied' = applied /\ verdict(op, at) = "rejected"
    BY <1>5 DEF RollBack, verdict
  <2> QED
    BY <1>5, <2>1 DEF Refusals
<1> QED
  BY <1>2, <1>3, <1>4, <1>5 DEF applyOne

\* Nothing appears under an id another account holds.
LEMMA BarredStep ==
  ASSUME IInv, Barred, NEW op \in Ops, NEW at \in Nat \ {0}, applyOne(op, at)
  PROVE  Barred'
<1>1. ServerTypeOK /\ op.id \in Ids
  BY ConstantsAssumption DEF IInv, IsOp
<1>2. \A i \in Foreign : i \in Ids /\ (rows'[i] = rows[i] \/ i = op.id)
  BY <1>1, WriteRows, ConstantsAssumption
     DEF applyOne, Replay, RecordRefusal, RollBack, serverVars
<1>3. op.id \in Foreign => rows' = rows
  BY DEF applyOne, Replay, RecordRefusal, Write, RollBack, serverVars
<1>4. \A i \in Foreign : ~Exists(rows'[i])
  BY <1>2, <1>3 DEF Barred
<1>5. \A o \in Ops : o.id \in Foreign => applied'[o] \notin Done
  BY <1>1, JudgedOnce DEF Barred, Done, Refusals
<1> QED
  BY <1>4, <1>5 DEF Barred

LEMMA HandledLedger ==
  ASSUME SyncTypeOK, IInv, LedgerInv, NEW x \in net, HandleOp(x)
  PROVE  LedgerInv' /\ \A op \in Ops : Moves(op)
<1> DEFINE k == Len(x.verdicts) + 1
           at == IF x.at = 0 THEN now ELSE x.at
           op == x.ops[k]
           v == verdict(op, at)
<1>1. /\ k \in DOMAIN x.ops /\ op \in Ops /\ at \in 1 .. now
      /\ v \in Verdicts \cup {"duplicate"} /\ applyOne(op, at) /\ ServerTypeOK
      /\ x \in Exchange /\ now \in Nat
  BY HandledOp DEF HandleOp, SyncTypeOK, IInv, ServerTypeOK
<1>2. /\ x.state = "open" /\ store' = store /\ minted' = minted /\ proc' = proc
      /\ net' = (net \ {x}) \cup {[x EXCEPT !.at = at, !.verdicts = Append(@, v)]}
  BY DEF HandleOp, clientVars
<1> HIDE DEF at, v
<1>3. op \in minted
  BY <1>1 DEF LedgerInv, Sent
<1>4. /\ \A o \in Ops \ {op} : applied'[o] = applied[o]
      /\ \/ applied'[op] = applied[op]
         \/ /\ applied[op] = "none"
            /\ applied'[op] \in Refusals \cup (IF op.id \in Foreign THEN {} ELSE Done)
      /\ IF v \in Refusals THEN applied'[op] \in Refusals \/ op.id \in Foreign
                           ELSE applied'[op] \in Done
  BY <1>1, JudgedOnce DEF LedgerInv, v
<1>5. \A o \in Ops : /\ Refusable(o) => Refusable(o)'
                     /\ applied[o] \in Done => applied'[o] \in Done
  BY <1>4 DEF Refusable, Refusals, Done
<1>6. minted \subseteq Ops /\ \A s \in Stores : store[s] \in StoreType
  BY DEF SyncTypeOK
<1>7. Owned'
  <2>1. \A s \in Stores : \A e \in ToSet(store[s].outbox) : e.op \in Ops
    BY <1>6 DEF LedgerInv, Owned
  <2> QED
    BY <1>2, <1>5, <2>1 DEF LedgerInv, Owned
<1>8. Answerable'
  BY <1>2, <1>5, <1>6 DEF LedgerInv, Answerable
<1>9. Sent'
  <2>0. PICK z : z = [x EXCEPT !.at = at, !.verdicts = Append(@, v)]
    OBVIOUS
  <2>1. /\ z.ops = x.ops /\ z.state = "open" /\ z.verdicts = Append(x.verdicts, v)
    BY <1>1, <1>2, <2>0 DEF Exchange
  <2>2. net' = (net \ {x}) \cup {z}
    BY <1>2, <2>0
  <2>3. /\ Len(x.verdicts) \in Nat /\ Len(x.ops) \in Nat /\ Len(z.verdicts) = k
        /\ z.verdicts[k] = v
        /\ \A i \in 1 .. Len(x.verdicts) : z.verdicts[i] = x.verdicts[i]
    BY <1>1, <2>1 DEF Exchange
  <2>4. ASSUME NEW y \in net
        PROVE  /\ \A i \in DOMAIN y.ops : y.ops[i] \in minted
               /\ Len(y.ops) <= MAX_OPS /\ Len(y.verdicts) <= Len(y.ops)
               /\ y.state = "answered" => Len(y.verdicts) = Len(y.ops)
               /\ Small => y.state # "refused"
               /\ Spoken(y)'
    <3>1. y \in Exchange /\ y \in net
      BY DEF SyncTypeOK
    <3>2. \A i \in 1 .. Len(y.verdicts) : i \in DOMAIN y.ops /\ y.ops[i] \in Ops
      <4>1. Len(y.verdicts) \in Nat /\ Len(y.ops) \in Nat /\ DOMAIN y.ops = 1 .. Len(y.ops)
            /\ Len(y.verdicts) <= Len(y.ops)
        BY <3>1 DEF Exchange, LedgerInv, Sent
      <4> QED
        BY <3>1, <4>1 DEF Exchange
    <3>3. Spoken(y)'
      BY <1>5, <3>1, <3>2 DEF LedgerInv, Sent, Spoken
    <3> QED
      BY <3>1, <3>3 DEF LedgerInv, Sent
  <2>5. Spoken(z)'
    <3> SUFFICES ASSUME NEW i \in 1 .. k
                 PROVE  IF z.verdicts[i] \in Refusals THEN Refusable(z.ops[i])'
                                                      ELSE applied'[z.ops[i]] \in Done
      BY <2>3 DEF Spoken
    <3>1. CASE i = k
      BY <1>4, <2>1, <2>3, <3>1 DEF Refusable
    <3>2. CASE i # k
      BY <2>1, <2>3, <2>4, <3>2 DEF Spoken
    <3> QED
      BY <3>1, <3>2
  <2>6. k <= Len(x.ops)
    BY <1>1 DEF Exchange
  <2> QED
    BY <1>2, <2>1, <2>2, <2>3, <2>4, <2>5, <2>6 DEF LedgerInv, Sent
<1>10. Barred'
  BY <1>1, BarredStep DEF LedgerInv
<1>11. ASSUME NEW o \in Ops
       PROVE  Moves(o)
  <2>1. Place(o)' = Place(o)
    BY <1>2 DEF Place, StatusOf
  <2>2. CASE applied'[o] = applied[o]
    BY <2>1, <2>2 DEF Moves
  <2>3. CASE applied'[o] # applied[o]
    <3>1. o = op /\ o \in minted
      BY <1>3, <1>4, <2>3
    <3>2. Place(o) # "unminted"
      <4>1. MintedBy[o] \in Stores
        BY ClientsAssumption
      <4>2. StatusOf(store[MintedBy[o]], o) \in {"pending", "failed", "absent"}
        BY <1>6, <4>1, StatusIs, EntriesOf DEF LedgerInv, Owned, Entries
      <4> QED
        BY <3>1, <4>2 DEF Place
    <3> QED
      BY <1>4, <2>1, <2>3, <3>1, <3>2 DEF Moves
  <2> QED
    BY <2>2, <2>3
<1> QED
  BY <1>7, <1>8, <1>9, <1>10, <1>11 DEF LedgerInv

LEMMA LedgerRests ==
  ASSUME Owned, Answerable, UNCHANGED <<applied, minted, store>>
  PROVE  Owned' /\ Answerable' /\ \A op \in Ops : Moves(op)
<1>1. \A op : Refusable(op)' = Refusable(op)
  BY DEF Refusable
<1>2. \A op : Place(op)' = Place(op)
  BY DEF Place, StatusOf
<1> QED
  BY <1>1, <1>2 DEF Owned, Answerable, Moves

LEMMA PullLedger ==
  ASSUME SyncTypeOK, LedgerInv, NEW x \in net, HandlePull(x)
  PROVE  LedgerInv' /\ \A op \in Ops : Moves(op)
<1>1. /\ UNCHANGED <<applied, minted, store, rows>> /\ proc' = proc
      /\ x \in Exchange /\ Len(x.verdicts) = Len(x.ops)
  BY DEF HandlePull, clientVars, serverVars, SyncTypeOK
<1> DEFINE gone == [x EXCEPT !.state = "gone"]
           answered == [x EXCEPT !.state = "answered", !.answer = changesSince(x.since)]
<1>2. \A y \in net' : y \in net \/ y = gone \/ y = answered
  BY DEF HandlePull
<1>3. /\ gone.ops = x.ops /\ gone.verdicts = x.verdicts /\ gone.state = "gone"
      /\ answered.ops = x.ops /\ answered.verdicts = x.verdicts
      /\ answered.state = "answered"
  BY <1>1 DEF Exchange
<1> HIDE DEF gone, answered
<1>4. \A y \in net' :
        \/ y \in net
        \/ /\ y.ops = x.ops /\ y.verdicts = x.verdicts
           /\ Len(y.verdicts) = Len(y.ops) /\ y.state # "refused"
  BY <1>1, <1>2, <1>3
<1>5. \A op : Refusable(op)' = Refusable(op)
  BY <1>1 DEF Refusable
<1>6. ASSUME NEW y \in net'
      PROVE  /\ \A k \in DOMAIN y.ops : y.ops[k] \in minted
             /\ Len(y.ops) <= MAX_OPS /\ Len(y.verdicts) <= Len(y.ops)
             /\ y.state = "answered" => Len(y.verdicts) = Len(y.ops)
             /\ Small => y.state # "refused"
             /\ \A k \in 1 .. Len(y.verdicts) :
                  IF y.verdicts[k] \in Refusals THEN Refusable(y.ops[k])
                                                ELSE applied[y.ops[k]] \in Done
  <2>1. CASE y \in net
    BY <2>1 DEF LedgerInv, Sent, Spoken
  <2>2. CASE y \notin net
    <3>1. /\ y.ops = x.ops /\ y.verdicts = x.verdicts
          /\ Len(y.verdicts) = Len(y.ops) /\ y.state # "refused"
      BY <1>4, <2>2
    <3> QED
      BY <3>1 DEF LedgerInv, Sent, Spoken
  <2> QED
    BY <2>1, <2>2
<1>7. Sent'
  BY <1>1, <1>5, <1>6 DEF LedgerInv, Sent, Spoken
<1>8. Barred'
  BY <1>1 DEF LedgerInv, Barred
<1> QED
  BY <1>1, <1>7, <1>8, LedgerRests DEF LedgerInv

\* Only a request larger than the server takes is refused.
LEMMA RefuseLedger ==
  ASSUME SyncTypeOK, LedgerInv, NEW x \in net, RefuseBatch(x)
  PROVE  LedgerInv' /\ \A op \in Ops : Moves(op)
<1>1. /\ UNCHANGED <<applied, minted, store, rows>> /\ proc' = proc
      /\ x \in Exchange /\ Len(x.ops) > MaxBody
  BY DEF RefuseBatch, clientVars, serverVars, SyncTypeOK
<1>2. ~Small
  <2>1. Len(x.ops) \in Nat /\ Len(x.ops) <= MAX_OPS
    BY <1>1 DEF LedgerInv, Sent, Exchange
  <2> QED
    BY <1>1, <2>1, ClientsAssumption DEF Small
<1> DEFINE refused == [x EXCEPT !.state = "refused"]
<1>3. \A y \in net' : y \in net \/ y = refused
  BY DEF RefuseBatch
<1>4. /\ refused.ops = x.ops /\ refused.verdicts = x.verdicts
      /\ refused.state = "refused"
  BY <1>1 DEF Exchange
<1> HIDE DEF refused
<1>5. \A op : Refusable(op)' = Refusable(op)
  BY <1>1 DEF Refusable
<1>6. Sent'
  BY <1>1, <1>2, <1>3, <1>4, <1>5 DEF LedgerInv, Sent, Spoken
<1>7. Barred'
  BY <1>1 DEF LedgerInv, Barred
<1> QED
  BY <1>1, <1>6, <1>7, LedgerRests DEF LedgerInv

LEMMA HousekeepingLedger ==
  ASSUME IInv, LedgerInv, Housekeeping \/ UNCHANGED vars
  PROVE  LedgerInv' /\ \A op \in Ops : Moves(op)
<1>1. UNCHANGED <<applied, minted, store>> /\ proc' = proc /\ net' = net
  BY DEF Housekeeping, pruneUser, Tick, clientVars, vars, serverVars
<1>2. \A op : Refusable(op)' = Refusable(op)
  BY <1>1 DEF Refusable
<1>3. Sent'
  BY <1>1, <1>2 DEF LedgerInv, Sent, Spoken
<1>4. ASSUME NEW at, pruneUser(at)
      PROVE  \A i \in Ids : Exists(rows'[i]) => Exists(rows[i])
  BY <1>4, PrunedRow DEF IInv, Exists, NoRow
<1>5. \A i \in Ids : Exists(rows'[i]) => Exists(rows[i])
  BY <1>4 DEF Housekeeping, Tick, vars, serverVars
<1>6. Barred'
  BY <1>1, <1>5, ConstantsAssumption DEF LedgerInv, Barred
<1> QED
  BY <1>1, <1>3, <1>6, LedgerRests DEF LedgerInv

----------------------------------------------------------------------------

LEMMA LedgerInit == Init => LedgerInv
<1> SUFFICES ASSUME Init PROVE LedgerInv
  OBVIOUS
<1>1. rows = [i \in Ids |-> NoRow] /\ applied = [op \in Ops |-> "none"]
  BY DEF Init, ServerInit
<1>2. /\ \A s \in Stores : ToSet(store[s].outbox) = {}
      /\ minted = {} /\ net = {}
      /\ \A p \in Procs : DOMAIN proc[p].todo = {}
  BY DEF Init, EmptyStore, Idle, ToSet
<1>3. Barred
  BY <1>1, ConstantsAssumption DEF Barred, Exists, NoRow, Done
<1> QED
  BY <1>2, <1>3 DEF LedgerInv, Owned, Single, Answerable, Sent

LEMMA LedgerStep ==
  ASSUME SyncInv, SyncInv', LedgerInv, [Next]_vars
  PROVE  LedgerInv' /\ \A op \in Ops : Moves(op)
<1>1. /\ SyncTypeOK /\ SyncTypeOK' /\ IInv
      /\ Owned /\ Answerable /\ Sent /\ Barred
  BY DEF SyncInv, ServerSound, LedgerInv
<1>2. ASSUME NEW p \in Procs,
             \/ \E op \in Ops : Mint(p, op) \/ Drop(p, op)
             \/ StartFlush(p) \/ Send(p) \/ Report(p) \/ GiveUp(p)
             \/ Answered(p) \/ AnsweredGone(p) \/ AnsweredRefused(p)
      PROVE  LedgerInv' /\ \A op \in Ops : Moves(op)
  <2>1. OutboxesMove /\ Sent' /\ UNCHANGED serverVars
    BY <1>1, <1>2, OwnLedger, SendLedger, GiveUpLedger, AnsweredLedger,
       AnsweredGoneLedger, AnsweredRefusedLedger
  <2>2. UNCHANGED applied /\ Barred'
    BY <1>1, <2>1 DEF serverVars, Barred
  <2> QED
    BY <1>1, <2>1, <2>2, ClientLedger DEF LedgerInv
<1>3. ASSUME NEW x \in net, HandleOp(x) \/ HandlePull(x) \/ RefuseBatch(x)
      PROVE  LedgerInv' /\ \A op \in Ops : Moves(op)
  BY <1>1, <1>3, HandledLedger, PullLedger, RefuseLedger
<1>4. ASSUME Housekeeping \/ UNCHANGED vars
      PROVE  LedgerInv' /\ \A op \in Ops : Moves(op)
  BY <1>1, <1>4, HousekeepingLedger
<1> QED
  BY <1>2, <1>3, <1>4 DEF Next

LEMMA LedgerCorrect == CreatedOnce(Ops) => (Spec => [](SyncInv /\ LedgerInv))
<1> SUFFICES ASSUME CreatedOnce(Ops) PROVE Spec => [](SyncInv /\ LedgerInv)
  OBVIOUS
<1>1. Init => LedgerInv
  BY LedgerInit
<1>2. SyncInv /\ SyncInv' /\ LedgerInv /\ [Next]_vars => LedgerInv'
  BY LedgerStep
<1> QED
  BY <1>1, <1>2, SyncInvCorrect, PTL DEF Spec

\* However many processes share a store, whatever is lost, answered late,
\* refused unread or asked again: an operation stays in its outbox until the
\* verdict the server recorded for it is known, or the very request its process
\* waits for was refused whole; it is judged at most once, and it leaves only
\* as that verdict says (submit, flush, settle, applyOne, replay).
THEOREM OperationsFollowTheLedger ==
  CreatedOnce(Ops) => (Spec => ImplementsLedger)
<1> SUFFICES ASSUME CreatedOnce(Ops) PROVE Spec => ImplementsLedger
  OBVIOUS
<1> DEFINE place == [op \in Ops |-> IF op \in minted THEN StatusOf(store[MintedBy[op]], op)
                                                     ELSE "unminted"]
<1>1. Init => Ledger!Init
  <2> SUFFICES ASSUME Init PROVE Ledger!Init
    OBVIOUS
  <2>1. minted = {} /\ applied = [op \in Ops |-> "none"]
    BY DEF Init, ServerInit
  <2> QED
    BY <2>1 DEF Ledger!Init
<1>2. SyncInv /\ SyncInv' /\ LedgerInv /\ [Next]_vars => [Ledger!Next]_<<place, applied>>
  <2> SUFFICES ASSUME SyncInv, SyncInv', LedgerInv, [Next]_vars PROVE Ledger!Next
    OBVIOUS
  <2>1. \A op \in Ops : /\ place[op] = Place(op) /\ place'[op] = Place(op)'
                        /\ op \in {o \in Ops : o.id \in Foreign} <=> op.id \in Foreign
    BY DEF Place
  <2>2. ASSUME NEW op \in Ops
        PROVE  Moves(op)
    BY LedgerStep
  <2> HIDE DEF place
  <2>3. ASSUME NEW op \in Ops
        PROVE  \/ Ledger!Queued(op) \/ Ledger!Judged(op) \/ Ledger!Settled(op)
               \/ Ledger!Dropped(op) \/ Ledger!Unmoved(op)
    <3>1. place[op] = Place(op) /\ place'[op] = Place(op)'
      BY <2>1
    <3> QED
      BY <2>2, <3>1
         DEF Moves, Ledger!Queued, Ledger!Judged, Ledger!Settled, Ledger!Dropped,
             Ledger!Unmoved, Ledger!Done, Ledger!Refused, Done, Refusals, Refusable, place
  <2> QED
    BY <2>3 DEF Ledger!Next
<1> QED
  BY <1>1, <1>2, LedgerCorrect, PTL DEF Spec, ImplementsLedger, Ledger!Spec

----------------------------------------------------------------------------
(* A user's own edit does not flicker.                                     *)

Showing(r, op) ==
  \A f \in DOMAIN op.fields \ derivedIdKeys(op.id) :
    r[op.id].fieldTs[f] >= clamp(op.ts, 1)

\* A replica shows the edit or a later one, unless its row is gone.
Seen(rs, r, op) == ~Visible(rs, op.id) \/ Showing(r, op)

Left(s, op) == \A e \in ToSet(store[s].outbox) : e.op # op

\* What left its outbox is seen, and what leaves it with an answer is seen
\* once the answer is taken in.
EditsShown ==
  /\ \A s \in Stores : store[s].cursor # 0 =>
       \A op \in minted :
         MintedBy[op] = s /\ applied[op] \in Done /\ Left(s, op) =>
           Seen(rows, store[s].rows, op)
  /\ \A x \in net : x.by # Nobody /\ x.state = "answered" =>
       \A op \in minted :
         (/\ MintedBy[op] = StoreOf[x.by] /\ applied[op] \in Done
          /\ Left(MintedBy[op], op) \/ op \in ToSet(x.ops)) =>
           Seen(rows, Merged(store[StoreOf[x.by]], x.answer).rows, op)

\* A row that had an edit and is not visible stays so.
LEMMA HiddenStays ==
  ASSUME CreatedOnce(Ops), ServerSound, ServerSound', Outdone, [ServerNext]_serverVars,
         NEW op \in Ops, applied[op] \in Done, ~Visible(rows, op.id)
  PROVE  ~Visible(rows', op.id)
<1> DEFINE i == op.id
<1>1. /\ i \in Ids /\ IInv /\ History /\ Begun /\ Keyed /\ Keyed'
  BY ConstantsAssumption DEF ServerSound, History, IsOp
<1>2. AppliedTo(i) # {}
  BY DEF Outdone, Done, AppliedTo
<1>3. CASE ~Live(rows[i])
  BY <1>1, <1>2, <1>3, StaysDead DEF Visible
<1>4. ASSUME Live(rows[i]), IsDerived(i), NEW f \in {"taskId", "tagId"} \cap derivedIdKeys(i),
             rows[i].val[f] # Null, ~Live(rows[rows[i].val[f]])
      PROVE  ~Visible(rows', i)
  <2> DEFINE k == KeyOf[i][f]
  <2>1. f \in Owners(i) /\ f \in derivedIdKeys(i) /\ Exists(rows[i])
    BY <1>4 DEF Owners, Live
  <2>2. rows[i].val[f] = k /\ k \in Ids /\ Exists(rows[k])
    BY <1>1, <1>4, <2>1 DEF Keyed
  <2>3. AppliedTo(k) # {}
    BY <1>1, <2>2 DEF Begun, Created
  <2>4. ~Live(rows'[k])
    BY <1>1, <1>4, <2>2, <2>3, StaysDead
  <2>5. Exists(rows'[i]) => rows'[i].val[f] = k
    BY <1>1, <1>4, <2>1 DEF Keyed
  <2> QED
    BY <1>4, <2>2, <2>4, <2>5 DEF Visible, Live
<1> QED
  BY <1>3, <1>4 DEF Visible

\* An answer, taken in, shows every edit that was settled before it.
LEMMA PullShows ==
  ASSUME ServerSound, NoOlder, NEW s \in StoreType, Faithful(rows, seq, s.rows, s.cursor),
         NEW op \in Ops, applied[op] \in Done
  PROVE  Seen(rows, Merged(s, changesSince(s.cursor)).rows, op)
<1> DEFINE a == changesSince(s.cursor)
           t == Merged(s, a)
<1>1. /\ ServerTypeOK /\ s.cursor \in Nat /\ s.cursor <= seq /\ op.id \in Ids
      /\ seq \in Nat /\ rows \in [Ids -> Row]
  BY ConstantsAssumption DEF ServerSound, IInv, ServerTypeOK, StoreType, Faithful, IsOp
<1>2. /\ a \in Pull /\ Covering(rows, seq, s.cursor, a)
  BY <1>1, PullOf, PullIsCovering
<1>3. /\ s.cursor <= a.cursor
      /\ \A i \in Ids : s.cursor = 0 \/ rows[i].seq > s.cursor => rows[i].seq <= a.cursor
  BY <1>1, PullOf
<1> HIDE DEF a
<1>4. Faithful(rows, seq, t.rows, t.cursor)
  BY <1>1, <1>2, MergeIsFaithful DEF Merged
<1>5. t.cursor = IF a.cursor > s.cursor THEN a.cursor ELSE s.cursor
  BY <1>2, MergeType DEF Merged
<1> HIDE DEF t
<1>6. \A i \in Ids : rows[i].seq <= t.cursor
  <2>1. a.cursor \in Nat /\ \A i \in Ids : rows[i].seq \in Nat
    BY <1>1, <1>2 DEF Pull, Row
  <2>2. ASSUME NEW i \in Ids
        PROVE  rows[i].seq <= t.cursor
    BY <1>1, <1>3, <1>5, <2>1
  <2> QED
    BY <2>2
<1>7. Visible(rows, op.id) => t.rows[op.id] = rows[op.id] /\ Live(rows[op.id])
  BY <1>1, <1>4, <1>6 DEF Faithful, Complete, Visible
<1>8. Visible(rows, op.id) => Showing(t.rows, op)
  BY <1>7 DEF Showing, NoOlder, Done
<1> QED
  BY <1>8 DEF Seen, t, a

\* An operation that is newly settled still waits in its outbox, and no answer
\* speaks of it yet.
LEMMA NewlySettled ==
  ASSUME Small, LedgerInv, LedgerInv', SyncTypeOK, NEW op \in Ops, op \in minted, Moves(op),
         applied'[op] \in Done, applied[op] \notin Done
  PROVE  /\ ~Left(MintedBy[op], op)
         /\ \A x \in net : x.state = "answered" => op \notin ToSet(x.ops)
<1>1. applied[op] = "none"
  BY DEF Moves
<1>2. ~Refusable(op)
  BY <1>1 DEF LedgerInv, Barred, Refusable, Refusals
<1>3. ~Left(MintedBy[op], op)
  BY <1>2 DEF LedgerInv, Answerable, Left
<1>4. ASSUME NEW x \in net, x.state = "answered", op \in ToSet(x.ops)
      PROVE  FALSE
  <2>1. PICK k \in DOMAIN x.ops : x.ops[k] = op
    BY <1>4 DEF ToSet
  <2>2. k \in 1 .. Len(x.verdicts)
    BY <1>4, <2>1 DEF LedgerInv, Sent, SyncTypeOK, Exchange
  <2> QED
    BY <1>2, <1>4, <2>1, <2>2 DEF LedgerInv, Sent, Spoken
<1> QED
  BY <1>3, <1>4

\* What the server does while the stores stay as they are.
LEMMA ServerShows ==
  ASSUME CreatedOnce(Ops), Small, SyncInv, ServerSound', Tending, LedgerInv, LedgerInv',
         \A op \in Ops : Moves(op), Outdone, NoOlder, EditsShown,
         [ServerNext]_serverVars, store' = store, minted' = minted,
         \A y \in net' :
           \/ y \in net
           \/ y.by = Nobody
           \/ \E x \in net :
                /\ y.by = x.by /\ y.since = x.since
                /\ y.state = "answered" =>
                     /\ UNCHANGED serverVars
                     /\ ~Gone(x.since) /\ y.answer = changesSince(x.since)
  PROVE  EditsShown'
<1>1. /\ SyncTypeOK /\ ServerSound /\ Agreed /\ minted \subseteq Ops
      /\ \A op \in Ops : MintedBy[op] \in Stores
  BY ClientsAssumption DEF SyncInv, SyncTypeOK
<1>2. ASSUME NEW op \in Ops, applied[op] \in Done, NEW r, Seen(rows, r, op)
      PROVE  Seen(rows', r, op)
  BY <1>1, <1>2, HiddenStays DEF Seen
<1>3. ASSUME NEW s \in Stores, store[s].cursor # 0, NEW op \in minted,
             MintedBy[op] = s, applied'[op] \in Done, Left(s, op)
      PROVE  Seen(rows', store[s].rows, op)
  <2>1. applied[op] \in Done
    BY <1>1, <1>3, NewlySettled
  <2> QED
    BY <1>1, <1>2, <1>3, <2>1 DEF EditsShown
<1>4. ASSUME NEW x \in net, x.by # Nobody, x.state = "answered", NEW op \in minted,
             MintedBy[op] = StoreOf[x.by], applied'[op] \in Done,
             Left(MintedBy[op], op) \/ op \in ToSet(x.ops)
      PROVE  Seen(rows', Merged(store[StoreOf[x.by]], x.answer).rows, op)
  <2>1. applied[op] \in Done
    BY <1>1, <1>4, NewlySettled
  <2> QED
    BY <1>1, <1>2, <1>4, <2>1 DEF EditsShown
<1>5. ASSUME NEW x \in net, x.by # Nobody, UNCHANGED serverVars, ~Gone(x.since),
             NEW op \in minted, applied'[op] \in Done
      PROVE  Seen(rows', Merged(store[StoreOf[x.by]], changesSince(x.since)).rows, op)
  <2> DEFINE s == store[StoreOf[x.by]]
  <2>1. s \in StoreType /\ x.since = s.cursor /\ Faithful(rows, seq, s.rows, s.cursor)
    BY <1>1, <1>5, StoreOfExchange DEF Tending, Agreed
  <2>2. rows' = rows /\ applied' = applied
    BY <1>5 DEF serverVars
  <2> QED
    BY <1>1, <1>5, <2>1, <2>2, PullShows
<1>6. ASSUME NEW y \in net', y.by # Nobody, y.state = "answered", NEW op \in minted,
             MintedBy[op] = StoreOf[y.by], applied'[op] \in Done,
             Left(MintedBy[op], op) \/ op \in ToSet(y.ops)
      PROVE  Seen(rows', Merged(store[StoreOf[y.by]], y.answer).rows, op)
  <2>1. CASE y \in net
    BY <1>4, <1>6, <2>1
  <2>2. CASE y \notin net
    <3>1. PICK x \in net : /\ y.by = x.by /\ UNCHANGED serverVars /\ ~Gone(x.since)
                           /\ y.answer = changesSince(x.since)
      BY <1>6, <2>2
    <3> QED
      BY <1>5, <1>6, <3>1
  <2> QED
    BY <2>1, <2>2
<1> DEFINE seenNext(r, op) == Seen(rows', r, op)
           left(s, op) == \A e \in ToSet(store[s].outbox) : e.op # op
<1> HIDE DEF seenNext
<1>7. \A s \in Stores : store'[s].cursor # 0 =>
        \A op \in minted' :
          MintedBy[op] = s /\ applied'[op] \in Done /\ left(s, op) =>
            seenNext(store'[s].rows, op)
  BY <1>3 DEF Left, seenNext
<1>8. \A y \in net' : y.by # Nobody /\ y.state = "answered" =>
        \A op \in minted' :
          (/\ MintedBy[op] = StoreOf[y.by] /\ applied'[op] \in Done
           /\ left(MintedBy[op], op) \/ op \in ToSet(y.ops)) =>
            seenNext(Merged(store[StoreOf[y.by]], y.answer).rows, op)
  BY <1>6 DEF Left, seenNext
<1> QED
  BY <1>7, <1>8
     DEF EditsShown, Seen, seenNext, Left, Merged, advanceCursor, mergeChanges

\* What a client does while the server stays as it is, when what leaves an
\* outbox leaves it as failed.
LEMMA ClientShows ==
  ASSUME Small, SyncInv, LedgerInv, OutboxesMove, EditsShown, UNCHANGED serverVars,
         SyncTypeOK',
         \A s \in Stores : \A e \in ToSet(store[s].outbox) :
           e \in ToSet(store'[s].outbox) \/ e.status = "failed",
         \A s \in Stores : store'[s].rows = store[s].rows /\ store'[s].cursor = store[s].cursor,
         \A y \in net' : y \in net \/ y.by = Nobody \/ y.state = "open"
  PROVE  EditsShown'
<1>1. /\ SyncTypeOK /\ minted \subseteq Ops /\ rows' = rows /\ applied' = applied
      /\ \A op \in Ops : MintedBy[op] \in Stores
  BY ClientsAssumption DEF SyncInv, SyncTypeOK, serverVars
<1> DEFINE left(op) == \A e \in ToSet(store'[MintedBy[op]].outbox) : e.op # op
<1>2. ASSUME NEW op \in minted', left(op), applied[op] \in Done
      PROVE  op \in minted /\ Left(MintedBy[op], op)
  <2>1. op \in minted
    BY <1>2 DEF OutboxesMove, Minting
  <2>2. ASSUME NEW e \in ToSet(store[MintedBy[op]].outbox), e.op = op
        PROVE  FALSE
    <3>1. e.status = "failed"
      BY <1>1, <1>2, <2>1, <2>2
    <3>2. Refusable(op)
      BY <1>1, <2>1, <2>2, <3>1 DEF LedgerInv, Owned
    <3> QED
      BY <1>1, <1>2, <2>1, <3>2 DEF LedgerInv, Barred, Refusable, Refusals, Done
  <2> QED
    BY <2>1, <2>2 DEF Left
<1> DEFINE seen(r, op) == Seen(rows, r, op)
<1>3. ASSUME NEW s \in Stores, store'[s].cursor # 0, NEW op \in minted',
             MintedBy[op] = s, applied[op] \in Done, left(op)
      PROVE  seen(store'[s].rows, op)
  BY <1>2, <1>3 DEF EditsShown
<1>4. ASSUME NEW y \in net', y.by # Nobody, y.state = "answered", NEW op \in minted',
             MintedBy[op] = StoreOf[y.by], applied[op] \in Done,
             left(op) \/ op \in ToSet(y.ops)
      PROVE  seen(Merged(store'[StoreOf[y.by]], y.answer).rows, op)
  <2> DEFINE s == store[StoreOf[y.by]]
             t == store'[StoreOf[y.by]]
  <2>1. y \in net
    BY <1>4
  <2>2. /\ s \in StoreType /\ t \in StoreType /\ y.answer \in Pull
        /\ t.rows = s.rows /\ t.cursor = s.cursor
    BY <1>1, <1>4, <2>1, StoreOfExchange DEF SyncTypeOK
  <2>3. Merged(t, y.answer).rows = Merged(s, y.answer).rows
    BY <2>2, MergedReplica
  <2>4. op \in minted /\ (Left(MintedBy[op], op) \/ op \in ToSet(y.ops))
    <3>1. CASE left(op)
      BY <1>2, <1>4, <3>1
    <3>2. CASE op \in ToSet(y.ops)
      BY <1>4, <2>1, <3>2 DEF LedgerInv, Sent, ToSet
    <3> QED
      BY <1>4, <3>1, <3>2
  <2>5. Seen(rows, Merged(s, y.answer).rows, op)
    BY <1>4, <2>1, <2>4 DEF EditsShown
  <2> QED
    BY <2>3, <2>5
<1> HIDE DEF seen
<1>5. \A s \in Stores : store'[s].cursor # 0 =>
        \A op \in minted' :
          MintedBy[op] = s /\ applied[op] \in Done /\ left(op) => seen(store'[s].rows, op)
  BY <1>3
<1>6. \A y \in net' : y.by # Nobody /\ y.state = "answered" =>
        \A op \in minted' :
          (/\ MintedBy[op] = StoreOf[y.by] /\ applied[op] \in Done
           /\ left(op) \/ op \in ToSet(y.ops)) =>
            seen(Merged(store'[StoreOf[y.by]], y.answer).rows, op)
  BY <1>4
<1> QED
  BY <1>1, <1>5, <1>6 DEF EditsShown, Seen, seen, Left, Merged, advanceCursor, mergeChanges

LEMMA QuietShows ==
  ASSUME Small, SyncInv, LedgerInv, EditsShown, SyncTypeOK', NEW p \in Procs,
         \/ \E op \in Ops : Mint(p, op) \/ Drop(p, op)
         \/ StartFlush(p) \/ Send(p) \/ Report(p) \/ GiveUp(p)
  PROVE  EditsShown'
<1> USE ClientsAssumption
<1>1. /\ SyncTypeOK /\ Owned /\ Sent /\ StoreOf[p] \in Stores
      /\ store[StoreOf[p]] \in StoreType
  BY DEF SyncInv, LedgerInv, SyncTypeOK
<1>2. OutboxesMove /\ UNCHANGED serverVars
  BY <1>1, OwnLedger, SendLedger, GiveUpLedger
<1>3. \A s \in Stores : store'[s].rows = store[s].rows /\ store'[s].cursor = store[s].cursor
  <2>1. ASSUME Send(p) \/ GiveUp(p) PROVE store' = store
    BY <2>1 DEF Send, GiveUp
  <2> QED
    BY <1>1, <2>1, ReplicaKept
<1>4. \A s \in Stores : \A e \in ToSet(store[s].outbox) :
        e \in ToSet(store'[s].outbox) \/ e.status = "failed"
  <2>1. ASSUME NEW op \in Ops, Mint(p, op)
        PROVE  \A s \in Stores : ToSet(store[s].outbox) \subseteq ToSet(store'[s].outbox)
    <3>1. store' = [store EXCEPT ![StoreOf[p]] = enqueue(store[StoreOf[p]], op)]
      BY <1>1, <2>1 DEF Mint, SyncTypeOK
    <3>2. ToSet(enqueue(store[StoreOf[p]], op).outbox)
            = ToSet(store[StoreOf[p]].outbox) \cup {Entry(op)}
      BY <1>1, Enqueued
    <3> QED
      BY <1>1, <3>1, <3>2 DEF SyncTypeOK
  <2>2. ASSUME StartFlush(p) \/ Send(p) \/ GiveUp(p) PROVE store' = store
    BY <2>2 DEF StartFlush, Send, GiveUp
  <2>3. ASSUME NEW op \in Ops, Drop(p, op)
        PROVE  \A s \in Stores : \A e \in ToSet(store[s].outbox) :
                 e \in ToSet(store'[s].outbox) \/ e.status = "failed"
    BY <1>1, <2>3, DropGoes
  <2>4. ASSUME Report(p)
        PROVE  \A s \in Stores : \A e \in ToSet(store[s].outbox) :
                 e \in ToSet(store'[s].outbox) \/ e.status = "failed"
    BY <1>1, <2>4, ReportGoes
  <2> QED
    BY <2>1, <2>2, <2>3, <2>4
<1>5. \A y \in net' : y \in net \/ y.by = Nobody \/ y.state = "open"
  <2>1. CASE Send(p)
    <3>1. PICK since, ops : net' = net \cup {Request(p, since, ops)}
      BY <2>1 DEF Send
    <3>2. Request(p, since, ops).state = "open"
      BY DEF Request
    <3> QED
      BY <3>1, <3>2
  <2>2. CASE GiveUp(p)
    <3> DEFINE left(x) == [x EXCEPT !.by = Nobody]
    <3>1. \A y \in net' : y \in net \/ \E x \in net : y = left(x)
      BY <2>2 DEF GiveUp, ExchangeOf
    <3>2. \A x \in net : left(x).by = Nobody
      BY <1>1 DEF SyncTypeOK, Exchange
    <3> HIDE DEF left
    <3> QED
      BY <3>1, <3>2
  <2>3. ASSUME (\E op \in Ops : Mint(p, op) \/ Drop(p, op)) \/ StartFlush(p) \/ Report(p)
        PROVE  net' = net
    BY <2>3 DEF Mint, Drop, StartFlush, Report
  <2> QED
    BY <2>1, <2>2, <2>3
<1> QED
  BY <1>2, <1>3, <1>4, <1>5, ClientShows

\* With a store to itself a process takes an answer in as it was when it asked.
LEMMA AnsweredShows ==
  ASSUME Solo, SyncInv, SyncTypeOK', Tending, EditsShown, NEW p \in Procs, Answered(p)
  PROVE  EditsShown'
<1> USE ClientsAssumption
<1> DEFINE s == StoreOf[p]
           spoken(x) == [op \in ToSet(x.ops) |->
                           x.verdicts[CHOOSE k \in DOMAIN x.ops : x.ops[k] = op]]
<1>1. PICK x \in ExchangeOf(p) :
        /\ x.state = "answered"
        /\ store' = [store EXCEPT ![s] =
             applyResponse(store[s], spoken(x), x.answer, proc[p].own, proc[p].since)]
        /\ net' = net \ {x}
        /\ UNCHANGED serverVars /\ minted' = minted
  BY DEF Answered
<1>2. /\ SyncTypeOK /\ s \in Stores /\ store[s] \in StoreType /\ x \in net /\ x.by = p
      /\ x.answer \in Pull /\ proc[p].since = x.since /\ x.since = store[s].cursor
      /\ x.by # Nobody
  BY <1>1 DEF ExchangeOf, SyncInv, Waiting, SyncTypeOK, Tending
<1> DEFINE settled == settle(store[s], spoken(x), proc[p].own)
           t == Merged(settled, x.answer)
<1>3. /\ settled \in StoreType /\ settled.rows = store[s].rows
      /\ settled.cursor = store[s].cursor
  BY <1>2, SettleType
<1>4. ~(settled.cursor < proc[p].since)
  <2> HIDE DEF settled
  <2>1. settled.cursor \in Nat /\ proc[p].since = settled.cursor
    BY <1>2, <1>3 DEF StoreType
  <2> QED
    BY <2>1
<1>5. store' = [store EXCEPT ![s] = t]
  BY <1>1, <1>4 DEF applyResponse, Merged
<1>6. t.outbox = settled.outbox
  <2> HIDE DEF settled
  <2> QED
    BY <1>3 DEF Merged, advanceCursor, mergeChanges, StoreType
<1>7. DOMAIN spoken(x) = ToSet(x.ops)
  OBVIOUS
<1>8. \A e \in ToSet(store[s].outbox) : e.op \notin ToSet(x.ops) => e \in ToSet(settled.outbox)
  <2> HIDE DEF spoken
  <2> QED
    BY <1>2, <1>7, SettledEntries
<1> HIDE DEF settled
<1>9. t.rows = Merged(store[s], x.answer).rows
  BY <1>2, <1>3, MergedReplica
<1> HIDE DEF t, spoken
<1>10. rows' = rows /\ applied' = applied /\ minted' = minted
  BY <1>1 DEF serverVars
<1>11. /\ store'[s] = t
       /\ \A q \in Stores \ {s} : store'[q] = store[q]
  BY <1>2, <1>5 DEF SyncTypeOK
<1> DEFINE left(op) == \A e \in ToSet(store'[MintedBy[op]].outbox) : e.op # op
           seen(r, op) == Seen(rows, r, op)
<1>12. ASSUME NEW op \in minted, MintedBy[op] = s, left(op)
       PROVE  Left(s, op) \/ op \in ToSet(x.ops)
  BY <1>6, <1>8, <1>11, <1>12 DEF Left
<1>13. ASSUME NEW q \in Stores, store'[q].cursor # 0, NEW op \in minted,
              MintedBy[op] = q, applied[op] \in Done, left(op)
       PROVE  seen(store'[q].rows, op)
  <2>1. CASE q = s
    BY <1>1, <1>2, <1>9, <1>11, <1>12, <1>13, <2>1 DEF EditsShown
  <2>2. CASE q # s
    BY <1>11, <1>13, <2>2 DEF EditsShown, Left
  <2> QED
    BY <2>1, <2>2
<1>14. ASSUME NEW y \in net', y.by # Nobody, y.state = "answered", NEW op \in minted,
              MintedBy[op] = StoreOf[y.by], applied[op] \in Done,
              left(op) \/ op \in ToSet(y.ops)
       PROVE  seen(Merged(store'[StoreOf[y.by]], y.answer).rows, op)
  <2>1. y \in net /\ y # x
    BY <1>1
  <2>2. StoreOf[y.by] # s /\ StoreOf[y.by] \in Stores
    BY <1>2, <1>14, <2>1, StoreOfExchange DEF SyncInv, Waiting, Solo
  <2> QED
    BY <1>11, <1>14, <2>1, <2>2 DEF EditsShown, Left
<1> HIDE DEF seen
<1>15. \A q \in Stores : store'[q].cursor # 0 =>
         \A op \in minted :
           MintedBy[op] = q /\ applied[op] \in Done /\ left(op) => seen(store'[q].rows, op)
  BY <1>13
<1>16. \A y \in net' : y.by # Nobody /\ y.state = "answered" =>
         \A op \in minted :
           (/\ MintedBy[op] = StoreOf[y.by] /\ applied[op] \in Done
            /\ left(op) \/ op \in ToSet(y.ops)) =>
             seen(Merged(store'[StoreOf[y.by]], y.answer).rows, op)
  BY <1>14
<1> QED
  BY <1>10, <1>15, <1>16 DEF EditsShown, Seen, seen, Left, Merged, advanceCursor, mergeChanges

\* Started over, a replica claims nothing until its snapshot is there.
LEMMA GoneShows ==
  ASSUME Solo, SyncInv, SyncTypeOK', EditsShown, NEW p \in Procs, AnsweredGone(p)
  PROVE  EditsShown'
<1> USE ClientsAssumption
<1> DEFINE s == StoreOf[p]
<1>1. PICK x \in ExchangeOf(p) :
        \/ net' = net \ {x} /\ UNCHANGED store
        \/ /\ store' = [store EXCEPT ![s] = resetReplica(store[s])]
           /\ net' = (net \ {x}) \cup {Request(p, 0, x.ops)}
  BY DEF AnsweredGone
<1>2. /\ SyncTypeOK /\ s \in Stores /\ store[s] \in StoreType /\ x \in net /\ x.by = p
      /\ x.by # Nobody /\ rows' = rows /\ applied' = applied /\ minted' = minted
  BY DEF AnsweredGone, ExchangeOf, SyncInv, SyncTypeOK, serverVars
<1>3. /\ \A q \in Stores : store'[q] = store[q] \/ (q = s /\ store'[q].cursor = 0)
      /\ \A q \in Stores \ {s} : store'[q] = store[q]
  <2>1. resetReplica(store[s]).cursor = 0
    BY <1>2 DEF resetReplica, StoreType
  <2> QED
    BY <1>1, <1>2, <2>1 DEF SyncTypeOK
<1>4. \A y \in net' : (y \in net /\ y # x) \/ y.state = "open"
  <2>1. Request(p, 0, x.ops).state = "open"
    BY DEF Request
  <2> QED
    BY <1>1, <2>1
<1> DEFINE left(op) == \A e \in ToSet(store'[MintedBy[op]].outbox) : e.op # op
           seen(r, op) == Seen(rows, r, op)
<1>5. ASSUME NEW q \in Stores, store'[q].cursor # 0, NEW op \in minted,
             MintedBy[op] = q, applied[op] \in Done, left(op)
      PROVE  seen(store'[q].rows, op)
  BY <1>3, <1>5 DEF EditsShown, Left
<1>6. ASSUME NEW y \in net', y.by # Nobody, y.state = "answered", NEW op \in minted,
             MintedBy[op] = StoreOf[y.by], applied[op] \in Done,
             left(op) \/ op \in ToSet(y.ops)
      PROVE  seen(Merged(store'[StoreOf[y.by]], y.answer).rows, op)
  <2>1. y \in net /\ y # x
    BY <1>4, <1>6
  <2>2. StoreOf[y.by] # s /\ StoreOf[y.by] \in Stores
    BY <1>2, <1>6, <2>1, StoreOfExchange DEF SyncInv, Waiting, Solo
  <2> QED
    BY <1>3, <1>6, <2>1, <2>2 DEF EditsShown, Left
<1> HIDE DEF seen
<1>7. \A q \in Stores : store'[q].cursor # 0 =>
        \A op \in minted :
          MintedBy[op] = q /\ applied[op] \in Done /\ left(op) => seen(store'[q].rows, op)
  BY <1>5
<1>8. \A y \in net' : y.by # Nobody /\ y.state = "answered" =>
        \A op \in minted :
          (/\ MintedBy[op] = StoreOf[y.by] /\ applied[op] \in Done
           /\ left(op) \/ op \in ToSet(y.ops)) =>
            seen(Merged(store'[StoreOf[y.by]], y.answer).rows, op)
  BY <1>6
<1> QED
  BY <1>2, <1>7, <1>8 DEF EditsShown, Seen, seen, Left, Merged, advanceCursor, mergeChanges

LEMMA EditsShownStep ==
  ASSUME CreatedOnce(Ops), Solo, Small, SyncInv, SyncInv', Tending, LedgerInv,
         Outdone, NoOlder, EditsShown, [Next]_vars
  PROVE  EditsShown'
<1>1. LedgerInv' /\ \A op \in Ops : Moves(op)
  BY LedgerStep
<1>2. SyncTypeOK' /\ ServerSound' /\ Sent /\ SyncTypeOK
  BY DEF SyncInv, LedgerInv
<1>3. [ServerNext]_serverVars
  BY ServerMoves DEF SyncInv, ServerSound, IInv
<1>4. ASSUME NEW p \in Procs,
             \/ \E op \in Ops : Mint(p, op) \/ Drop(p, op)
             \/ StartFlush(p) \/ Send(p) \/ Report(p) \/ GiveUp(p)
             \/ Answered(p) \/ AnsweredGone(p)
      PROVE  EditsShown'
  BY <1>2, <1>4, QuietShows, AnsweredShows, GoneShows
<1>5. \A p \in Procs : ~AnsweredRefused(p)
  BY <1>2 DEF AnsweredRefused, ExchangeOf, Sent
<1>6. ASSUME NEW x \in net, HandleOp(x) \/ HandlePull(x) \/ RefuseBatch(x)
      PROVE  EditsShown'
  <2>1. store' = store /\ minted' = minted
    BY <1>6 DEF HandleOp, HandlePull, RefuseBatch, clientVars
  <2>2. \A y \in net' :
          \/ y \in net \ {x}
          \/ /\ Served(x, y)
             /\ y.state = "answered" =>
                  /\ x.state = "open" /\ ~Gone(x.since) /\ UNCHANGED serverVars
                  /\ y.answer = changesSince(x.since) /\ y.answer \in Pull
                  /\ y.verdicts = x.verdicts /\ Len(x.verdicts) = Len(x.ops)
    BY <1>6, Serving
  <2>3. \A y \in net' : y \in net \/ (/\ y.by = x.by /\ y.since = x.since
                                      /\ y.state = "answered" =>
                                           /\ UNCHANGED serverVars /\ ~Gone(x.since)
                                           /\ y.answer = changesSince(x.since))
    BY <2>2 DEF Served
  <2> QED
    BY <1>1, <1>2, <1>3, <2>1, <2>3, ServerShows
<1>7. ASSUME Housekeeping \/ UNCHANGED vars
      PROVE  EditsShown'
  <2>1. store' = store /\ minted' = minted /\ net' = net
    BY <1>7 DEF Housekeeping, vars, clientVars
  <2> QED
    BY <1>1, <1>2, <1>3, <2>1, ServerShows
<1> QED
  BY <1>4, <1>5, <1>6, <1>7 DEF Next

\* With a store to itself, a device goes on showing a user's edit, or a later
\* one of the same column, when it has left the outbox, through answers that
\* are late or lost and after the replica was started over
\* (Store.applyResponse, settle, mergeFields).
THEOREM EditsStayShown ==
  CreatedOnce(Ops) /\ Solo /\ Small => (Spec => []SettledEditShown)
<1> SUFFICES ASSUME CreatedOnce(Ops), Solo, Small PROVE Spec => []SettledEditShown
  OBVIOUS
<1> DEFINE I == Tending /\ Outdone /\ NoOlder /\ EditsShown
<1>1. Init => I
  <2> SUFFICES ASSUME Init PROVE I
    OBVIOUS
  <2>1. minted = {} /\ net = {} /\ applied = [op \in Ops |-> "none"]
    BY DEF Init, ServerInit
  <2>2. Outdone /\ NoOlder /\ EditsShown
    BY <2>1 DEF Outdone, NoOlder, EditsShown
  <2> QED
    BY <2>2, TendingInit
<1>2. SyncInv /\ LedgerInv /\ I /\ SyncInv' /\ LedgerInv' /\ [Next]_vars => I'
  <2> SUFFICES ASSUME SyncInv, LedgerInv, I, SyncInv', LedgerInv', [Next]_vars
               PROVE  I'
    OBVIOUS
  <2>1. [ServerNext]_serverVars /\ IInv /\ History
    BY ServerMoves DEF SyncInv, ServerSound, IInv
  <2>2. Outdone' /\ NoOlder'
    BY <2>1, OutdoneStep, NoOlderStep
  <2>3. Tending'
    BY TendingStep
  <2>4. EditsShown'
    BY EditsShownStep
  <2> QED
    BY <2>2, <2>3, <2>4
<1>3. SyncInv /\ LedgerInv /\ I => SettledEditShown
  <2> SUFFICES ASSUME SyncInv, LedgerInv, EditsShown, NEW op \in minted,
                      StatusOf(store[MintedBy[op]], op) = "absent", applied[op] \in Done,
                      store[MintedBy[op]].cursor # 0
               PROVE  Seen(rows, store[MintedBy[op]].rows, op)
    BY DEF SettledEditShown, Seen, Showing, Done
  <2>1. /\ op \in Ops /\ MintedBy[op] \in Stores /\ store[MintedBy[op]] \in StoreType
        /\ Single(ToSet(store[MintedBy[op]].outbox))
    BY ClientsAssumption DEF SyncInv, SyncTypeOK, LedgerInv, Owned
  <2>2. \A e \in ToSet(store[MintedBy[op]].outbox) : e.status # "absent"
    BY <2>1, EntriesOf DEF Entries
  <2>3. Left(MintedBy[op], op)
    BY <2>1, <2>2, StatusIs DEF Left
  <2> QED
    BY <2>1, <2>3 DEF EditsShown
<1> HIDE DEF I
<1> QED
  BY <1>1, <1>2, <1>3, LedgerCorrect, PTL DEF Spec
=============================================================================
