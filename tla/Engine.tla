------------------------------- MODULE Engine -------------------------------
(***************************************************************************)
(* The engine of one account (client-core/engine.ts) over its store: the   *)
(* session, one sync at a time with triggers that arrive meanwhile, writes *)
(* that claim their command's id, the dispatcher's callers and the page    *)
(* that sends a held write again.  JavaScript runs to its next await, so   *)
(* an action is what happens between two awaits.                           *)
(*                                                                         *)
(* mode: "server" is the hub's engine (onlineOnly), "terminal" the TUI's,  *)
(* whose store a `todoer login` of another process may take over, and      *)
(* "accounts" an engine that signs in and out itself.  What a row says is  *)
(* left to Replica and Commands: here a replica is the accounts it holds,  *)
(* and the outbox the set of its entries, whose order is Replica's.        *)
(***************************************************************************)
EXTENDS Naturals, Sequences

CONSTANTS
  Cmds,       \* writes, named by the id the page minted
  Twofold,    \* those of them that queue two operations
  Tries,      \* bound: how often a page sends one write
  Triggers,   \* sync requests
  Accounts,
  Worlds,     \* [mode, writes, triggers, logins, untidy, known]
  MaxBad      \* bound: requests in which the server newly refuses operations

NoOne == "no one"
Tidy == "tidy"      \* what reconcile and seedStatuses queue

ASSUME EngineAssumption ==
  /\ Twofold \subseteq Cmds /\ Tidy \notin Cmds
  /\ Accounts # {} /\ Accounts \cap {NoOne, "unknown", "ended"} = {}
  /\ {Tries, MaxBad} \subseteq Nat
  /\ \A w \in Worlds :
       /\ w.mode \in {"server", "terminal", "accounts"}
       /\ {w.untidy, w.known} \subseteq BOOLEAN
       /\ w.known => w.mode # "server"
       /\ w.writes \subseteq Cmds \X (1..Tries) /\ w.triggers \subseteq Triggers

SyncRun == <<"sync", 0>>   \* the flush of a sync run
None == "none"
NoFlight == [at |-> None, batch |-> {}, by |-> NoOne, since |-> 0, results |-> << >>]

Asks == Cmds \X (1..Tries)
Flushers == Asks \cup {SyncRun}
\* An operation is its command and which of its ids it carries: the first one
\* carries the command's own, a second one is minted with each attempt.
Ops == (Cmds \cup {Tidy}) \X (0..Tries)

VARIABLES
  world,    \* which engine this is and what is asked of it; never changes
  e,        \* the engine and its store
  chain,    \* serial: the steps that never overlap, the first one running
  ask,      \* [Asks -> what the engine is doing for it]
  reply,    \* [Asks -> the engine's answer, None before it]
  gaveUp,   \* the asks whose answer the page waited for no longer
  trig,     \* [Triggers -> what the engine is doing for it]
  verdict,  \* the server: [Ops -> what it recorded, None if nothing]
  strays,   \* operations applied for another account than they were queued for
  doubtful, \* operations answered "could not be applied", with nothing recorded
  logins, bad

vars == <<world, e, chain, ask, reply, gaveUp, trig, verdict, strays, doubtful, logins, bad>>

mode == world.mode
onlineOnly == mode = "server"

----------------------------------------------------------------------------
(* The store, as the engine uses it.                                       *)

pendingOf(s) == {x \in s.outbox : ~x.failed}
inOutbox(s, op) == \E x \in s.outbox : x.op = op
isPending(s, op) == \E x \in pendingOf(s) : x.op = op

enqueued(s, ops) == [s EXCEPT !.outbox =
  @ \cup {[op |-> op, by |-> s.owner, failed |-> FALSE] : op \in ops}]

refusedIn(results, op) == results[op] \in {"rejected", "unrecorded"}

\* A refused operation of the running command goes; any other's stays as failed.
settle(s, results, own) ==
  LET kept == {x \in s.outbox :
        x.op \notin DOMAIN results
          \/ (refusedIn(results, x.op) /\ x.op \notin own)}
  IN  [s EXCEPT !.outbox =
        {[x EXCEPT !.failed = @ \/ x.op \in DOMAIN results] : x \in kept}]

\* The delta of a flush asked for with the cursor `since`; an account's rows
\* all come with its first answer.
applyDelta(s, f) ==
  IF s.cursor < f.since THEN s
  ELSE [s EXCEPT !.rows = IF f.since = 0 THEN @ \cup {f.by} ELSE @, !.cursor = 1]

\* release: a command whose every operation was refused gives its id back.
release(s, c, own, results) ==
  IF own # {} /\ \A op \in own : op \in DOMAIN results /\ refusedIn(results, op)
  THEN [s EXCEPT !.claims = @ \ {c}] ELSE s

\* adoptAccount: another account's queued operations refuse the sign-in, else
\* its replica goes.
\* Mutated: they do not.
foreignIgnored(s, acc) == FALSE
foreignOutbox(s, acc) == s.owner \notin {NoOne, acc} /\ s.outbox # {}
adoptAccount(s, acc) ==
  IF s.owner \in {NoOne, acc} THEN [s EXCEPT !.owner = acc]
  ELSE [s EXCEPT !.owner = acc, !.rows = {}, !.cursor = 0]

----------------------------------------------------------------------------
(* What is published, and the flushes.                                     *)

open(s) == s.session = "signed-in"
publishAll(s) == [s EXCEPT !.shown = IF open(s) THEN s.rows ELSE {}]

bearer(s) == IF s.held = "unknown" THEN s.owner ELSE s.held

\* core.send publishes first; the bearer is the account of that moment.
beginFlush(s, f) ==
  LET p == publishAll(s)
  IN  [p EXCEPT !.flight[f] =
        [at |-> "sent", batch |-> pendingOf(p), by |-> bearer(p),
         since |-> p.cursor, results |-> << >>]]

\* A run of the loop: `once`, from its start to its first await.
beginOnce(s) ==
  LET b == [s EXCEPT !.again = FALSE, !.owed = {}]
  IN  IF open(b) THEN beginFlush([b EXCEPT !.running = TRUE], SyncRun)
      ELSE [b EXCEPT !.running = FALSE]

\* A tick within TICK_GAP_MS of the last run is early.
Ticks == {"tick", "early tick"}

\* Mutated: a trigger during a run is taken for one the run covers.
runSyncOnce(s, reason) ==
  IF s.running THEN s
  ELSE IF reason = "early tick" THEN s ELSE beginOnce(s)
runSync(s, reason) ==
  IF s.running THEN [s EXCEPT !.again = @ \/ reason \notin Ticks]
  ELSE IF reason = "early tick" THEN s ELSE beginOnce(s)

\* The rest of `once`, and the loop.
\* Mutated: `once` waits for the run it asked for, which is its own.
endOnceStuck(s) ==
  LET p == publishAll([s EXCEPT !.flight[SyncRun] = NoFlight])
  IN  IF p.again THEN p ELSE [p EXCEPT !.running = FALSE]
endOnce(s) ==
  LET p == publishAll([s EXCEPT !.flight[SyncRun] = NoFlight])
  IN  IF p.again THEN beginOnce(p) ELSE [p EXCEPT !.running = FALSE]

\* reconcile and seedStatuses: duplicates on the replica are queued for folding
\* unless that is done or queued already.
afterReached(s) ==
  IF s.untidy /\ verdict[<<Tidy, 0>>] = None /\ ~inOutbox(s, <<Tidy, 0>>) /\ s.rows # {}
  THEN runSync(enqueued(s, {<<Tidy, 0>>}), "write") ELSE s

endedSession(s, by) ==
  [s EXCEPT !.held = IF @ \in {by, "unknown"} THEN "ended" ELSE @]
signedOutIfEnded(s) == [s EXCEPT !.session = IF s.held = "ended" THEN "signed-out" ELSE @]

----------------------------------------------------------------------------
(* The server: an operation it has recorded is answered as it was.         *)

Verdicts(ops) ==
  {v \in [ops -> {"applied", "rejected", "unrecorded"}] :
     \A op \in ops :
       /\ verdict[op] # None => v[op] = verdict[op]
       /\ op = <<Tidy, 0>> => v[op] = "applied"}

recorded(batch, by, v) ==
  LET ops == {x.op : x \in batch}
      failed == {op \in ops : v[op] = "unrecorded"}
      new == failed \cup {op \in ops : v[op] = "rejected" /\ verdict[op] = None}
  IN  /\ new # {} => bad < MaxBad
      /\ bad' = IF new # {} THEN bad + 1 ELSE bad
      /\ verdict' = [op \in Ops |->
           IF op \in ops \ failed THEN v[op] ELSE verdict[op]]
      /\ doubtful' = doubtful \cup failed
      /\ strays' = strays \cup
           {y.op : y \in {z \in batch : v[z.op] = "applied" /\ z.by # by}}

----------------------------------------------------------------------------
(* Writes.                                                                 *)

idle == [pc |-> "idle", own |-> {}, got |-> {}, heard |-> FALSE]

mintOps(c, k) ==
  IF c \in Twofold THEN {<<c, 0>>, <<c, k>>} ELSE {<<c, 0>>}

\* submit: the claim and the operations in one transaction; a command seen
\* before only flushes.
\* Mutated: the claim is written before the transaction, which an invalid
\* command rolls back.
claimKept(a) ==
  /\ a[1] \notin e.claims
  /\ reply' = [reply EXCEPT ![a] = "invalid"]
  /\ ask' = [ask EXCEPT ![a].pc = "done"]
  /\ e' = publishAll([e EXCEPT !.claims = @ \cup {a[1]}])
invalid(a) ==
  /\ a[1] \notin e.claims
  /\ reply' = [reply EXCEPT ![a] = "invalid"]
  /\ ask' = [ask EXCEPT ![a].pc = "done"]
  /\ e' = publishAll(e)

\* Between that transaction and the flush's read of the outbox, which this
\* process makes in one turn, another one on the terminal's store may settle
\* all that is pending.
exchanged(s, v) ==
  [settle(s, v, {}) EXCEPT !.rows = @ \cup {s.owner}, !.cursor = 1]

judged == <<verdict, strays, doubtful, bad>>

submit(a) ==
  LET fresh == a[1] \notin e.claims
      ops == IF fresh THEN mintOps(a[1], a[2]) ELSE {}
      s == [enqueued(e, ops) EXCEPT !.claims = @ \cup {a[1]}]
  IN  /\ \/ e' = beginFlush(s, a) /\ UNCHANGED judged
         \/ /\ mode = "terminal" /\ ops # {} /\ bearer(s) \in Accounts
            /\ \E v \in Verdicts({x.op : x \in pendingOf(s)}) :
                 /\ recorded(pendingOf(s), bearer(s), v)
                 /\ e' = beginFlush(exchanged(s, v), a)
      /\ ask' = [ask EXCEPT ![a].pc = "sent", ![a].own = ops]
      /\ UNCHANGED reply

write(a) == submit(a) \/ (invalid(a) /\ UNCHANGED judged)

\* handle: a write waits for the session to be restored; an online-only
\* engine runs writes one at a time.
admitted(a) ==
  IF ~open(e)
  THEN /\ ask' = [ask EXCEPT ![a].pc = "done"]
       /\ reply' = [reply EXCEPT ![a] = "signed-out"]
       /\ UNCHANGED <<e, chain, judged>>
  ELSE IF onlineOnly
       THEN /\ chain' = Append(chain, [job |-> "write", by |-> a, pc |-> "wait"])
            /\ ask' = [ask EXCEPT ![a].pc = "queued"]
            /\ UNCHANGED <<e, reply, judged>>
       ELSE write(a) /\ UNCHANGED chain

starting == \E i \in DOMAIN chain : chain[i].job = "start"

handle(a) ==
  IF e.session = "restoring"
  THEN ask' = [ask EXCEPT ![a].pc = "waiting"] /\ UNCHANGED <<e, chain, reply, judged>>
  ELSE admitted(a)

\* The page: a draft is minted once (createIntent), and sent again after an
\* answer that settles nothing, or after none came in time.
Retryable == {"signed-out", "unexpected", "invalid", "unjudged", "unreachable"}
SendWrite(c, k) ==
  /\ ask[<<c, k>>].pc = "idle"
  /\ k > 1 => reply[<<c, k - 1>>] \in Retryable \/ <<c, k - 1>> \in gaveUp
  /\ handle(<<c, k>>)
  /\ UNCHANGED <<world, gaveUp, trig, logins>>

GiveUp(a) ==
  /\ onlineOnly
  /\ ask[a].pc # "idle" /\ reply[a] = None
  /\ gaveUp' = gaveUp \cup {a}
  /\ UNCHANGED <<world, e, chain, ask, reply, trig, verdict, strays, doubtful, logins, bad>>

Restored(a) ==
  /\ ask[a].pc = "waiting" /\ ~starting
  /\ admitted(a)
  /\ UNCHANGED <<world, gaveUp, trig, logins>>

StartWrite ==
  /\ chain # << >> /\ chain[1].job = "write"
  /\ ask[chain[1].by].pc = "queued"
  /\ write(chain[1].by)
  /\ chain' = IF ask'[chain[1].by].pc = "done" THEN Tail(chain) ELSE chain
  /\ UNCHANGED <<world, gaveUp, trig, logins>>

\* Online-only: every pending entry goes, so that nothing is sent later.
\* Mutated: only the operation that carries the command's own id goes.
untakenOwn(s, a) ==
  [s EXCEPT !.outbox = {x \in @ : x.failed \/ x.op # <<a[1], 0>>}]
\* Mutated: the command's id is given back as well.
untakenFreed(s, a) ==
  [s EXCEPT !.outbox = {x \in @ : x.failed},
            !.claims = @ \ {a[1]}]
untaken(s, a) == [s EXCEPT !.outbox = {x \in @ : x.failed}]

\* The end of a write: what became of it is published, and the next one runs.
ended(a, s, result) ==
  /\ e' = publishAll([s EXCEPT !.flight[a] = NoFlight])
  /\ ask' = [ask EXCEPT ![a].pc = "done", ![a].got = {}, ![a].heard = FALSE]
  /\ reply' = [reply EXCEPT ![a] = result]
  /\ chain' = IF onlineOnly THEN Tail(chain) ELSE chain
  /\ UNCHANGED <<world, gaveUp, trig, verdict, strays, doubtful, logins, bad>>

\* An answer the server accepted: every write under way counts it.
heardBy(f) == [a \in Asks |->
  IF ask[a].pc # "sent" THEN ask[a]
  ELSE [ask[a] EXCEPT !.heard = TRUE, !.pc = IF a = f THEN "settled" ELSE @]]

\* A write's answer lands: verdicts, release and rows in one transaction.  An
\* operation it does not speak of was settled by another process before the
\* request: its entry, and the reason it gives, say what became of it.
outcome(results, op) ==
  IF op \in DOMAIN results THEN results[op]
  ELSE IF ~inOutbox(e, op) THEN "applied"
  ELSE IF verdict[op] = "rejected" THEN "rejected" ELSE "unrecorded"

Settled(a) ==
  LET f == e.flight[a]
  IN  /\ f.at = "served"
      /\ e' = [applyDelta(release(settle(e, f.results, ask[a].own),
                                  a[1], ask[a].own, f.results), f)
                 EXCEPT !.flight[a] = NoFlight]
      /\ ask' = [heardBy(a) EXCEPT ![a].got = {outcome(f.results, op) : op \in ask[a].own}]
      /\ UNCHANGED <<world, chain, reply, gaveUp, trig, verdict, strays, doubtful, logins, bad>>

\* submit's outcomes: entries that failed elsewhere are settled here, and the
\* claim of a command that was refused whole goes with them; then write's end.
cleared(s, a) ==
  LET own == ask[a].own
  IN  [s EXCEPT !.outbox = {x \in @ : ~(x.failed /\ x.op \in own)},
                !.claims = IF own # {} /\ ask[a].got \subseteq {"rejected", "unrecorded"}
                           THEN @ \ {a[1]} ELSE @]

Finish(a) ==
  LET got == ask[a].got
      refused == got \cap {"rejected", "unrecorded"}
  IN  /\ ask[a].pc = "settled"
      /\ ended(a, afterReached(cleared(e, a)),
               IF refused = {} THEN "ok"
               ELSE IF got = {"unrecorded"} THEN "unjudged" ELSE "refused")

\* No answer: the write waits in the outbox, unless nothing would retry it.
Unreached(a) ==
  /\ e.flight[a].at # None /\ e.flight[a].by # "ended"
  /\ IF onlineOnly THEN ended(a, untaken(e, a), "unexpected") ELSE ended(a, e, "ok")

\* The request is refused as it stands (401, 403, 429): the write waits, unless
\* another flush has settled its operations meanwhile.
Refused(a) ==
  LET f == e.flight[a]
      waits == \E op \in ask[a].own : isPending(e, op)
  IN  /\ f.at = "sent" /\ ~onlineOnly
      /\ \E over \in BOOLEAN :
           LET s == IF over THEN endedSession(e, f.by) ELSE e
               r == IF ask[a].heard THEN afterReached(s) ELSE s
           IN  IF waits THEN ended(a, signedOutIfEnded(r), "ok")
               ELSE ended(a, r, "declined")

----------------------------------------------------------------------------
(* Sync runs.                                                              *)

syncEnds(s) ==
  /\ e' = s
  /\ UNCHANGED <<world, chain, reply, gaveUp, trig, verdict, strays, doubtful, logins, bad>>

SyncSettled ==
  LET f == e.flight[SyncRun]
  IN  /\ f.at = "served"
      /\ ask' = heardBy(SyncRun)
      /\ syncEnds(endOnce(afterReached(applyDelta(settle(e, f.results, {}), f))))

SyncUnreached ==
  /\ e.flight[SyncRun].at # None /\ e.flight[SyncRun].by # "ended"
  /\ syncEnds(endOnce(e)) /\ UNCHANGED ask

SyncRefused ==
  LET f == e.flight[SyncRun]
  IN  /\ f.at = "sent" /\ ~onlineOnly
      /\ \E over \in BOOLEAN :
           syncEnds(endOnce(signedOutIfEnded(IF over THEN endedSession(e, f.by) ELSE e)))
      /\ UNCHANGED ask

\* A sync request: a tick, or one that must be followed by a sync.
triggered(t, reason) ==
  /\ e' = runSync([e EXCEPT !.owed = IF reason \in Ticks THEN @ ELSE @ \cup {t}], reason)
  /\ trig' = [trig EXCEPT ![t] = "running"]

Trigger(t) ==
  /\ trig[t] = "idle"
  /\ IF e.session = "restoring"
     THEN trig' = [trig EXCEPT ![t] = "waiting"] /\ UNCHANGED e
     ELSE \E reason \in Ticks \cup {"remote"} : triggered(t, reason)
  /\ UNCHANGED <<world, chain, ask, reply, gaveUp, verdict, strays, doubtful, logins, bad>>

TriggerRestored(t) ==
  /\ trig[t] = "waiting" /\ ~starting
  /\ triggered(t, "remote")
  /\ UNCHANGED <<world, chain, ask, reply, gaveUp, verdict, strays, doubtful, logins, bad>>

TriggerAnswered(t) ==
  /\ trig[t] = "running" /\ ~e.running
  /\ trig' = [trig EXCEPT ![t] = "answered"]
  /\ UNCHANGED <<world, e, chain, ask, reply, gaveUp, verdict, strays, doubtful, logins, bad>>

----------------------------------------------------------------------------
(* The server answers.                                                     *)

Serve(f) ==
  LET x == e.flight[f]
  IN  /\ x.at = "sent" /\ x.by \in Accounts
      /\ \E v \in Verdicts({y.op : y \in x.batch}) :
           /\ recorded(x.batch, x.by, v)
           /\ e' = [e EXCEPT !.flight[f].results = v, !.flight[f].at = "served"]
      /\ UNCHANGED <<world, chain, ask, reply, gaveUp, trig, logins>>

----------------------------------------------------------------------------
(* The session: start, signIn and signOut, one at a time.                  *)

step(s, rest) ==
  /\ e' = s /\ chain' = rest
  /\ UNCHANGED <<world, ask, reply, gaveUp, trig, verdict, strays, doubtful, logins, bad>>
goOn(pc) == [chain EXCEPT ![1].pc = pc]
jobIs(job, pc) == chain # << >> /\ chain[1].job = job /\ chain[1].pc = pc
signedIn(s, acc) == [adoptAccount(s, acc) EXCEPT !.held = acc, !.session = "signed-in"]

\* The token is that of the account the session is stored for.
Started ==
  /\ jobIs("start", "wait")
  /\ IF foreignOutbox(e, chain[1].by)
     THEN step([e EXCEPT !.held = "ended", !.session = "signed-out"], Tail(chain))
     ELSE step(runSync(signedIn(e, chain[1].by), "start"), goOn("syncing"))

\* No token: refused for good, or the server not reached, which leaves a
\* replica with an owner to be offline as.
NotStarted ==
  /\ jobIs("start", "wait") /\ ~onlineOnly
  /\ \E over \in BOOLEAN :
       IF over \/ e.owner = NoOne
       THEN step([e EXCEPT !.held = IF over THEN "ended" ELSE @,
                           !.session = "signed-out"], Tail(chain))
       ELSE step(publishAll([e EXCEPT !.session = "signed-in"]), Tail(chain))

\* signIn and signOut: `await running` first.
runOver(job) == jobIs(job, "wait") /\ ~e.running

Waited == \E job \in {"signIn", "signOut"} : runOver(job) /\ step(e, goOn("ask"))

SignedIn ==
  /\ jobIs("signIn", "ask")
  /\ \/ step(e, Tail(chain))       \* wrong password, refused, not reached
     \/ /\ ~foreignOutbox(e, chain[1].by)
        /\ step(runSync(signedIn(e, chain[1].by), "start"), goOn("syncing"))

Synced == (\E job \in {"start", "signIn"} : jobIs(job, "syncing"))
  /\ ~e.running /\ step(e, Tail(chain))

signedOut(s) == publishAll([s EXCEPT !.held = "ended", !.session = "signed-out"])
SignedOut == jobIs("signOut", "ask") /\ step(signedOut(e), Tail(chain))

AskSession(job, acc) ==
  /\ mode = "accounts" /\ logins < world.logins
  /\ logins' = logins + 1
  /\ chain' = Append(chain, [job |-> job, by |-> acc, pc |-> "wait"])
  /\ UNCHANGED <<world, e, ask, reply, gaveUp, trig, verdict, strays, doubtful, bad>>

\* `todoer login` in another process on the TUI's store, and its next command.
OtherLogin(acc) ==
  /\ mode = "terminal" /\ logins < world.logins
  /\ ~foreignOutbox(e, acc)
  /\ logins' = logins + 1
  /\ e' = [adoptAccount(e, acc) EXCEPT !.held = acc]
  /\ UNCHANGED <<world, chain, ask, reply, gaveUp, trig, verdict, strays, doubtful, bad>>

OtherSync ==
  /\ mode = "terminal" /\ logins > 0 /\ e.held = e.owner /\ e.cursor = 0
  /\ e' = [e EXCEPT !.rows = @ \cup {e.owner}, !.cursor = 1]
  /\ UNCHANGED <<world, chain, ask, reply, gaveUp, trig, verdict, strays, doubtful, logins, bad>>

----------------------------------------------------------------------------

Init ==
  /\ world \in Worlds
  /\ LET acc == CHOOSE acc \in Accounts : TRUE IN
       /\ e = [session |-> "restoring", held |-> "unknown",
               owner |-> IF world.known THEN acc ELSE NoOne,
               rows |-> IF world.known THEN {acc} ELSE {},
               cursor |-> IF world.known THEN 1 ELSE 0,
               outbox |-> {}, claims |-> {}, untidy |-> world.untidy,
               running |-> FALSE, again |-> FALSE,
               flight |-> [f \in Flushers |-> NoFlight],
               shown |-> {}, owed |-> {}]
       /\ chain = << [job |-> "start", by |-> acc, pc |-> "wait"] >>
  /\ ask = [a \in Asks |-> idle]
  /\ reply = [a \in Asks |-> None]
  /\ gaveUp = {}
  /\ trig = [t \in Triggers |-> "idle"]
  /\ verdict = [op \in Ops |-> None]
  /\ strays = {} /\ doubtful = {}
  /\ logins = 0 /\ bad = 0

EngineStep ==
  \/ \E a \in Asks : Restored(a) \/ Settled(a) \/ Finish(a)
  \/ \E f \in Flushers : Serve(f)
  \/ StartWrite \/ SyncSettled \/ Started \/ Waited \/ SignedIn \/ Synced \/ SignedOut
  \/ \E t \in Triggers : TriggerRestored(t) \/ TriggerAnswered(t)

Fault ==
  \/ \E a \in Asks : Unreached(a) \/ Refused(a)
  \/ SyncUnreached \/ SyncRefused \/ NotStarted

Outside ==
  \/ \E a \in world.writes : SendWrite(a[1], a[2])
  \/ \E a \in Asks : GiveUp(a)
  \/ \E t \in world.triggers : Trigger(t)
  \/ \E acc \in Accounts : AskSession("signIn", acc) \/ OtherLogin(acc)
  \/ AskSession("signOut", NoOne)
  \/ OtherSync

Next == EngineStep \/ Fault \/ Outside

\* A request is answered or given up on within its time, and the engine's own
\* steps are never put off for ever.
Spec == Init /\ [][Next]_vars /\ WF_vars(EngineStep \/ Fault)

----------------------------------------------------------------------------
(* Properties.                                                             *)

\* A command takes effect at most once, however often the page sends it: of
\* the operations its attempts mint under new ids, the server applies those of
\* one attempt (the claim submit writes with them).  The exception is an
\* operation the server failed to judge, whose command is therefore free to run
\* again, and judged after all when another flush brought it too.
RunsOnce == \A c \in Twofold :
  \A j, k \in {k \in 1..Tries : verdict[<<c, k>>] = "applied"
                                 /\ <<c, k>> \notin doubtful} : j = k

\* What the last attempt of c that queued anything has queued.
carried(c) == UNION {ask[<<c, k>>].own : k \in {k \in 1..Tries :
  ask[<<c, k>>].own # {} /\ \A j \in (k + 1)..Tries : ask[<<c, j>>].own = {}}}

\* A write the TUI or an engine with an outbox was told is accepted is at the
\* server or in the outbox, where it will be sent or is listed as failed.
SavedMeansKept == ~onlineOnly => \A a \in Asks : reply[a] = "ok" =>
  /\ carried(a[1]) # {}
  /\ \A op \in carried(a[1]) : verdict[op] = "applied" \/ inOutbox(e, op)

\* A write the server-side engine is done with has left nothing to be sent
\* later (the onlineOnly comment of engine.ts).
NothingLeftQueued ==
  (onlineOnly /\ \A a \in Asks : ask[a].pc \notin {"sent", "settled"}) =>
    \A x \in pendingOf(e) : x.op[1] \notin Cmds

\* A sync request that is answered was followed by a sync begun after it came.
TriggerCovered == \A t \in Triggers : trig[t] = "answered" => t \notin e.owed

\* An operation is applied only for the account it was queued for, and while no
\* account is signed in nothing of the replica is shown.
DeliveredToItsOwner == strays = {} /\ (~open(e) => e.shown = {})

\* Every write and every sync request the engine took is answered.
EveryRequestAnswered ==
  /\ \A a \in Asks : (ask[a].pc # "idle") ~> (reply[a] # None)
  /\ \A t \in Triggers : (trig[t] # "idle") ~> (trig[t] = "answered")

\* What the web's design promises: a change it said was saved was taken by
\* the server.
SavedMeansTaken == onlineOnly => \A a \in Asks : reply[a] = "ok" =>
  \A op \in carried(a[1]) : verdict[op] = "applied"
=============================================================================
