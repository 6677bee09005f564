---------------------------- MODULE EngineProofs ----------------------------
(***************************************************************************)
(* What the engine keeps for every set of writes, attempts, triggers and   *)
(* accounts: a command takes effect once, what was told saved is kept, a   *)
(* server-side engine leaves nothing to be sent later, no trigger is lost  *)
(* and no operation reaches another account than its own.                  *)
(***************************************************************************)
EXTENDS Engine, TLAPS

----------------------------------------------------------------------------
(* Types.                                                                  *)

Answers == {"applied", "rejected", "unrecorded"}
Replies == {None, "ok", "refused", "unjudged", "declined"} \cup Retryable
Entry == [op : Ops, by : Accounts, failed : BOOLEAN]
Results == UNION {[D -> Answers] : D \in SUBSET Ops}
Flight == [at : {None, "sent", "served"}, batch : SUBSET Entry,
           by : Accounts \cup {NoOne, "ended"}, since : {0, 1},
           results : Results \cup {<< >>}]
Store == [session : {"restoring", "signed-in", "signed-out"},
          held : Accounts \cup {"unknown", "ended"}, owner : Accounts \cup {NoOne},
          rows : SUBSET Accounts, cursor : {0, 1}, outbox : SUBSET Entry,
          claims : SUBSET Cmds, untidy : BOOLEAN, running : BOOLEAN, again : BOOLEAN,
          flight : [Flushers -> Flight], shown : SUBSET Accounts,
          owed : SUBSET Triggers]
Job == [job : {"start", "signIn", "signOut", "write"},
        by : Asks \cup Accounts \cup {NoOne}, pc : {"wait", "syncing", "ask"}]
Asking == [pc : {"idle", "waiting", "queued", "sent", "settled", "done"},
           own : SUBSET Ops, got : SUBSET Answers, heard : BOOLEAN]

EngineTypeOK ==
  /\ world \in Worlds
  /\ e \in Store
  /\ chain \in Seq(Job)
  /\ ask \in [Asks -> Asking]
  /\ reply \in [Asks -> Replies]
  /\ gaveUp \subseteq Asks
  /\ trig \in [Triggers -> {"idle", "waiting", "running", "answered"}]
  /\ verdict \in [Ops -> {None, "applied", "rejected"}]
  /\ strays \subseteq Ops /\ doubtful \subseteq Ops
  /\ logins \in Nat /\ bad \in Nat

----------------------------------------------------------------------------
(* The invariant: the store.                                               *)

opsOf(batch) == {x.op : x \in batch}

\* Whoever is still owed a sync gets another run.
Ran(s) == s.owed # {} => s.running /\ s.again
Hidden(s) == ~open(s) => s.shown = {}

\* What is queued is the owner's, and so is the bearer, if there is one.
Owned(s) ==
  /\ s.held \in {s.owner, "unknown", "ended"}
  /\ \A x \in s.outbox : x.by = s.owner
  /\ s.owner = NoOne =>
       ~open(s) /\ s.rows = {} /\ \A f \in Flushers : s.flight[f].at = None

\* A request carries the operations of the account it is sent for, and is
\* answered for all of them.
Carried(s) ==
  \A f \in Flushers :
    LET x == s.flight[f]
    IN  /\ x.by \in Accounts => \A y \in x.batch : y.by = x.by
        /\ x.at = "served" => x.by \in Accounts /\ x.results \in [opsOf(x.batch) -> Answers]

\* Nothing is sent before the session is restored.
Quiet(s) == s.session = "restoring" =>
  ~s.running /\ \A f \in Flushers : s.flight[f].at = None

Sound(s) == s \in Store /\ Owned(s) /\ Carried(s) /\ Quiet(s)

----------------------------------------------------------------------------
(* The invariant: writes and what the server made of them.                 *)

Minted(op) == op = <<Tidy, 0>> \/ \E a \in Asks : op \in ask[a].own
Under(a) == ask[a].pc \in {"sent", "settled"}
Refusals == {"rejected", "unrecorded"}

\* The server refused it, or failed to judge it.
Fated(op) == verdict[op] = "rejected" \/ op \in doubtful

\* Another process settled what the write queued before its request was made,
\* which does not carry it.
Told(a) ==
  /\ ~onlineOnly
  /\ ask[a].own \cap opsOf(e.flight[a].batch) = {}
  /\ \A x \in pendingOf(e) : x.op \notin ask[a].own

AskOK(a) ==
  /\ ask[a].own \in {{}, mintOps(a[1], a[2])}
  /\ ask[a].pc \in {"idle", "waiting", "queued"} => ask[a].own = {}
  /\ reply[a] # None <=> ask[a].pc = "done"
  /\ e.flight[a].at # None <=> ask[a].pc = "sent"
  /\ ask[a].pc = "sent" => ask[a].own \subseteq opsOf(e.flight[a].batch) \/ Told(a)
  /\ ask[a].pc = "settled" /\ ask[a].got \subseteq Refusals =>
       \A op \in ask[a].own : Fated(op)
  /\ ask[a].pc \in {"queued", "sent", "settled"} =>
       e.owner # NoOne /\ e.session # "restoring"
  /\ ~onlineOnly => ask[a].pc # "queued"
AsksOK == \A a \in Asks : AskOK(a)

\* Only what a write queued, or tidying up, is in the outbox, on its way or at
\* the server.
AllMinted ==
  /\ \A x \in e.outbox : Minted(x.op)
  /\ \A f \in Flushers : \A x \in e.flight[f].batch : Minted(x.op)
  /\ \A op \in Ops : verdict[op] # None => Minted(op)

\* An answer says what the server recorded.
Judged ==
  \A f \in Flushers : e.flight[f].at = "served" =>
    \A op \in opsOf(e.flight[f].batch) :
      LET answer == e.flight[f].results[op]
      IN  IF answer = "unrecorded" THEN op \in doubtful ELSE verdict[op] = answer

\* An entry is listed as failed for a reason.
Failing == \A x \in e.outbox : x.failed => Fated(x.op)

\* An attempt that cannot take effect any more, or not as this attempt.
Spent(c, k) == Fated(<<c, k>>)
Queued(c, k) == ask[<<c, k>>].own # {}

\* Of a command's attempts that queued it, one at most can take effect; while
\* one is under way the others cannot, and until its answer is there the
\* command is claimed.
AtMostOnce(c) ==
  /\ \A j, k \in 1..Tries : Queued(c, j) /\ Queued(c, k) /\ j # k =>
       Spent(c, j) \/ Spent(c, k)
  /\ \A k \in 1..Tries : Queued(c, k) /\ e.flight[<<c, k>>].at # None => c \in e.claims
  /\ \A j, k \in 1..Tries : Queued(c, j) /\ Queued(c, k) /\ j # k /\ Under(<<c, k>>) =>
       Spent(c, j) /\ e.flight[<<c, j>>].at = None
  /\ c \notin e.claims => \A k \in 1..Tries : Queued(c, k) =>
       Spent(c, k) /\ e.flight[<<c, k>>].at = None
OnceEach == \A c \in Twofold : AtMostOnce(c)

\* With an outbox: an attempt is made after all before it came to nothing, and
\* leaves the operations it queued at the server or in the outbox.
Kept(a) == \A op \in ask[a].own : verdict[op] = "applied" \/ inOutbox(e, op)
Waiting(a) ==
  /\ ask[a].pc # "idle" => \A j \in 1..Tries : j < a[2] => reply[<<a[1], j>>] \in Retryable
  /\ Under(a) => ask[a].own # {}
  /\ reply[a] = "ok" => ask[a].own # {}
  /\ ask[a].pc = "sent" \/ reply[a] = "ok" => Kept(a)
  /\ ask[a].pc = "settled" /\ ask[a].got \cap Refusals = {} =>
       \A op \in ask[a].own : verdict[op] = "applied"
Claimed(c) == c \in e.claims => \E k \in 1..Tries :
  Queued(c, k) /\ reply[<<c, k>>] \notin Retryable
Outboxed == ~onlineOnly =>
  /\ gaveUp = {}
  /\ \A a \in Asks : Waiting(a)
  /\ \A c \in Cmds : Claimed(c)

\* Without one, what waits to be sent is of the write that runs, and on its way.
OnTheWay == onlineOnly => \A x \in pendingOf(e) : x.op[1] \in Cmds =>
  \E a \in Asks : ask[a].pc = "sent" /\ x.op \in opsOf(e.flight[a].batch)

WritesOK == AsksOK /\ AllMinted /\ Judged /\ Failing /\ OnceEach /\ Outboxed /\ OnTheWay

\* The serial steps: the start is the first, and the session is restored with
\* it; writes are among them without an outbox, and one runs at a time.
JobsOK(line) ==
  /\ line \in Seq(Job)
  /\ \A i \in DOMAIN line :
       /\ line[i].job = "start" => i = 1
       /\ line[i].job \in {"start", "signIn"} => line[i].by \in Accounts
       /\ line[i].job = "write" => onlineOnly /\ line[i].by \in Asks
WriteFirst(a) == chain # << >> /\ chain[1].job = "write" /\ chain[1].by = a
LineOK ==
  /\ JobsOK(chain)
  /\ e.session = "restoring" <=> jobIs("start", "wait")
  /\ \A a \in Asks : onlineOnly /\ Under(a) => WriteFirst(a)

Inv ==
  /\ EngineTypeOK /\ Sound(e) /\ Ran(e) /\ Hidden(e)
  /\ WritesOK /\ LineOK /\ TriggerCovered /\ strays = {}

----------------------------------------------------------------------------
(* What the engine's own steps do to the store.                            *)

\* What publishing and syncing leave alone.
Steady(s, r) ==
  /\ r.session = s.session /\ r.held = s.held /\ r.owner = s.owner
  /\ r.rows = s.rows /\ r.claims = s.claims
  /\ \A a \in Asks : r.flight[a] = s.flight[a]

\* What they add: an operation that tidies up, a request for a sync, which is not
\* answered yet.
Turned(s, r) ==
  /\ Steady(s, r)
  /\ s.outbox \subseteq r.outbox
  /\ \A x \in r.outbox : x \in s.outbox \/ (x.op = <<Tidy, 0>> /\ ~x.failed)
  /\ r.flight[SyncRun].batch \subseteq s.flight[SyncRun].batch \cup r.outbox
  /\ r.flight[SyncRun].at = "served" => r.flight[SyncRun] = s.flight[SyncRun]
  /\ r.owed \subseteq s.owed

LEMMA Names ==
  /\ SyncRun \in Flushers /\ SyncRun \notin Asks
  /\ Asks \subseteq Flushers
  /\ NoOne \notin Accounts /\ "unknown" \notin Accounts /\ "ended" \notin Accounts
  /\ <<Tidy, 0>> \in Ops
<1>1. 0 \notin 1..Tries /\ 0 \in 0..Tries
  BY EngineAssumption
<1>2. SyncRun \in Flushers /\ Asks \subseteq Flushers /\ <<Tidy, 0>> \in Ops
  BY <1>1 DEF Flushers, Ops
<1>3. SyncRun \notin Asks
  BY <1>1 DEF Asks, SyncRun
<1> QED
  BY <1>2, <1>3, EngineAssumption

LEMMA NoFlightIs ==
  /\ NoFlight \in Flight
  /\ NoFlight.at = None /\ NoFlight.batch = {} /\ NoFlight.by = NoOne
BY DEF NoFlight, Flight

LEMMA AskOf ==
  ASSUME NEW a \in Asks
  PROVE  /\ a[1] \in Cmds /\ a[2] \in 1..Tries /\ a = <<a[1], a[2]>>
         /\ a \in Flushers /\ a # SyncRun
         /\ a[1] \in Twofold => mintOps(a[1], a[2]) = {<<a[1], 0>>, a}
         /\ \A op \in mintOps(a[1], a[2]) : op \in Ops /\ op[1] = a[1]
         /\ mintOps(a[1], a[2]) # {}
<1>1. PICK c \in Cmds, k \in 1..Tries : a = <<c, k>>
  BY DEF Asks
<1>2. a[1] = c /\ a[2] = k
  BY <1>1
<1>3. 0 \in 0..Tries /\ k \in 0..Tries
  BY EngineAssumption
<1>4. <<c, 0>> \in Ops /\ <<c, k>> \in Ops
  BY <1>3 DEF Ops
<1>5. mintOps(c, k) = IF c \in Twofold THEN {<<c, 0>>, <<c, k>>} ELSE {<<c, 0>>}
  BY DEF mintOps
<1>6. \A op \in mintOps(c, k) : op \in Ops /\ op[1] = c
  BY <1>4, <1>5
<1>7. mintOps(c, k) # {} /\ (c \in Twofold => mintOps(c, k) = {<<c, 0>>, <<c, k>>})
  BY <1>5
<1>8. a \in Flushers /\ a # SyncRun
  BY Names
<1> QED
  BY <1>1, <1>2, <1>6, <1>7, <1>8

LEMMA AskAt ==
  ASSUME NEW c \in Cmds, NEW k \in 1..Tries
  PROVE  <<c, k>> \in Asks /\ <<c, k>> \in Flushers /\ <<c, k>>[1] = c /\ <<c, k>>[2] = k
BY DEF Asks, Flushers

\* A store with another flight.
LEMMA OtherFlight ==
  ASSUME NEW s \in Store, NEW f \in Flushers, NEW x \in Flight
  PROVE  LET r == [s EXCEPT !.flight[f] = x]
         IN  /\ r \in Store
             /\ r.flight = [s.flight EXCEPT ![f] = x]
             /\ r.flight[f] = x
             /\ \A g \in Flushers \ {f} : r.flight[g] = s.flight[g]
             /\ r.session = s.session /\ r.held = s.held /\ r.owner = s.owner
             /\ r.rows = s.rows /\ r.cursor = s.cursor /\ r.outbox = s.outbox
             /\ r.claims = s.claims /\ r.untidy = s.untidy
             /\ r.running = s.running /\ r.again = s.again
             /\ r.shown = s.shown /\ r.owed = s.owed
BY DEF Store

LEMMA PublishedSound ==
  ASSUME NEW s, Sound(s)
  PROVE  LET r == publishAll(s)
         IN /\ Sound(r) /\ Hidden(r) /\ Turned(s, r) /\ (Ran(s) => Ran(r))
            /\ r.flight = s.flight /\ r.outbox = s.outbox /\ r.owed = s.owed
            /\ r.running = s.running /\ r.again = s.again /\ r.cursor = s.cursor
BY DEF publishAll, Sound, Hidden, Turned, Steady, Ran, Owned, Carried, Quiet, Store, open

\* A flush is asked for: it carries what is pending, for the account signed in.
LEMMA FlushSound ==
  ASSUME NEW s, NEW f \in Flushers, Sound(s), s.owner # NoOne, s.session # "restoring"
  PROVE  LET r == beginFlush(s, f)
         IN /\ Sound(r) /\ Hidden(r) /\ (Ran(s) => Ran(r))
            /\ r.flight[f].at = "sent" /\ r.flight[f].batch = pendingOf(s)
            /\ \A g \in Flushers \ {f} : r.flight[g] = s.flight[g]
            /\ r.session = s.session /\ r.held = s.held /\ r.owner = s.owner
            /\ r.rows = s.rows /\ r.claims = s.claims /\ r.outbox = s.outbox
            /\ r.owed = s.owed /\ r.running = s.running /\ r.again = s.again
<1> DEFINE p == publishAll(s)
           x == [at |-> "sent", batch |-> pendingOf(p), by |-> bearer(p),
                 since |-> p.cursor, results |-> << >>]
<1>1. /\ Sound(p) /\ Hidden(p) /\ Turned(s, p) /\ (Ran(s) => Ran(p))
      /\ p.flight = s.flight /\ p.outbox = s.outbox /\ p.owed = s.owed
      /\ p.running = s.running /\ p.again = s.again /\ p.cursor = s.cursor
  BY PublishedSound
<1>2. beginFlush(s, f) = [p EXCEPT !.flight[f] = x]
  BY DEF beginFlush
<1>3. /\ p.session = s.session /\ p.held = s.held /\ p.owner = s.owner
      /\ p.rows = s.rows /\ p.claims = s.claims
  BY <1>1 DEF Turned, Steady
<1>4. pendingOf(p) = pendingOf(s)
  BY <1>1 DEF pendingOf
<1>5. p \in Store
  BY <1>1 DEF Sound
<1>6. x \in Flight /\ x.by \in {s.owner, "ended"}
  <2>1. pendingOf(p) \subseteq Entry /\ p.cursor \in {0, 1}
    BY <1>5 DEF pendingOf, Store
  <2>2. x.by \in {s.owner, "ended"}
    BY <1>1, <1>3 DEF Sound, Owned, bearer
  <2>3. s.owner \in Accounts
    BY <1>3, <1>5 DEF Store
  <2> QED
    BY <2>1, <2>2, <2>3 DEF Flight
<1>7. x.at = "sent" /\ x.batch = pendingOf(s)
  BY <1>4
<1> HIDE DEF p, x
<1> DEFINE r == [p EXCEPT !.flight[f] = x]
<1>8. /\ r \in Store
      /\ r.flight[f] = x
      /\ \A g \in Flushers \ {f} : r.flight[g] = p.flight[g]
      /\ r.session = p.session /\ r.held = p.held /\ r.owner = p.owner
      /\ r.rows = p.rows /\ r.cursor = p.cursor /\ r.outbox = p.outbox
      /\ r.claims = p.claims /\ r.untidy = p.untidy
      /\ r.running = p.running /\ r.again = p.again
      /\ r.shown = p.shown /\ r.owed = p.owed
  BY <1>5, <1>6, OtherFlight
<1> HIDE DEF r
<1>9. Owned(r) /\ Quiet(r)
  BY <1>1, <1>3, <1>8 DEF Sound, Owned, Quiet, open
<1>10. \A y \in x.batch : y.by = s.owner
  BY <1>1, <1>3, <1>7 DEF Sound, Owned, pendingOf
<1>11. Carried(r)
  <2> SUFFICES ASSUME NEW g \in Flushers
               PROVE  /\ r.flight[g].by \in Accounts =>
                           \A y \in r.flight[g].batch : y.by = r.flight[g].by
                      /\ r.flight[g].at = "served" =>
                           /\ r.flight[g].by \in Accounts
                           /\ r.flight[g].results \in [opsOf(r.flight[g].batch) -> Answers]
    BY DEF Carried
  <2>1. CASE g = f
    BY <2>1, <1>6, <1>7, <1>8, <1>10, Names
  <2>2. CASE g # f
    BY <2>2, <1>1, <1>8 DEF Sound, Carried
  <2> QED
    BY <2>1, <2>2
<1>12. Hidden(r) /\ (Ran(s) => Ran(r))
  BY <1>1, <1>8 DEF Hidden, Ran, open
<1> QED
  BY <1>1, <1>2, <1>3, <1>7, <1>8, <1>9, <1>11, <1>12 DEF Sound, r

LEMMA TurnedAgain ==
  ASSUME NEW s, NEW q, NEW r, Turned(s, q), Turned(q, r)
  PROVE  Turned(s, r)
BY DEF Turned, Steady

LEMMA RunBegun ==
  ASSUME NEW s, Sound(s), s.session # "restoring"
  PROVE  LET r == beginOnce(s)
         IN Sound(r) /\ Ran(r) /\ (Hidden(s) => Hidden(r)) /\ Turned(s, r)
<1> DEFINE b == [s EXCEPT !.again = FALSE, !.owed = {}]
           go == [b EXCEPT !.running = TRUE]
           no == [b EXCEPT !.running = FALSE]
<1>1. /\ Sound(go) /\ go.owed = {}
      /\ Turned(s, go) /\ go.session = s.session /\ go.owner = s.owner
      /\ go.outbox = s.outbox /\ go.flight = s.flight
  BY DEF Sound, Turned, Steady, Owned, Carried, Quiet, Store, open
<1>2. /\ Sound(no) /\ no.owed = {} /\ (Hidden(s) => Hidden(no)) /\ Turned(s, no)
  BY DEF Sound, Turned, Steady, Owned, Carried, Quiet, Store, open, Hidden
<1>3. CASE open(b)
  <2>1. s.owner # NoOne /\ go.owner # NoOne /\ go.session # "restoring"
    BY <1>1, <1>3 DEF Sound, Owned, Store, open
  <2> DEFINE r == beginFlush(go, SyncRun)
  <2>2. /\ Sound(r) /\ Hidden(r)
        /\ r.flight[SyncRun].at = "sent" /\ r.flight[SyncRun].batch = pendingOf(go)
        /\ \A g \in Flushers \ {SyncRun} : r.flight[g] = go.flight[g]
        /\ r.session = go.session /\ r.held = go.held /\ r.owner = go.owner
        /\ r.rows = go.rows /\ r.claims = go.claims /\ r.outbox = go.outbox
        /\ r.owed = go.owed /\ r.running = go.running /\ r.again = go.again
    BY <1>1, <2>1, Names, FlushSound
  <2>3. beginOnce(s) = r
    BY <1>3 DEF beginOnce
  <2> HIDE DEF r, go, b, no
  <2>4. Turned(go, r)
    BY <2>2, Names DEF Turned, Steady, pendingOf
  <2>5. Ran(r)
    BY <1>1, <2>2 DEF Ran
  <2> QED
    BY <1>1, <2>2, <2>3, <2>4, <2>5, TurnedAgain
<1>4. CASE ~open(b)
  <2>1. beginOnce(s) = no
    BY <1>4 DEF beginOnce
  <2> HIDE DEF no, go, b
  <2> QED
    BY <1>2, <2>1 DEF Ran
<1> QED
  BY <1>3, <1>4

LEMMA TurnedNot == ASSUME NEW s PROVE Turned(s, s)
BY DEF Turned, Steady

LEMMA SyncAsked ==
  ASSUME NEW s, NEW reason, Sound(s), s.session # "restoring"
  PROVE  LET r == runSync(s, reason)
         IN /\ Sound(r) /\ (Hidden(s) => Hidden(r)) /\ Turned(s, r)
            /\ reason \notin Ticks \/ Ran(s) => Ran(r)
<1>1. CASE s.running
  <2> DEFINE r == [s EXCEPT !.again = @ \/ reason \notin Ticks]
  <2>1. /\ Sound(r) /\ (Hidden(s) => Hidden(r)) /\ Turned(s, r)
        /\ r.running /\ r.again = (s.again \/ reason \notin Ticks) /\ r.owed = s.owed
    BY <1>1 DEF Sound, Turned, Steady, Owned, Carried, Quiet, Store, open, Hidden
  <2>2. runSync(s, reason) = r
    BY <1>1 DEF runSync
  <2> HIDE DEF r
  <2> QED
    BY <1>1, <2>1, <2>2 DEF Ran
<1>2. CASE ~s.running /\ reason = "early tick"
  BY <1>2, TurnedNot DEF runSync, Ticks
<1>3. CASE ~s.running /\ reason # "early tick"
  <2>1. runSync(s, reason) = beginOnce(s)
    BY <1>3 DEF runSync
  <2> QED
    BY <1>3, <2>1, RunBegun
<1> QED
  BY <1>1, <1>2, <1>3

LEMMA RunEnded ==
  ASSUME NEW s, Sound(s), s.session # "restoring"
  PROVE  LET r == endOnce(s)
         IN Sound(r) /\ Hidden(r) /\ Turned(s, r) /\ (Ran(s) => Ran(r))
<1> DEFINE c == [s EXCEPT !.flight[SyncRun] = NoFlight]
           p == publishAll(c)
           no == [p EXCEPT !.running = FALSE]
<1>1. s \in Store
  BY DEF Sound
<1>2. /\ c \in Store
      /\ c.flight[SyncRun] = NoFlight
      /\ \A g \in Flushers \ {SyncRun} : c.flight[g] = s.flight[g]
      /\ c.session = s.session /\ c.held = s.held /\ c.owner = s.owner
      /\ c.rows = s.rows /\ c.outbox = s.outbox /\ c.claims = s.claims
      /\ c.running = s.running /\ c.again = s.again
      /\ c.shown = s.shown /\ c.owed = s.owed
  BY <1>1, Names, NoFlightIs, OtherFlight
<1> HIDE DEF c
<1>3. Sound(c)
  <2>1. Owned(c) /\ Quiet(c)
    BY <1>2, NoFlightIs DEF Sound, Owned, Quiet, open
  <2>2. Carried(c)
    BY <1>2, NoFlightIs, Names DEF Sound, Carried, None
  <2> QED
    BY <1>2, <2>1, <2>2 DEF Sound
<1>4. Turned(s, c) /\ (Ran(s) => Ran(c))
  BY <1>2, NoFlightIs, Names DEF Turned, Steady, Ran, None
<1>5. /\ Sound(p) /\ Hidden(p) /\ Turned(c, p) /\ (Ran(c) => Ran(p))
  BY <1>3, PublishedSound
<1> HIDE DEF p
<1>6. CASE p.again
  <2>1. endOnce(s) = beginOnce(p)
    BY <1>6 DEF endOnce, c, p
  <2>2. p.session # "restoring"
    BY <1>2, <1>5 DEF Turned, Steady
  <2> QED
    BY <1>4, <1>5, <2>1, <2>2, RunBegun, TurnedAgain
<1>7. CASE ~p.again
  <2>1. endOnce(s) = no
    BY <1>7 DEF endOnce, c, p
  <2>2. Sound(no) /\ Hidden(no) /\ Turned(p, no)
    BY <1>5 DEF Sound, Turned, Steady, Owned, Carried, Quiet, Store, open, Hidden
  <2>3. Ran(p) => Ran(no)
    BY <1>5, <1>7 DEF Ran, Sound, Store
  <2> HIDE DEF no
  <2> QED
    BY <1>4, <1>5, <2>1, <2>2, <2>3, TurnedAgain
<1> QED
  BY <1>6, <1>7

LEMMA TidiedSound ==
  ASSUME NEW s, Sound(s), s.session # "restoring"
  PROVE  LET r == afterReached(s)
         IN Sound(r) /\ (Hidden(s) => Hidden(r)) /\ Turned(s, r) /\ (Ran(s) => Ran(r))
<1> DEFINE q == enqueued(s, {<<Tidy, 0>>})
           due == /\ s.untidy /\ verdict[<<Tidy, 0>>] = None
                  /\ ~inOutbox(s, <<Tidy, 0>>) /\ s.rows # {}
<1>1. CASE due
  <2>1. s.owner # NoOne /\ s.owner \in Accounts
    BY <1>1 DEF Sound, Owned, Store
  <2> DEFINE x == [op |-> <<Tidy, 0>>, by |-> s.owner, failed |-> FALSE]
  <2>2. x \in Entry /\ x.op = <<Tidy, 0>> /\ x.by = s.owner /\ ~x.failed
    BY <2>1, Names DEF Entry
  <2>3. q = [s EXCEPT !.outbox = @ \cup {x}]
    BY DEF enqueued
  <2> HIDE DEF x, q
  <2>4. q \in Store /\ q.outbox = s.outbox \cup {x}
        /\ q.session = s.session /\ q.held = s.held /\ q.owner = s.owner
        /\ q.rows = s.rows /\ q.claims = s.claims /\ q.flight = s.flight
        /\ q.running = s.running /\ q.shown = s.shown /\ q.owed = s.owed
    BY <2>2, <2>3 DEF Sound, Store
  <2>5. Sound(q) /\ (Hidden(s) => Hidden(q))
    BY <2>1, <2>2, <2>4 DEF Sound, Owned, Carried, Quiet, open, Hidden
  <2>6. Turned(s, q)
    BY <2>2, <2>4 DEF Turned, Steady
  <2>7. afterReached(s) = runSync(q, "write")
    BY <1>1 DEF afterReached, q
  <2>8. "write" \notin Ticks
    BY DEF Ticks
  <2> QED
    BY <2>4, <2>5, <2>6, <2>7, <2>8, SyncAsked, TurnedAgain
<1>2. CASE ~due
  <2>1. afterReached(s) = s
    BY <1>2 DEF afterReached
  <2> QED
    BY <2>1, TurnedNot
<1> QED
  BY <1>1, <1>2

----------------------------------------------------------------------------
(* What a verdict, a delta and the session do to it.                       *)

\* What these leave alone.
Alike(s, r) ==
  /\ r.session = s.session /\ r.held = s.held /\ r.owner = s.owner
  /\ r.flight = s.flight /\ r.running = s.running /\ r.again = s.again
  /\ r.shown = s.shown /\ r.owed = s.owed

LEMMA AlikeKeeps ==
  ASSUME NEW s, NEW r, Alike(s, r)
  PROVE  (Ran(s) => Ran(r)) /\ (Hidden(s) => Hidden(r))
BY DEF Alike, Ran, Hidden, open

LEMMA AlikeSound ==
  ASSUME NEW s, NEW r, Sound(s), r \in Store, Alike(s, r),
         \A x \in r.outbox : x.by = s.owner,
         s.owner = NoOne => r.rows = {}
  PROVE  Sound(r)
BY DEF Sound, Alike, Owned, Carried, Quiet, open

\* A verdict on an operation takes its entry away, or marks it failed.
LEMMA SettledOutbox ==
  ASSUME NEW s, NEW D, NEW results, NEW own,
         Sound(s), D \subseteq Ops, results \in [D -> Answers]
  PROVE  LET r == settle(s, results, own)
         IN  /\ Sound(r) /\ Alike(s, r) /\ r.claims = s.claims /\ r.rows = s.rows
             /\ r.cursor = s.cursor
             /\ \A x \in r.outbox : \E y \in s.outbox :
                  /\ y.op = x.op
                  /\ ~x.failed => x = y /\ x.op \notin D
             /\ \A x \in r.outbox :
                  x \in s.outbox \/ (x.failed /\ x.op \in D /\ results[x.op] \in Refusals)
             /\ \A y \in s.outbox :
                  y.op \notin D \/ (results[y.op] \in Refusals /\ y.op \notin own) =>
                    \E x \in r.outbox : x.op = y.op
<1> DEFINE kept == {x \in s.outbox : x.op \notin D
                      \/ (results[x.op] \in Refusals /\ x.op \notin own)}
           mark(x) == [x EXCEPT !.failed = @ \/ x.op \in D]
           r == settle(s, results, own)
<1>1. s \in Store /\ s.outbox \subseteq Entry
  BY DEF Sound, Store
<1>2. r = [s EXCEPT !.outbox = {mark(x) : x \in kept}]
  BY DEF settle, refusedIn, Refusals
<1>3. \A x \in Entry : mark(x) \in Entry /\ mark(x).op = x.op /\ mark(x).by = x.by
                       /\ mark(x).failed = (x.failed \/ x.op \in D)
                       /\ (~mark(x).failed => mark(x) = x /\ x.op \notin D)
                       /\ (x.op \notin D => mark(x) = x)
  BY DEF Entry
<1>4. kept \subseteq s.outbox
  OBVIOUS
<1> HIDE DEF mark
<1>5. r.outbox = {mark(x) : x \in kept}
  BY <1>1, <1>2 DEF Store
<1>6. r.outbox \subseteq Entry
  BY <1>1, <1>3, <1>4, <1>5
<1>7. /\ r \in Store /\ Alike(s, r) /\ r.claims = s.claims /\ r.rows = s.rows
      /\ r.cursor = s.cursor
  BY <1>1, <1>2, <1>5, <1>6 DEF Store, Alike
<1>8. \A x \in r.outbox : \E y \in s.outbox :
        y.op = x.op /\ y.by = x.by /\ (~x.failed => x = y /\ x.op \notin D)
  BY <1>1, <1>3, <1>4, <1>5
<1>9. Sound(r)
  BY <1>7, <1>8, AlikeSound DEF Sound, Owned
<1>10. \A y \in kept : \E x \in r.outbox : x.op = y.op
  BY <1>1, <1>3, <1>4, <1>5
<1>11. \A x \in r.outbox :
         x \in s.outbox \/ (x.failed /\ x.op \in D /\ results[x.op] \in Refusals)
  BY <1>1, <1>3, <1>4, <1>5
<1> QED
  BY <1>7, <1>8, <1>9, <1>10, <1>11

LEMMA DeltaSound ==
  ASSUME NEW s, Sound(s), s.owner # NoOne, NEW f \in Flight, f.by \in Accounts
  PROVE  LET r == applyDelta(s, f)
         IN  /\ Sound(r) /\ Alike(s, r) /\ r.claims = s.claims /\ r.outbox = s.outbox
<1> DEFINE r == applyDelta(s, f)
<1>1. r \in Store /\ Alike(s, r) /\ r.claims = s.claims /\ r.outbox = s.outbox
  BY DEF applyDelta, Sound, Store, Alike
<1> HIDE DEF r
<1>2. Sound(r)
  BY <1>1, AlikeSound DEF Sound, Owned
<1> QED
  BY <1>1, <1>2 DEF r

\* A command whose operations were all refused is free again.
LEMMA ReleasedSound ==
  ASSUME NEW s, NEW c, NEW own, NEW results, Sound(s)
  PROVE  LET r == release(s, c, own, results)
         IN  /\ Sound(r) /\ Alike(s, r) /\ r.outbox = s.outbox
             /\ \/ /\ own # {} /\ \A op \in own :
                                   op \in DOMAIN results /\ results[op] \in Refusals
                   /\ r.claims = s.claims \ {c}
                \/ /\ own = {} \/ \E op \in own :
                        ~ (op \in DOMAIN results /\ results[op] \in Refusals)
                   /\ r.claims = s.claims
<1> DEFINE over == own # {} /\ \A op \in own :
                     op \in DOMAIN results /\ results[op] \in Refusals
           r == release(s, c, own, results)
           q == [s EXCEPT !.claims = @ \ {c}]
<1>1. r = IF over THEN q ELSE s
  BY DEF release, refusedIn, Refusals
<1>2. q \in Store /\ Alike(s, q) /\ q.outbox = s.outbox /\ q.claims = s.claims \ {c}
      /\ q.rows = s.rows
  BY DEF Sound, Store, Alike
<1> HIDE DEF q, over
<1>3. Sound(q)
  BY <1>2, AlikeSound DEF Sound, Owned
<1> QED
  BY <1>1, <1>2, <1>3 DEF Alike, over

LEMMA UntakenSound ==
  ASSUME NEW s, Sound(s), NEW a
  PROVE  LET r == untaken(s, a)
         IN  /\ Sound(r) /\ Alike(s, r) /\ r.claims = s.claims
             /\ r.outbox = {x \in s.outbox : x.failed}
<1> DEFINE r == untaken(s, a)
<1>1. r \in Store /\ Alike(s, r) /\ r.claims = s.claims /\ r.rows = s.rows
      /\ r.outbox = {x \in s.outbox : x.failed}
  BY DEF untaken, Sound, Store, Alike
<1> HIDE DEF r
<1>2. Sound(r)
  BY <1>1, AlikeSound DEF Sound, Owned
<1> QED
  BY <1>1, <1>2 DEF r

\* The token is refused for good, or another one is kept.
LEMMA HeldSound ==
  ASSUME NEW s, Sound(s), s.session # "restoring", NEW by
  PROVE  LET r == endedSession(s, by)
         IN  /\ Sound(r) /\ r.session = s.session /\ r.owner = s.owner
             /\ r.flight = s.flight /\ r.running = s.running /\ r.again = s.again
             /\ r.shown = s.shown /\ r.owed = s.owed /\ r.outbox = s.outbox
             /\ r.rows = s.rows /\ r.claims = s.claims
BY DEF endedSession, Sound, Store, Owned, Carried, Quiet, open

LEMMA SignedOutSound ==
  ASSUME NEW s, Sound(s), s.session # "restoring"
  PROVE  LET r == signedOutIfEnded(s)
         IN  /\ Sound(r) /\ r.session # "restoring" /\ r.owner = s.owner
             /\ r.flight = s.flight /\ r.running = s.running /\ r.again = s.again
             /\ r.owed = s.owed /\ r.outbox = s.outbox
             /\ r.rows = s.rows /\ r.claims = s.claims
BY DEF signedOutIfEnded, Sound, Store, Owned, Carried, Quiet, open

\* Another account's operations are not adopted.
LEMMA AdoptedSound ==
  ASSUME NEW s, Sound(s), NEW acc \in Accounts, ~foreignOutbox(s, acc)
  PROVE  LET r == [adoptAccount(s, acc) EXCEPT !.held = acc]
         IN  /\ Sound(r) /\ r.owner = acc /\ r.session = s.session
             /\ r.flight = s.flight /\ r.running = s.running /\ r.again = s.again
             /\ r.shown = s.shown /\ r.owed = s.owed /\ r.outbox = s.outbox
             /\ r.claims = s.claims
<1> DEFINE r == [adoptAccount(s, acc) EXCEPT !.held = acc]
<1>1. /\ r \in Store /\ r.owner = acc /\ r.held = acc /\ r.session = s.session
      /\ r.flight = s.flight /\ r.running = s.running /\ r.again = s.again
      /\ r.shown = s.shown /\ r.owed = s.owed /\ r.outbox = s.outbox
      /\ r.claims = s.claims
  BY DEF adoptAccount, Sound, Store
<1>2. \A x \in s.outbox : x.by \in Accounts
  BY DEF Sound, Store, Entry
<1>3. \A x \in s.outbox : x.by = acc
  BY <1>2, Names DEF foreignOutbox, Sound, Owned
<1> HIDE DEF r
<1>4. Owned(r) /\ Carried(r) /\ Quiet(r)
  BY <1>1, <1>3, Names DEF Sound, Owned, Carried, Quiet
<1> QED
  BY <1>1, <1>4 DEF Sound, r

LEMMA SignedInSound ==
  ASSUME NEW s, Sound(s), NEW acc \in Accounts, ~foreignOutbox(s, acc)
  PROVE  LET r == signedIn(s, acc)
         IN  /\ Sound(r) /\ Hidden(r) /\ r.owner = acc /\ r.session = "signed-in"
             /\ r.flight = s.flight /\ r.running = s.running /\ r.again = s.again
             /\ r.owed = s.owed /\ r.outbox = s.outbox /\ r.claims = s.claims
<1> DEFINE q == [adoptAccount(s, acc) EXCEPT !.held = acc]
           r == [q EXCEPT !.session = "signed-in"]
<1>1. /\ Sound(q) /\ q.owner = acc
      /\ q.flight = s.flight /\ q.running = s.running /\ q.again = s.again
      /\ q.owed = s.owed /\ q.outbox = s.outbox /\ q.claims = s.claims
  BY AdoptedSound
<1>2. signedIn(s, acc) = r
  BY DEF signedIn, adoptAccount
<1> HIDE DEF q
<1>3. /\ Sound(r) /\ Hidden(r) /\ r.owner = acc /\ r.session = "signed-in"
      /\ r.flight = q.flight /\ r.running = q.running /\ r.again = q.again
      /\ r.owed = q.owed /\ r.outbox = q.outbox /\ r.claims = q.claims
  BY <1>1, Names DEF Sound, Store, Owned, Carried, Quiet, Hidden, open
<1> QED
  BY <1>1, <1>2, <1>3

----------------------------------------------------------------------------
(* Steps in which no write begins or ends and the server judges nothing.   *)

AsksAlike ==
  /\ ask' \in [Asks -> Asking]
  /\ \A a \in Asks :
       ask'[a].pc = ask[a].pc /\ ask'[a].own = ask[a].own /\ ask'[a].got = ask[a].got

\* An operation leaves the outbox when it is applied, and stays or fails
\* otherwise; only tidying up adds one.
OutboxCalm(r) ==
  /\ \A x \in r.outbox : x.op = <<Tidy, 0>> \/ inOutbox(e, x.op)
  /\ \A x \in r.outbox : \/ x \in e.outbox
                         \/ x.failed /\ Fated(x.op)
                         \/ ~x.failed /\ x.op = <<Tidy, 0>>
  /\ \A x \in e.outbox : inOutbox(r, x.op) \/ verdict[x.op] = "applied"

Calm(r) ==
  /\ r.claims = e.claims
  /\ \A a \in Asks : r.flight[a] = e.flight[a]
  /\ r.flight[SyncRun].at = "served" => r.flight[SyncRun] = e.flight[SyncRun]
  /\ r.flight[SyncRun].batch \subseteq e.flight[SyncRun].batch \cup r.outbox
  /\ e.owner # NoOne => r.owner # NoOne
  /\ OutboxCalm(r)

LEMMA CalmKeepsWrites ==
  ASSUME EngineTypeOK, Sound(e), WritesOK, Sound(e)', Calm(e'), AsksAlike,
         UNCHANGED <<world, reply, verdict, doubtful>>, ~onlineOnly => gaveUp' = gaveUp,
         e'.session = "restoring" => e.session = "restoring"
  PROVE  WritesOK'
<1> USE DEF Calm, AsksAlike
<1>1. AsksOK'
  <2> SUFFICES ASSUME NEW a \in Asks PROVE AskOK(a)'
    BY DEF AsksOK
  <2>1. AskOK(a)
    BY DEF WritesOK, AsksOK
  <2>2. onlineOnly' = onlineOnly
    BY DEF onlineOnly, mode
  <2>3. \A op \in Ops : Fated(op)' <=> Fated(op)
    BY DEF Fated
  <2>4. ask[a].own \subseteq Ops /\ <<Tidy, 0>> \notin ask[a].own
    BY <2>1, AskOf, EngineAssumption DEF AskOK
  <2>5. Told(a) => Told(a)'
    BY <2>2, <2>4 DEF Told, pendingOf, OutboxCalm
  <2> QED
    BY <2>1, <2>2, <2>3, <2>4, <2>5 DEF AskOK
<1>2. \A op : Minted(op)' <=> Minted(op)
  BY DEF Minted
<1>3. AllMinted'
  <2>1. \A x \in e'.outbox : Minted(x.op)
    BY DEF OutboxCalm, inOutbox, WritesOK, AllMinted, Minted
  <2>2. \A f \in Flushers : \A x \in e'.flight[f].batch : Minted(x.op)
    BY <2>1 DEF WritesOK, AllMinted, Flushers
  <2> QED
    BY <1>2, <2>1, <2>2 DEF WritesOK, AllMinted
<1>4. Judged' /\ Failing'
  BY DEF WritesOK, Judged, Failing, Fated, OutboxCalm, Flushers
<1>5. OnceEach'
  <2> SUFFICES ASSUME NEW c \in Twofold PROVE AtMostOnce(c)'
    BY DEF OnceEach
  <2>1. \A k \in 1..Tries : <<c, k>> \in Asks
    BY EngineAssumption DEF Asks
  <2>2. AtMostOnce(c)
    BY DEF WritesOK, OnceEach
  <2>3. \A k \in 1..Tries :
          /\ Spent(c, k)' <=> Spent(c, k)
          /\ Queued(c, k)' <=> Queued(c, k)
          /\ Under(<<c, k>>)' <=> Under(<<c, k>>)
    BY <2>1 DEF Spent, Fated, Queued, Under
  <2> QED
    BY <2>1, <2>2, <2>3 DEF AtMostOnce
<1>6. Outboxed'
  <2> SUFFICES ASSUME ~onlineOnly'
               PROVE  /\ gaveUp' = {}
                      /\ \A a \in Asks : Waiting(a)'
                      /\ \A c \in Cmds : Claimed(c)'
    BY DEF Outboxed
  <2>1. ~onlineOnly
    BY DEF onlineOnly, mode
  <2>2. gaveUp' = {} /\ (\A a \in Asks : Waiting(a)) /\ (\A c \in Cmds : Claimed(c))
    BY <2>1 DEF WritesOK, Outboxed
  <2>3. \A a \in Asks : Kept(a) => Kept(a)'
    BY DEF Kept, OutboxCalm, inOutbox
  <2>4. \A a \in Asks : Waiting(a)'
    <3> SUFFICES ASSUME NEW a \in Asks PROVE Waiting(a)'
      OBVIOUS
    <3>1. Waiting(a)
      BY <2>2
    <3> QED
      BY <2>3, <3>1 DEF Waiting, Under
  <2>5. \A c \in Cmds : Claimed(c)'
    <3> SUFFICES ASSUME NEW c \in Cmds PROVE Claimed(c)'
      OBVIOUS
    <3>1. \A k \in 1..Tries : <<c, k>> \in Asks
      BY DEF Asks
    <3>2. Claimed(c)
      BY <2>2
    <3> QED
      BY <3>1, <3>2 DEF Claimed, Queued
  <2> QED
    BY <2>2, <2>4, <2>5
<1>7. OnTheWay'
  <2> SUFFICES ASSUME onlineOnly', NEW x \in pendingOf(e'), x.op[1] \in Cmds
               PROVE  \E a \in Asks :
                        ask'[a].pc = "sent" /\ x.op \in opsOf(e'.flight[a].batch)
    BY DEF OnTheWay
  <2>1. onlineOnly
    BY DEF onlineOnly, mode
  <2>2. x.op # <<Tidy, 0>>
    BY EngineAssumption
  <2>3. x \in pendingOf(e)
    BY <2>2 DEF pendingOf, OutboxCalm
  <2> QED
    BY <2>1, <2>3 DEF WritesOK, OnTheWay
<1> QED
  BY <1>1, <1>3, <1>4, <1>5, <1>6, <1>7 DEF WritesOK

----------------------------------------------------------------------------
(* The serial steps.                                                       *)

LEMMA JobsAppended ==
  ASSUME NEW line, NEW j \in Job, JobsOK(line), j.job # "start",
         j.job = "signIn" => j.by \in Accounts,
         j.job = "write" => onlineOnly /\ j.by \in Asks
  PROVE  LET l == Append(line, j)
         IN  JobsOK(l) /\ l # << >> /\ (line # << >> => l[1] = line[1])
             /\ (line = << >> => l[1] = j)
<1> DEFINE l == Append(line, j)
<1>1. /\ l \in Seq(Job) /\ Len(l) = Len(line) + 1 /\ l # << >>
      /\ DOMAIN l = 1 .. Len(line) + 1 /\ DOMAIN line = 1 .. Len(line) /\ Len(line) \in Nat
      /\ \A i \in 1 .. Len(line) : l[i] = line[i]
      /\ l[Len(line) + 1] = j
  BY DEF JobsOK
<1>2. line = << >> => Len(line) = 0
  OBVIOUS
<1>3. line # << >> => Len(line) >= 1
  BY <1>1 DEF JobsOK
<1> QED
  BY <1>1, <1>2, <1>3 DEF JobsOK

LEMMA JobsTaken ==
  ASSUME NEW line, JobsOK(line), line # << >>
  PROVE  JobsOK(Tail(line)) /\ \A i \in DOMAIN Tail(line) : Tail(line)[i].job # "start"
<1>1. /\ Tail(line) \in Seq(Job) /\ Len(line) \in Nat \ {0}
      /\ DOMAIN Tail(line) = 1 .. Len(line) - 1 /\ DOMAIN line = 1 .. Len(line)
      /\ \A i \in 1 .. Len(line) - 1 : Tail(line)[i] = line[i + 1]
  BY DEF JobsOK
<1> QED
  BY <1>1 DEF JobsOK

LEMMA JobsMoved ==
  ASSUME NEW line, NEW pc \in {"wait", "syncing", "ask"}, JobsOK(line), line # << >>
  PROVE  LET l == [line EXCEPT ![1].pc = pc]
         IN  JobsOK(l) /\ l # << >> /\ l[1].job = line[1].job /\ l[1].by = line[1].by
             /\ l[1].pc = pc
<1> DEFINE l == [line EXCEPT ![1].pc = pc]
           x == [line[1] EXCEPT !.pc = pc]
<1>1. 1 \in DOMAIN line /\ Len(line) \in Nat /\ DOMAIN line = 1 .. Len(line)
      /\ \A i \in DOMAIN line : line[i] \in Job
  BY DEF JobsOK
<1>2. x \in Job /\ x.job = line[1].job /\ x.by = line[1].by /\ x.pc = pc
  BY <1>1 DEF Job
<1>3. l = [line EXCEPT ![1] = x]
  OBVIOUS
<1> HIDE DEF x
<1>4. l \in Seq(Job) /\ DOMAIN l = DOMAIN line /\ l[1] = x
      /\ \A i \in DOMAIN line : i # 1 => l[i] = line[i]
  BY <1>1, <1>2, <1>3 DEF JobsOK
<1>5. l # << >>
  BY <1>1, <1>4
<1> QED
  BY <1>2, <1>4, <1>5 DEF JobsOK

----------------------------------------------------------------------------
(* Sync runs and triggers.                                                 *)

LEMMA CalmTurned ==
  ASSUME NEW s, NEW r, Calm(s), Turned(s, r)
  PROVE  Calm(r)
<1> USE DEF Calm, Turned, Steady
<1>1. OutboxCalm(r)
  BY DEF OutboxCalm, inOutbox
<1> QED
  BY <1>1

LEMMA CalmSame ==
  ASSUME NEW r, r.claims = e.claims, r.flight = e.flight, r.outbox = e.outbox,
         e.owner # NoOne => r.owner # NoOne
  PROVE  Calm(r)
BY DEF Calm, OutboxCalm, inOutbox

LEMMA CalmKeeps ==
  ASSUME Inv, Sound(e'), Ran(e'), Hidden(e'), Calm(e'), AsksAlike,
         UNCHANGED <<world, chain, reply, verdict, strays, doubtful, logins, bad>>,
         gaveUp' \subseteq Asks, ~onlineOnly => gaveUp' = gaveUp,
         e'.session = "restoring" <=> e.session = "restoring",
         trig' \in [Triggers -> {"idle", "waiting", "running", "answered"}],
         TriggerCovered'
  PROVE  Inv'
<1>1. EngineTypeOK'
  BY DEF Inv, EngineTypeOK, Sound, AsksAlike
<1>2. WritesOK'
  BY CalmKeepsWrites DEF Inv
<1>3. LineOK'
  BY DEF Inv, LineOK, JobsOK, AsksAlike, Under, WriteFirst, jobIs, onlineOnly, mode
<1> QED
  BY <1>1, <1>2, <1>3 DEF Inv

\* A flush is under way: the session is restored and has an account.
LEMMA Flying ==
  ASSUME Inv, NEW f \in Flushers, e.flight[f].at # None
  PROVE  e.session # "restoring" /\ e.owner # NoOne
BY DEF Inv, Sound, Owned, Quiet

LEMMA SyncSettledKeeps ==
  ASSUME Inv, SyncSettled
  PROVE  Inv'
<1> DEFINE f == e.flight[SyncRun]
           D == opsOf(f.batch)
           own == {}
           s1 == settle(e, f.results, own)
           s2 == applyDelta(s1, f)
           s3 == afterReached(s2)
           s4 == endOnce(s3)
<1>1. /\ f.at = "served" /\ ask' = heardBy(SyncRun) /\ e' = s4
      /\ UNCHANGED <<world, chain, reply, gaveUp, trig, verdict, strays, doubtful,
                     logins, bad>>
  BY DEF SyncSettled, syncEnds
<1>2. f \in Flight /\ f.at # None /\ f.by \in Accounts /\ f.results \in [D -> Answers]
  BY <1>1, Names DEF Inv, Sound, Store, Carried, None
<1>3. D \subseteq Ops
  BY <1>2 DEF opsOf, Flight, Entry
<1>4. e.session # "restoring" /\ e.owner # NoOne
  BY <1>2, Names, Flying
<1>5. Sound(e) /\ Ran(e) /\ Hidden(e)
  BY DEF Inv
<1>6. D = opsOf(f.batch) /\ f = e.flight[SyncRun] /\ \A x : x \notin own
  OBVIOUS
<1> HIDE DEF f, D, own
<1>7. /\ Sound(s1) /\ Alike(e, s1) /\ s1.claims = e.claims
      /\ \A x \in s1.outbox : \E y \in e.outbox :
           y.op = x.op /\ (~x.failed => x = y /\ x.op \notin D)
      /\ \A x \in s1.outbox :
           x \in e.outbox \/ (x.failed /\ x.op \in D /\ f.results[x.op] \in Refusals)
      /\ \A y \in e.outbox :
           y.op \notin D \/ (f.results[y.op] \in Refusals /\ y.op \notin own) =>
             \E x \in s1.outbox : x.op = y.op
  BY <1>2, <1>3, <1>5, SettledOutbox
<1>8. Calm(s1)
  <2>1. \A op \in D : IF f.results[op] \in Refusals THEN Fated(op)
                      ELSE verdict[op] = "applied"
    BY <1>6, <1>1, <1>2, Names DEF Inv, WritesOK, Judged, Answers, Refusals, Fated
  <2>2. OutboxCalm(s1)
    <3>1. \A x \in s1.outbox : x.op = <<Tidy, 0>> \/ inOutbox(e, x.op)
      BY <1>7 DEF inOutbox
    <3>2. \A x \in s1.outbox : x \in e.outbox \/ (x.failed /\ Fated(x.op))
      BY <1>7, <2>1
    <3>3. \A x \in e.outbox : inOutbox(s1, x.op) \/ verdict[x.op] = "applied"
      BY <1>6, <1>7, <2>1 DEF inOutbox
    <3> QED
      BY <3>1, <3>2, <3>3 DEF OutboxCalm
  <2> QED
    BY <1>7, <2>2 DEF Calm, Alike
<1> HIDE DEF s1
<1>9. Sound(s2) /\ Alike(s1, s2) /\ s2.claims = s1.claims /\ s2.outbox = s1.outbox
  BY <1>2, <1>4, <1>7, DeltaSound DEF Alike
<1>10. Calm(s2)
  BY <1>8, <1>9 DEF Calm, Alike, OutboxCalm, inOutbox
<1>11. Ran(s2) /\ Hidden(s2) /\ s2.session = e.session /\ s2.owed = e.owed
  BY <1>5, <1>7, <1>9, AlikeKeeps DEF Alike
<1> HIDE DEF s2
<1>12. Sound(s3) /\ Hidden(s3) /\ Turned(s2, s3) /\ Ran(s3)
  BY <1>4, <1>9, <1>11, TidiedSound
<1>13. s3.session # "restoring"
  BY <1>4, <1>11, <1>12 DEF Turned, Steady
<1> HIDE DEF s3
<1>14. Sound(s4) /\ Hidden(s4) /\ Turned(s3, s4) /\ Ran(s4)
  BY <1>12, <1>13, RunEnded
<1> HIDE DEF s4
<1>15. Calm(s4) /\ s4.session # "restoring" /\ s4.owed \subseteq e.owed
  BY <1>10, <1>11, <1>12, <1>13, <1>14, CalmTurned DEF Turned, Steady
<1>16. AsksAlike
  BY <1>1, Names DEF AsksAlike, heardBy, Inv, EngineTypeOK, Asking
<1>17. TriggerCovered'
  BY <1>1, <1>15 DEF Inv, TriggerCovered
<1> QED
  BY <1>1, <1>4, <1>14, <1>15, <1>16, <1>17, CalmKeeps DEF Inv, EngineTypeOK

LEMMA AsksSame == ASSUME EngineTypeOK, ask' = ask PROVE AsksAlike
BY DEF EngineTypeOK, AsksAlike

\* A run that ends with nothing settled.
LEMMA RunOverKeeps ==
  ASSUME Inv, NEW s, Sound(s), Ran(s), Calm(s), s.session # "restoring",
         e.session # "restoring", s.owed = e.owed, e' = endOnce(s),
         UNCHANGED <<world, chain, ask, reply, gaveUp, trig, verdict, strays, doubtful,
                     logins, bad>>
  PROVE  Inv'
<1> DEFINE r == endOnce(s)
<1>1. Sound(r) /\ Hidden(r) /\ Turned(s, r) /\ Ran(r)
  BY RunEnded
<1> HIDE DEF r
<1>2. Calm(r) /\ r.session # "restoring" /\ r.owed \subseteq e.owed
  BY <1>1, CalmTurned DEF Turned, Steady
<1>3. e' = r
  BY DEF r
<1>4. TriggerCovered'
  BY <1>2, <1>3 DEF Inv, TriggerCovered
<1>5. AsksAlike
  BY AsksSame DEF Inv
<1> QED
  BY <1>1, <1>2, <1>3, <1>4, <1>5, CalmKeeps DEF Inv, EngineTypeOK

LEMMA SyncUnreachedKeeps ==
  ASSUME Inv, SyncUnreached
  PROVE  Inv'
<1>1. /\ e.flight[SyncRun].at # None /\ e' = endOnce(e)
      /\ UNCHANGED <<world, chain, ask, reply, gaveUp, trig, verdict, strays, doubtful,
                     logins, bad>>
  BY DEF SyncUnreached, syncEnds
<1>2. e.session # "restoring"
  BY <1>1, Names, Flying
<1>3. Calm(e)
  BY CalmSame
<1> QED
  BY <1>1, <1>2, <1>3, RunOverKeeps DEF Inv

LEMMA SyncRefusedKeeps ==
  ASSUME Inv, SyncRefused
  PROVE  Inv'
<1> DEFINE q(over) == IF over THEN endedSession(e, e.flight[SyncRun].by) ELSE e
<1>1. PICK over \in BOOLEAN :
        /\ e.flight[SyncRun].at = "sent" /\ e' = endOnce(signedOutIfEnded(q(over)))
        /\ UNCHANGED <<world, chain, ask, reply, gaveUp, trig, verdict, strays, doubtful,
                       logins, bad>>
  BY DEF SyncRefused, syncEnds
<1>2. e.session # "restoring"
  BY <1>1, Names, Flying DEF None
<1>3. /\ Sound(q(over)) /\ q(over).session = e.session /\ q(over).owner = e.owner
      /\ q(over).flight = e.flight /\ q(over).running = e.running
      /\ q(over).again = e.again /\ q(over).owed = e.owed
      /\ q(over).outbox = e.outbox /\ q(over).claims = e.claims
  BY <1>2, HeldSound DEF Inv
<1> DEFINE s == signedOutIfEnded(q(over))
<1> HIDE DEF q
<1>4. /\ Sound(s) /\ s.session # "restoring" /\ s.owner = e.owner
      /\ s.flight = e.flight /\ s.running = e.running /\ s.again = e.again
      /\ s.owed = e.owed /\ s.outbox = e.outbox /\ s.claims = e.claims
  BY <1>2, <1>3, SignedOutSound
<1>5. e' = endOnce(s)
  BY <1>1
<1> HIDE DEF s
<1>6. Calm(s)
  BY <1>4, CalmSame
<1>7. Ran(s)
  BY <1>4 DEF Inv, Ran
<1> QED
  BY <1>1, <1>2, <1>4, <1>5, <1>6, <1>7, RunOverKeeps

LEMMA TriggeredKeeps ==
  ASSUME Inv, NEW t \in Triggers, NEW reason, triggered(t, reason), e.session # "restoring",
         UNCHANGED <<world, chain, ask, reply, gaveUp, verdict, strays, doubtful,
                     logins, bad>>
  PROVE  Inv'
<1> DEFINE s == [e EXCEPT !.owed = IF reason \in Ticks THEN @ ELSE @ \cup {t}]
           r == runSync(s, reason)
<1>1. e' = r /\ trig' = [trig EXCEPT ![t] = "running"]
  BY DEF triggered
<1>2. Sound(e) /\ Ran(e) /\ Hidden(e)
  BY DEF Inv
<1>3. /\ Sound(s) /\ Hidden(s) /\ (reason \in Ticks => Ran(s))
      /\ s.owed \subseteq e.owed \cup {t} /\ s.session = e.session
      /\ s.claims = e.claims /\ s.flight = e.flight /\ s.outbox = e.outbox
      /\ s.owner = e.owner
  BY <1>2 DEF Sound, Store, Owned, Carried, Quiet, Hidden, Ran, open
<1> HIDE DEF s
<1>4. Sound(r) /\ Hidden(r) /\ Turned(s, r) /\ Ran(r)
  BY <1>3, SyncAsked
<1> HIDE DEF r
<1>5. Calm(r)
  BY <1>3, <1>4, CalmSame, CalmTurned
<1>6. r.session = e.session /\ r.owed \subseteq e.owed \cup {t}
  BY <1>3, <1>4 DEF Turned, Steady
<1>7. /\ trig' \in [Triggers -> {"idle", "waiting", "running", "answered"}]
      /\ TriggerCovered'
  BY <1>1, <1>6 DEF Inv, EngineTypeOK, TriggerCovered
<1>8. AsksAlike
  BY AsksSame DEF Inv
<1> QED
  BY <1>1, <1>4, <1>5, <1>6, <1>7, <1>8, CalmKeeps DEF Inv, EngineTypeOK

\* A step that leaves the store, the asks and the serial steps alone.
LEMMA StoreSame ==
  ASSUME Inv, UNCHANGED <<world, e, chain, ask, reply, verdict, strays, doubtful,
                          logins, bad>>,
         gaveUp' \subseteq Asks, ~onlineOnly => gaveUp' = gaveUp,
         trig' \in [Triggers -> {"idle", "waiting", "running", "answered"}],
         TriggerCovered'
  PROVE  Inv'
<1>1. AsksAlike /\ Calm(e)
  BY AsksSame, CalmSame DEF Inv
<1>2. Sound(e') /\ Ran(e') /\ Hidden(e') /\ Calm(e')
  BY <1>1 DEF Inv
<1> QED
  BY <1>1, <1>2, CalmKeeps

LEMMA RestoredBy ==
  ASSUME Inv, ~starting
  PROVE  e.session # "restoring"
<1> SUFFICES ASSUME e.session = "restoring" PROVE FALSE
  OBVIOUS
<1>1. chain \in Seq(Job) /\ chain # << >> /\ chain[1].job = "start"
  BY DEF Inv, LineOK, JobsOK, jobIs
<1>2. 1 \in DOMAIN chain
  BY <1>1
<1> QED
  BY <1>1, <1>2 DEF starting

LEMMA TriggerKeeps ==
  ASSUME Inv, NEW t \in Triggers, Trigger(t) \/ TriggerRestored(t) \/ TriggerAnswered(t)
  PROVE  Inv'
<1>1. CASE e.session = "restoring" /\ Trigger(t)
  BY <1>1, StoreSame DEF Trigger, Inv, EngineTypeOK, TriggerCovered
<1>2. CASE e.session # "restoring" /\ Trigger(t)
  BY <1>2, TriggeredKeeps DEF Trigger
<1>3. CASE TriggerRestored(t)
  <2>1. e.session # "restoring"
    BY <1>3, RestoredBy DEF TriggerRestored
  <2> QED
    BY <1>3, <2>1, TriggeredKeeps DEF TriggerRestored
<1>4. CASE TriggerAnswered(t)
  <2>1. e.owed = {}
    BY <1>4 DEF TriggerAnswered, Inv, Ran
  <2> QED
    BY <1>4, <2>1, StoreSame DEF TriggerAnswered, Inv, EngineTypeOK, TriggerCovered
<1> QED
  BY <1>1, <1>2, <1>3, <1>4

LEMMA GiveUpKeeps ==
  ASSUME Inv, NEW a \in Asks, GiveUp(a)
  PROVE  Inv'
BY StoreSame DEF GiveUp, Inv, EngineTypeOK, TriggerCovered

----------------------------------------------------------------------------
(* The session.                                                            *)

Begins(line) == line # << >> /\ line[1].job = "start" /\ line[1].pc = "wait"
NoWriteUnder == onlineOnly => \A a \in Asks : ~Under(a)

LEMMA SessionKeeps ==
  ASSUME Inv, Sound(e'), Ran(e'), Hidden(e'), Calm(e'), e'.owed \subseteq e.owed,
         UNCHANGED <<world, ask, reply, gaveUp, trig, verdict, strays, doubtful, bad>>,
         logins' \in Nat, JobsOK(chain'), e'.session = "restoring" <=> Begins(chain'),
         e'.session = "restoring" => e.session = "restoring",
         \A a \in Asks : onlineOnly /\ Under(a) => WriteFirst(a)'
  PROVE  Inv'
<1>1. EngineTypeOK'
  BY DEF Inv, EngineTypeOK, Sound, JobsOK
<1>2. WritesOK'
  BY CalmKeepsWrites, AsksSame DEF Inv
<1>3. LineOK'
  BY DEF LineOK, JobsOK, Begins, jobIs, Under, onlineOnly, mode
<1>4. TriggerCovered'
  BY DEF Inv, TriggerCovered
<1> QED
  BY <1>1, <1>2, <1>3, <1>4 DEF Inv

\* The first of the serial steps is one of the session: no write is running.
LEMMA SessionFirst ==
  ASSUME Inv, NEW job \in {"start", "signIn", "signOut"}, NEW pc, jobIs(job, pc)
  PROVE  /\ chain \in Seq(Job) /\ chain # << >> /\ JobsOK(chain) /\ NoWriteUnder
         /\ job # "signOut" => chain[1].by \in Accounts
         /\ e.session = "restoring" <=> job = "start" /\ pc = "wait"
<1>1. chain \in Seq(Job) /\ chain # << >> /\ JobsOK(chain)
  BY DEF Inv, LineOK, JobsOK, jobIs
<1>2. 1 \in DOMAIN chain
  BY <1>1
<1> QED
  BY <1>1, <1>2 DEF Inv, LineOK, JobsOK, jobIs, NoWriteUnder, WriteFirst

\* It is done, or goes on.
LEMMA SessionStep ==
  ASSUME Inv, NEW job \in {"start", "signIn", "signOut"}, NEW pc, jobIs(job, pc),
         NEW s, NEW line, step(s, line),
         line = Tail(chain) \/ \E q \in {"syncing", "ask"} : line = goOn(q),
         Sound(s), Ran(s), Hidden(s), Calm(s), s.owed \subseteq e.owed,
         s.session # "restoring"
  PROVE  Inv'
<1>1. chain \in Seq(Job) /\ chain # << >> /\ JobsOK(chain) /\ NoWriteUnder
  BY SessionFirst
<1>2. JobsOK(line) /\ ~Begins(line)
  <2>1. CASE line = Tail(chain)
    <3>1. JobsOK(line) /\ \A i \in DOMAIN line : line[i].job # "start"
      BY <1>1, <2>1, JobsTaken
    <3>2. line # << >> => 1 \in DOMAIN line
      BY <3>1 DEF JobsOK
    <3> QED
      BY <3>1, <3>2 DEF Begins
  <2>2. ASSUME NEW q \in {"syncing", "ask"}, line = goOn(q)
        PROVE  JobsOK(line) /\ ~Begins(line)
    BY <1>1, <2>2, JobsMoved DEF goOn, Begins
  <2> QED
    BY <2>1, <2>2
<1>3. /\ e' = s /\ chain' = line
      /\ UNCHANGED <<world, ask, reply, gaveUp, trig, verdict, strays, doubtful, logins, bad>>
  BY DEF step
<1> QED
  BY <1>1, <1>2, <1>3, SessionKeeps DEF NoWriteUnder, Inv, EngineTypeOK

LEMMA StartedKeeps ==
  ASSUME Inv, Started
  PROVE  Inv'
<1>1. jobIs("start", "wait")
  BY DEF Started
<1>2. e.session = "restoring" /\ chain[1].by \in Accounts
  BY <1>1, SessionFirst
<1>3. Sound(e) /\ Ran(e) /\ Hidden(e)
  BY DEF Inv
<1>4. CASE foreignOutbox(e, chain[1].by)
  <2> DEFINE s == [e EXCEPT !.held = "ended", !.session = "signed-out"]
  <2>1. step(s, Tail(chain))
    BY <1>4 DEF Started
  <2>2. /\ Sound(s) /\ Ran(s) /\ Hidden(s) /\ s.session # "restoring" /\ s.owed = e.owed
        /\ s.claims = e.claims /\ s.flight = e.flight /\ s.outbox = e.outbox
        /\ s.owner = e.owner
    BY <1>2, <1>3 DEF Sound, Store, Owned, Carried, Quiet, Hidden, Ran, open
  <2> HIDE DEF s
  <2> QED
    BY <1>1, <2>1, <2>2, CalmSame, SessionStep
<1>5. CASE ~foreignOutbox(e, chain[1].by)
  <2> DEFINE q == signedIn(e, chain[1].by)
             s == runSync(q, "start")
  <2>1. step(s, goOn("syncing"))
    BY <1>5 DEF Started
  <2>2. /\ Sound(q) /\ Hidden(q) /\ q.owner \in Accounts /\ q.session = "signed-in"
        /\ q.flight = e.flight /\ q.owed = e.owed /\ q.outbox = e.outbox
        /\ q.claims = e.claims
    BY <1>2, <1>3, <1>5, SignedInSound
  <2> HIDE DEF q
  <2>3. Sound(s) /\ Hidden(s) /\ Turned(q, s) /\ Ran(s)
    BY <2>2, SyncAsked DEF Ticks
  <2> HIDE DEF s
  <2>4. Calm(s)
    BY <2>2, <2>3, Names, CalmSame, CalmTurned
  <2>5. s.session # "restoring" /\ s.owed \subseteq e.owed
    BY <2>2, <2>3 DEF Turned, Steady
  <2> QED
    BY <1>1, <2>1, <2>3, <2>4, <2>5, SessionStep
<1> QED
  BY <1>4, <1>5

LEMMA NotStartedKeeps ==
  ASSUME Inv, NotStarted
  PROVE  Inv'
<1>1. jobIs("start", "wait")
  BY DEF NotStarted
<1>2. e.session = "restoring" /\ chain[1].by \in Accounts
  BY <1>1, SessionFirst
<1>3. Sound(e) /\ Ran(e) /\ Hidden(e)
  BY DEF Inv
<1>4. PICK over \in BOOLEAN :
        IF over \/ e.owner = NoOne
        THEN step([e EXCEPT !.held = IF over THEN "ended" ELSE @,
                            !.session = "signed-out"], Tail(chain))
        ELSE step(publishAll([e EXCEPT !.session = "signed-in"]), Tail(chain))
  BY DEF NotStarted
<1>5. CASE over \/ e.owner = NoOne
  <2> DEFINE s == [e EXCEPT !.held = IF over THEN "ended" ELSE @,
                            !.session = "signed-out"]
  <2>1. /\ Sound(s) /\ Ran(s) /\ Hidden(s) /\ s.session # "restoring" /\ s.owed = e.owed
        /\ s.claims = e.claims /\ s.flight = e.flight /\ s.outbox = e.outbox
        /\ s.owner = e.owner
    BY <1>2, <1>3 DEF Sound, Store, Owned, Carried, Quiet, Hidden, Ran, open
  <2>2. step(s, Tail(chain))
    BY <1>4, <1>5
  <2> HIDE DEF s
  <2> QED
    BY <1>1, <2>1, <2>2, CalmSame, SessionStep
<1>6. CASE ~(over \/ e.owner = NoOne)
  <2> DEFINE q == [e EXCEPT !.session = "signed-in"]
             s == publishAll(q)
  <2>1. /\ Sound(q) /\ Ran(q) /\ q.session # "restoring" /\ q.owed = e.owed
        /\ q.claims = e.claims /\ q.flight = e.flight /\ q.outbox = e.outbox
        /\ q.owner = e.owner
    BY <1>2, <1>3, <1>6 DEF Sound, Store, Owned, Carried, Quiet, Ran, open
  <2>2. step(s, Tail(chain))
    BY <1>4, <1>6
  <2> HIDE DEF q
  <2>3. /\ Sound(s) /\ Ran(s) /\ Hidden(s) /\ Turned(q, s)
    BY <2>1, PublishedSound
  <2> HIDE DEF s
  <2>4. Calm(s) /\ s.session # "restoring" /\ s.owed \subseteq e.owed
    BY <2>1, <2>3, CalmSame, CalmTurned DEF Turned, Steady
  <2> QED
    BY <1>1, <2>2, <2>3, <2>4, SessionStep
<1> QED
  BY <1>5, <1>6

\* The store stays as it is.
LEMMA SessionMoves ==
  ASSUME Inv, NEW job \in {"start", "signIn", "signOut"}, NEW pc, jobIs(job, pc),
         pc # "wait" \/ job # "start", NEW line, step(e, line),
         line = Tail(chain) \/ \E q \in {"syncing", "ask"} : line = goOn(q)
  PROVE  Inv'
<1>1. e.session # "restoring"
  BY SessionFirst
<1> QED
  BY <1>1, CalmSame, SessionStep DEF Inv

LEMMA SignedInKeeps ==
  ASSUME Inv, SignedIn
  PROVE  Inv'
<1>1. jobIs("signIn", "ask")
  BY DEF SignedIn
<1>2. e.session # "restoring" /\ chain[1].by \in Accounts
  BY <1>1, SessionFirst
<1>3. CASE step(e, Tail(chain))
  BY <1>1, <1>3, SessionMoves
<1>4. CASE /\ ~foreignOutbox(e, chain[1].by)
           /\ step(runSync(signedIn(e, chain[1].by), "start"), goOn("syncing"))
  <2> DEFINE q == signedIn(e, chain[1].by)
             s == runSync(q, "start")
  <2>1. step(s, goOn("syncing"))
    BY <1>4
  <2>2. /\ Sound(q) /\ Hidden(q) /\ q.owner \in Accounts /\ q.session = "signed-in"
        /\ q.flight = e.flight /\ q.owed = e.owed /\ q.outbox = e.outbox
        /\ q.claims = e.claims
    BY <1>2, <1>4, SignedInSound DEF Inv
  <2> HIDE DEF q
  <2>3. Sound(s) /\ Hidden(s) /\ Turned(q, s) /\ Ran(s)
    BY <2>2, SyncAsked DEF Ticks
  <2> HIDE DEF s
  <2>4. Calm(s)
    BY <2>2, <2>3, Names, CalmSame, CalmTurned
  <2>5. s.session # "restoring" /\ s.owed \subseteq e.owed
    BY <2>2, <2>3 DEF Turned, Steady
  <2> QED
    BY <1>1, <2>1, <2>3, <2>4, <2>5, SessionStep
<1> QED
  BY <1>3, <1>4 DEF SignedIn

LEMMA SignedOutKeeps ==
  ASSUME Inv, SignedOut
  PROVE  Inv'
<1> DEFINE q == [e EXCEPT !.held = "ended", !.session = "signed-out"]
           s == publishAll(q)
<1>1. jobIs("signOut", "ask") /\ step(s, Tail(chain))
  BY DEF SignedOut, signedOut
<1>2. e.session # "restoring"
  BY <1>1, SessionFirst
<1>3. /\ Sound(q) /\ Ran(q) /\ q.session # "restoring" /\ q.owed = e.owed
      /\ q.claims = e.claims /\ q.flight = e.flight /\ q.outbox = e.outbox
      /\ q.owner = e.owner
  BY <1>2 DEF Inv, Sound, Store, Owned, Carried, Quiet, Ran, open
<1> HIDE DEF q
<1>4. /\ Sound(s) /\ Ran(s) /\ Hidden(s) /\ Turned(q, s)
  BY <1>3, PublishedSound
<1> HIDE DEF s
<1>5. Calm(s) /\ s.session # "restoring" /\ s.owed \subseteq e.owed
  BY <1>3, <1>4, CalmSame, CalmTurned DEF Turned, Steady
<1> QED
  BY <1>1, <1>4, <1>5, SessionStep

LEMMA SessionStepsKeep ==
  ASSUME Inv, Started \/ NotStarted \/ Waited \/ SignedIn \/ Synced \/ SignedOut
  PROVE  Inv'
<1>1. CASE Waited
  <2>1. PICK job \in {"signIn", "signOut"} : jobIs(job, "wait") /\ step(e, goOn("ask"))
    BY <1>1 DEF Waited, runOver
  <2> QED
    BY <2>1, SessionMoves
<1>2. CASE Synced
  <2>1. PICK job \in {"start", "signIn"} : jobIs(job, "syncing") /\ step(e, Tail(chain))
    BY <1>2 DEF Synced
  <2> QED
    BY <2>1, SessionMoves
<1> QED
  BY <1>1, <1>2, StartedKeeps, NotStartedKeeps, SignedInKeeps, SignedOutKeeps

LEMMA AskSessionKeeps ==
  ASSUME Inv, NEW job \in {"signIn", "signOut"}, NEW acc \in Accounts \cup {NoOne},
         job = "signIn" => acc \in Accounts, AskSession(job, acc)
  PROVE  Inv'
<1> DEFINE j == [job |-> job, by |-> acc, pc |-> "wait"]
           line == Append(chain, j)
<1>1. /\ chain' = line /\ logins' \in Nat
      /\ UNCHANGED <<world, e, ask, reply, gaveUp, trig, verdict, strays, doubtful, bad>>
  BY DEF AskSession, Inv, EngineTypeOK
<1>2. j \in Job /\ j.job \notin {"start", "write"} /\ (j.job = "signIn" => j.by \in Accounts)
  BY DEF Job
<1> HIDE DEF j
<1>3. JobsOK(chain) /\ chain \in Seq(Job)
  BY DEF Inv, LineOK, JobsOK
<1>4. /\ JobsOK(line) /\ line # << >> /\ (chain # << >> => line[1] = chain[1])
      /\ (chain = << >> => line[1] = j)
  BY <1>2, <1>3, JobsAppended
<1> HIDE DEF line
<1>5. e.session = "restoring" <=> Begins(line)
  BY <1>2, <1>4 DEF Inv, LineOK, jobIs, Begins
<1>6. \A a \in Asks : onlineOnly /\ Under(a) => WriteFirst(a)'
  BY <1>1, <1>4 DEF Inv, LineOK, WriteFirst
<1>7. Calm(e)
  BY CalmSame
<1> QED
  BY <1>1, <1>4, <1>5, <1>6, <1>7, SessionKeeps DEF Inv

LEMMA OtherProcessKeeps ==
  ASSUME Inv, OtherSync \/ \E acc \in Accounts : OtherLogin(acc)
  PROVE  Inv'
<1>1. Sound(e) /\ Ran(e) /\ Hidden(e)
  BY DEF Inv
<1>2. /\ JobsOK(chain) /\ (e.session = "restoring" <=> Begins(chain))
      /\ \A a \in Asks : onlineOnly /\ Under(a) => WriteFirst(a)
  BY DEF Inv, LineOK, jobIs, Begins
<1>3. CASE OtherSync
  <2> DEFINE s == [e EXCEPT !.rows = @ \cup {e.owner}, !.cursor = 1]
  <2>1. /\ e' = s /\ e.held = e.owner
        /\ UNCHANGED <<world, chain, ask, reply, gaveUp, trig, verdict, strays, doubtful,
                       logins, bad>>
    BY <1>3 DEF OtherSync
  <2>2. e.owner \in Accounts
    BY <1>1, <2>1, Names DEF Sound, Owned, Store, NoOne
  <2>3. /\ Sound(s) /\ Ran(s) /\ Hidden(s) /\ s.session = e.session /\ s.owed = e.owed
        /\ s.claims = e.claims /\ s.flight = e.flight /\ s.outbox = e.outbox
        /\ s.owner = e.owner
    BY <1>1, <2>2, Names DEF Sound, Store, Owned, Carried, Quiet, Hidden, Ran, open
  <2> HIDE DEF s
  <2>4. Calm(s)
    BY <2>3, CalmSame
  <2> QED
    BY <1>2, <2>1, <2>3, <2>4, SessionKeeps DEF WriteFirst, Inv, EngineTypeOK
<1>4. CASE \E acc \in Accounts : OtherLogin(acc)
  <2>1. PICK acc \in Accounts : OtherLogin(acc)
    BY <1>4
  <2> DEFINE s == [adoptAccount(e, acc) EXCEPT !.held = acc]
  <2>2. /\ e' = s /\ ~foreignOutbox(e, acc) /\ logins' \in Nat
        /\ UNCHANGED <<world, chain, ask, reply, gaveUp, trig, verdict, strays, doubtful,
                       bad>>
    BY <2>1 DEF OtherLogin, Inv, EngineTypeOK
  <2>3. /\ Sound(s) /\ s.owner = acc /\ s.session = e.session
        /\ s.flight = e.flight /\ s.running = e.running /\ s.again = e.again
        /\ s.shown = e.shown /\ s.owed = e.owed /\ s.outbox = e.outbox
        /\ s.claims = e.claims
    BY <1>1, <2>2, AdoptedSound
  <2> HIDE DEF s
  <2>4. Calm(s) /\ Ran(s) /\ Hidden(s)
    BY <1>1, <2>3, Names, CalmSame DEF Ran, Hidden, open
  <2> QED
    BY <1>2, <2>2, <2>3, <2>4, SessionKeeps DEF WriteFirst
<1> QED
  BY <1>3, <1>4

----------------------------------------------------------------------------
(* The server.                                                             *)

\* What is recorded answers every operation of the request, and stays recorded.
Verdict == {None, "applied", "rejected"}
RecordedAs(batch, v) ==
  LET ops == opsOf(batch)
  IN  /\ ops \subseteq Ops /\ v \in [ops -> Answers]
      /\ bad' \in Nat /\ doubtful \subseteq doubtful' /\ doubtful' \subseteq Ops
      /\ strays' = {} /\ verdict' \in [Ops -> Verdict]
      /\ \A op \in Ops : verdict[op] # None => verdict'[op] = verdict[op]
      /\ \A op \in Ops : verdict'[op] # None => verdict[op] # None \/ op \in ops
      /\ \A op \in ops : IF v[op] = "unrecorded" THEN op \in doubtful'
                                                 ELSE verdict'[op] = v[op]
      /\ \A op \in Ops : Fated(op) => Fated(op)'
      /\ \A op \in ops : IF v[op] \in Refusals THEN Fated(op)'
                                               ELSE verdict'[op] = "applied"

LEMMA RecordedIs ==
  ASSUME EngineTypeOK, strays = {}, NEW batch \in SUBSET Entry, NEW by,
         NEW v \in Verdicts(opsOf(batch)), recorded(batch, by, v),
         \A y \in batch : y.by = by
  PROVE  RecordedAs(batch, v)
<1> DEFINE ops == opsOf(batch)
           failed == {op \in ops : v[op] = "unrecorded"}
<1>1. /\ bad' = bad \/ bad' = bad + 1
      /\ verdict' = [op \in Ops |-> IF op \in ops \ failed THEN v[op] ELSE verdict[op]]
      /\ doubtful' = doubtful \cup failed
      /\ strays' = strays \cup
           {y.op : y \in {z \in batch : v[z.op] = "applied" /\ z.by # by}}
  BY DEF recorded, opsOf
<1>2. /\ v \in [ops -> Answers]
      /\ \A op \in ops : verdict[op] # None => v[op] = verdict[op]
  BY DEF Verdicts, Answers
<1>3. /\ ops \subseteq Ops /\ verdict \in [Ops -> Verdict]
      /\ bad \in Nat /\ doubtful \subseteq Ops
  BY DEF opsOf, Entry, EngineTypeOK, Verdict
<1>4. bad' \in Nat /\ strays' = {}
  BY <1>1, <1>3
<1>5. \A op \in ops : v[op] \in Answers
  BY <1>2
<1>6. \A op \in ops : verdict[op] # None => op \notin failed
  BY <1>2, <1>3 DEF Verdict
<1>7. \A op \in ops : v[op] = "unrecorded" <=> op \in failed
  OBVIOUS
<1>8. failed \subseteq ops
  OBVIOUS
<1> HIDE DEF failed, ops
<1>9. \A op \in Ops : verdict'[op] = IF op \in ops \ failed THEN v[op] ELSE verdict[op]
  BY <1>1
<1>10. \A op \in ops \ failed : v[op] \in {"applied", "rejected"}
  BY <1>5, <1>7 DEF Answers
<1>11. verdict' \in [Ops -> Verdict]
  BY <1>1, <1>3, <1>10 DEF Verdict
<1>12. /\ \A op \in Ops : verdict[op] # None => verdict'[op] = verdict[op]
       /\ \A op \in Ops : verdict'[op] # None => verdict[op] # None \/ op \in ops
       /\ \A op \in ops : IF v[op] = "unrecorded" THEN op \in doubtful'
                                                  ELSE verdict'[op] = v[op]
  BY <1>1, <1>2, <1>3, <1>6, <1>7, <1>9
<1>13. \A op \in Ops : Fated(op) => Fated(op)'
  BY <1>1, <1>12 DEF Fated, None
<1>14. \A op \in ops : IF v[op] \in Refusals THEN Fated(op)'
                                            ELSE verdict'[op] = "applied"
  BY <1>5, <1>12 DEF Fated, Refusals, Answers
<1>15. doubtful \subseteq doubtful' /\ doubtful' \subseteq Ops
  BY <1>1, <1>3, <1>8
<1> QED
  BY <1>2, <1>3, <1>4, <1>11, <1>12, <1>13, <1>14, <1>15 DEF RecordedAs, ops

LEMMA ServeKeeps ==
  ASSUME Inv, NEW f \in Flushers, Serve(f)
  PROVE  Inv'
<1> DEFINE x == e.flight[f]
           ops == opsOf(x.batch)
<1>1. PICK v \in Verdicts(ops) :
        /\ x.at = "sent" /\ x.by \in Accounts
        /\ recorded(x.batch, x.by, v)
        /\ e' = [e EXCEPT !.flight[f].results = v, !.flight[f].at = "served"]
        /\ UNCHANGED <<world, chain, ask, reply, gaveUp, trig, logins>>
  BY DEF Serve, opsOf
<1>2. /\ Sound(e) /\ Ran(e) /\ Hidden(e) /\ e \in Store /\ x \in Flight
      /\ x.batch \subseteq Entry
  BY DEF Inv, Sound, Store, Flight
<1>3. \A z \in x.batch : z.by = x.by
  BY <1>1, <1>2 DEF Sound, Carried
<1>4. /\ x.at = "sent" /\ x.by \in Accounts
      /\ UNCHANGED <<world, chain, ask, reply, gaveUp, trig, logins>>
  BY <1>1
<1>5. RecordedAs(x.batch, v)
  BY <1>1, <1>2, <1>3, RecordedIs DEF Inv
<1>13. /\ ops \subseteq Ops /\ v \in [ops -> Answers]
       /\ bad' \in Nat /\ doubtful \subseteq doubtful' /\ doubtful' \subseteq Ops
       /\ strays' = {} /\ verdict' \in [Ops -> {None, "applied", "rejected"}]
       /\ \A op \in Ops : verdict[op] # None => verdict'[op] = verdict[op]
       /\ \A op \in Ops : verdict'[op] # None => verdict[op] # None \/ op \in ops
       /\ \A op \in ops : IF v[op] = "unrecorded" THEN op \in doubtful'
                                                  ELSE verdict'[op] = v[op]
       /\ \A op \in Ops : Fated(op) => Fated(op)'
  BY <1>5 DEF RecordedAs, Verdict
<1> DEFINE y == [x EXCEPT !.results = v, !.at = "served"]
           r == [e EXCEPT !.flight[f] = y]
<1>6. e' = r
  BY <1>1, <1>2 DEF Store, Flight
<1>7. /\ y \in Flight /\ y.at = "served" /\ y.results = v
      /\ y.batch = x.batch /\ y.by = x.by
  <2>1. v \in Results
    BY <1>13 DEF Results
  <2> HIDE DEF x
  <2> QED
    BY <1>2, <2>1 DEF Flight
<1> HIDE DEF y
<1>8. /\ r \in Store
      /\ r.flight[f] = y
      /\ \A g \in Flushers \ {f} : r.flight[g] = e.flight[g]
      /\ r.session = e.session /\ r.held = e.held /\ r.owner = e.owner
      /\ r.rows = e.rows /\ r.cursor = e.cursor /\ r.outbox = e.outbox
      /\ r.claims = e.claims /\ r.untidy = e.untidy
      /\ r.running = e.running /\ r.again = e.again
      /\ r.shown = e.shown /\ r.owed = e.owed
  BY <1>2, <1>7, OtherFlight
<1> HIDE DEF r
<1>9. \A g \in Flushers :
        /\ r.flight[g].batch = e.flight[g].batch /\ r.flight[g].by = e.flight[g].by
        /\ r.flight[g].at # None <=> e.flight[g].at # None
  BY <1>4, <1>7, <1>8 DEF None
<1>10. e.session # "restoring" /\ e.owner # NoOne
  BY <1>4, Flying DEF None
<1>11. Sound(r) /\ Ran(r) /\ Hidden(r)
  <2>1. Owned(r) /\ Quiet(r)
    BY <1>2, <1>8, <1>10 DEF Sound, Owned, Quiet
  <2>2. Carried(r)
    <3> SUFFICES ASSUME NEW g \in Flushers
                 PROVE  /\ r.flight[g].by \in Accounts =>
                             \A z \in r.flight[g].batch : z.by = r.flight[g].by
                        /\ r.flight[g].at = "served" =>
                             /\ r.flight[g].by \in Accounts
                             /\ r.flight[g].results \in [opsOf(r.flight[g].batch) -> Answers]
      BY DEF Carried
    <3>1. CASE g = f
      BY <3>1, <1>2, <1>3, <1>4, <1>7, <1>8, <1>13 DEF Sound, Carried
    <3>2. CASE g # f
      BY <3>2, <1>2, <1>8 DEF Sound, Carried
    <3> QED
      BY <3>1, <3>2
  <2> QED
    BY <1>2, <1>8, <2>1, <2>2 DEF Sound, Ran, Hidden, open
<1>14. EngineTypeOK'
  BY <1>4, <1>6, <1>8, <1>13 DEF Inv, EngineTypeOK
<1> HIDE DEF ops, x
<1>15. WritesOK'
  <2>1. AsksOK'
    <3> SUFFICES ASSUME NEW a \in Asks PROVE AskOK(a)'
      BY DEF AsksOK
    <3>1. AskOK(a) /\ ask[a].own \subseteq Ops /\ a \in Flushers
      BY AskOf DEF Inv, WritesOK, AsksOK, EngineTypeOK, Asking
    <3>2. Told(a) => Told(a)'
      BY <1>4, <1>6, <1>8, <1>9, <3>1 DEF Told, pendingOf, onlineOnly, mode
    <3> QED
      BY <1>4, <1>6, <1>8, <1>9, <1>13, <3>1, <3>2 DEF AskOK, onlineOnly, mode
  <2>2. AllMinted'
    <3>1. \A op \in ops : Minted(op)
      BY DEF Inv, WritesOK, AllMinted, opsOf, ops, x
    <3>2. \A op : Minted(op)' <=> Minted(op)
      BY <1>4 DEF Minted
    <3> QED
      BY <1>6, <1>8, <1>9, <1>13, <3>1, <3>2 DEF Inv, WritesOK, AllMinted
  <2>3. Judged'
    <3> SUFFICES ASSUME NEW g \in Flushers, r.flight[g].at = "served",
                        NEW op \in opsOf(r.flight[g].batch)
                 PROVE  IF r.flight[g].results[op] = "unrecorded" THEN op \in doubtful'
                        ELSE verdict'[op] = r.flight[g].results[op]
      BY <1>6 DEF Judged
    <3>1. CASE g = f
      BY <3>1, <1>7, <1>8, <1>13 DEF ops
    <3>2. CASE g # f
      <4>1. r.flight[g] = e.flight[g]
        BY <1>8, <3>2
      <4>2. e.flight[g].results \in [opsOf(e.flight[g].batch) -> Answers]
        BY <1>2, <4>1 DEF Sound, Carried
      <4>3. e.flight[g].results[op] \in Answers /\ op \in Ops
        BY <1>2, <4>1, <4>2 DEF opsOf, Store, Flight, Entry
      <4> QED
        BY <1>13, <4>1, <4>3 DEF Inv, WritesOK, Judged, Answers, None
    <3> QED
      BY <3>1, <3>2
  <2>4. OnceEach'
    <3> SUFFICES ASSUME NEW c \in Twofold PROVE AtMostOnce(c)'
      BY DEF OnceEach
    <3>1. \A k \in 1..Tries : <<c, k>> \in Asks /\ <<c, k>> \in Flushers /\ <<c, k>> \in Ops
      BY EngineAssumption DEF Asks, Flushers, Ops
    <3>2. AtMostOnce(c)
      BY DEF Inv, WritesOK, OnceEach
    <3>3. \A k \in 1..Tries :
            /\ Spent(c, k) => Spent(c, k)'
            /\ Queued(c, k)' <=> Queued(c, k)
            /\ Under(<<c, k>>)' <=> Under(<<c, k>>)
      BY <1>4, <1>13, <3>1 DEF Spent, Queued, Under
    <3> QED
      BY <1>6, <1>8, <1>9, <3>1, <3>2, <3>3 DEF AtMostOnce
  <2>7. Failing'
    <3>1. \A z \in e.outbox : z.op \in Ops
      BY <1>2 DEF Store, Entry
    <3> QED
      BY <1>6, <1>8, <1>13, <3>1 DEF Inv, WritesOK, Failing
  <2>5. Outboxed'
    <3> SUFFICES ASSUME ~onlineOnly'
                 PROVE  /\ gaveUp' = {}
                        /\ \A a \in Asks : Waiting(a)'
                        /\ \A c \in Cmds : Claimed(c)'
      BY DEF Outboxed
    <3>1. ~onlineOnly
      BY <1>4 DEF onlineOnly, mode
    <3>2. gaveUp' = {} /\ (\A a \in Asks : Waiting(a)) /\ (\A c \in Cmds : Claimed(c))
      BY <1>4, <3>1 DEF Inv, WritesOK, Outboxed
    <3>3. \A op \in Ops : verdict[op] = "applied" => verdict'[op] = "applied"
      BY <1>13 DEF None
    <3>4. \A a \in Asks : Waiting(a)'
      <4> SUFFICES ASSUME NEW a \in Asks PROVE Waiting(a)'
        OBVIOUS
      <4>1. ask[a].own \subseteq Ops
        BY DEF Inv, EngineTypeOK, Asking
      <4>2. Kept(a) => Kept(a)'
        BY <1>4, <1>6, <1>8, <3>3, <4>1 DEF Kept, inOutbox
      <4>3. Waiting(a)
        BY <3>2
      <4> QED
        BY <1>4, <3>3, <4>1, <4>2, <4>3 DEF Waiting, Under
    <3>5. \A c \in Cmds : Claimed(c)'
      BY <1>4, <1>6, <1>8, <3>2 DEF Claimed, Queued
    <3> QED
      BY <3>2, <3>4, <3>5
  <2>6. OnTheWay'
    BY <1>4, <1>6, <1>8, <1>9, Names
    DEF Inv, WritesOK, OnTheWay, pendingOf, onlineOnly, mode
  <2> QED
    BY <2>1, <2>2, <2>3, <2>4, <2>5, <2>6, <2>7 DEF WritesOK
<1>16. LineOK'
  BY <1>4, <1>6, <1>8
  DEF Inv, LineOK, JobsOK, Under, WriteFirst, jobIs, onlineOnly, mode
<1>17. TriggerCovered'
  BY <1>4, <1>6, <1>8 DEF Inv, TriggerCovered
<1> QED
  BY <1>6, <1>11, <1>13, <1>14, <1>15, <1>16, <1>17 DEF Inv

----------------------------------------------------------------------------
(* The answer to a write.                                                  *)

\* With an outbox no other attempt at the command of a write under way is, or
\* was told saved: what it queued is its own.
LEMMA OwnApart ==
  ASSUME Inv, ~onlineOnly, NEW a \in Asks, NEW b \in Asks, a # b, Under(a),
         ask[b].pc = "sent" \/ reply[b] = "ok"
  PROVE  \A op \in ask[b].own : op \notin ask[a].own
<1> SUFFICES ASSUME NEW op \in ask[b].own, op \in ask[a].own PROVE FALSE
  OBVIOUS
<1>1. AskOK(a) /\ AskOK(b) /\ Waiting(a) /\ Waiting(b)
  BY DEF Inv, WritesOK, AsksOK, Outboxed
<1>2. op[1] = a[1] /\ op[1] = b[1]
  BY <1>1, AskOf DEF AskOK
<1>3. /\ a[2] \in 1..Tries /\ b[2] \in 1..Tries
      /\ a = <<a[1], a[2]>> /\ b = <<b[1], b[2]>>
  BY AskOf
<1>4. a[2] # b[2] /\ reply[a] = None /\ ask[a].pc # "idle" /\ ask[b].pc # "idle"
  BY <1>1, <1>2, <1>3 DEF AskOK, Under, None
<1>5. CASE a[2] < b[2]
  <2>1. reply[<<b[1], a[2]>>] \in Retryable
    BY <1>1, <1>3, <1>4, <1>5 DEF Waiting
  <2>2. a = <<b[1], a[2]>>
    BY <1>2, <1>3
  <2> QED
    BY <1>4, <2>1, <2>2 DEF Retryable, None
<1>6. CASE b[2] < a[2]
  <2>1. reply[<<a[1], b[2]>>] \in Retryable
    BY <1>1, <1>3, <1>4, <1>6 DEF Waiting
  <2>2. b = <<a[1], b[2]>>
    BY <1>2, <1>3
  <2>3. reply[b] \in Retryable
    BY <2>1, <2>2
  <2> QED
    BY <1>1, <2>3 DEF AskOK, Retryable, None
<1> QED
  BY <1>3, <1>4, <1>5, <1>6, EngineAssumption

\* What a write's flush brings is marked, its command freed or not.
SettledBy(a, r) ==
  LET f == e.flight[a]
      own == ask[a].own
      D == opsOf(f.batch)
      over == own # {} /\ \A op \in own : op \in D /\ f.results[op] \in Refusals
  IN  /\ r.claims = IF over THEN e.claims \ {a[1]} ELSE e.claims
      /\ r.session = e.session /\ r.owner = e.owner /\ r.owed = e.owed
      /\ r.flight[a].at = None /\ r.flight[a].batch = {}
      /\ \A g \in Flushers \ {a} : r.flight[g] = e.flight[g]
      /\ \A x \in r.outbox : inOutbox(e, x.op)
      /\ \A x \in r.outbox : x.failed \/ (x \in e.outbox /\ x.op \notin D)
      /\ \A x \in r.outbox : x.failed => x \in e.outbox \/ Fated(x.op)
      /\ \A x \in e.outbox : \/ inOutbox(r, x.op)
                             \/ verdict[x.op] = "applied"
                             \/ x.op \in own

LEMMA SettledStore ==
  ASSUME Inv, NEW a \in Asks, Settled(a)
  PROVE  /\ Sound(e') /\ Ran(e') /\ Hidden(e') /\ SettledBy(a, e')
         /\ ask[a].pc = "sent"
         /\ LET f == e.flight[a]
            IN  /\ f.results \in [opsOf(f.batch) -> Answers] /\ opsOf(f.batch) \subseteq Ops
                /\ ask[a].own \subseteq opsOf(f.batch) \/ Told(a)
                /\ \A op \in opsOf(f.batch) :
                     IF f.results[op] = "unrecorded" THEN op \in doubtful
                     ELSE verdict[op] = f.results[op]
<1> DEFINE f == e.flight[a]
           own == ask[a].own
           D == opsOf(f.batch)
           over == own # {} /\ \A op \in own : op \in DOMAIN f.results /\ f.results[op] \in Refusals
           s1 == settle(e, f.results, own)
           s2 == release(s1, a[1], own, f.results)
           s3 == applyDelta(s2, f)
           s4 == [s3 EXCEPT !.flight[a] = NoFlight]
<1>1. f.at = "served" /\ e' = s4
  BY DEF Settled
<1>2. a \in Flushers /\ f.at # None
  BY <1>1, AskOf DEF None
<1>3. f \in Flight /\ f.by \in Accounts /\ f.results \in [D -> Answers] /\ D \subseteq Ops
  <2>1. f \in Flight
    BY <1>2 DEF Inv, Sound, Store
  <2>2. f.by \in Accounts /\ f.results \in [D -> Answers]
    BY <1>1, <1>2 DEF Inv, Sound, Carried
  <2>3. D \subseteq Ops
    BY <2>1 DEF opsOf, Flight, Entry
  <2> QED
    BY <2>1, <2>2, <2>3
<1>4. e.session # "restoring" /\ e.owner # NoOne
  BY <1>2, Flying
<1>5. Sound(e) /\ Ran(e) /\ Hidden(e)
  BY DEF Inv
<1>6. ask[a].pc = "sent" /\ (own \subseteq D \/ Told(a))
  BY <1>2 DEF Inv, WritesOK, AsksOK, AskOK
<1>7. \A op \in D : IF f.results[op] = "unrecorded" THEN op \in doubtful
                    ELSE verdict[op] = f.results[op]
  BY <1>1, <1>2 DEF Inv, WritesOK, Judged
<1>8. f = e.flight[a] /\ D = opsOf(f.batch)
  OBVIOUS
<1>9. over <=> own # {} /\ \A op \in own : op \in D /\ f.results[op] \in Refusals
  BY <1>3
<1> HIDE DEF f, own, D
<1>10. /\ Sound(s1) /\ Alike(e, s1) /\ s1.claims = e.claims /\ s1.rows = e.rows
       /\ \A x \in s1.outbox : \E y \in e.outbox :
            y.op = x.op /\ (~x.failed => x = y /\ x.op \notin D)
       /\ \A x \in s1.outbox :
            x \in e.outbox \/ (x.failed /\ x.op \in D /\ f.results[x.op] \in Refusals)
       /\ \A y \in e.outbox :
            y.op \notin D \/ (f.results[y.op] \in Refusals /\ y.op \notin own) =>
              \E x \in s1.outbox : x.op = y.op
  BY <1>3, <1>5, SettledOutbox
<1> HIDE DEF s1
<1>11. /\ Sound(s2) /\ Alike(s1, s2) /\ s2.outbox = s1.outbox
       /\ s2.claims = IF over THEN s1.claims \ {a[1]} ELSE s1.claims
  <2>1. /\ Sound(s2) /\ Alike(s1, s2) /\ s2.outbox = s1.outbox
        /\ \/ /\ own # {} /\ \A op \in own :
                              op \in DOMAIN f.results /\ f.results[op] \in Refusals
              /\ s2.claims = s1.claims \ {a[1]}
           \/ /\ own = {} \/ \E op \in own :
                   ~ (op \in DOMAIN f.results /\ f.results[op] \in Refusals)
              /\ s2.claims = s1.claims
    BY <1>10, ReleasedSound
  <2> QED
    BY <2>1
<1> HIDE DEF s2, over
<1>12. /\ Sound(s3) /\ Alike(s2, s3) /\ s3.claims = s2.claims /\ s3.outbox = s2.outbox
  BY <1>3, <1>4, <1>10, <1>11, DeltaSound DEF Alike
<1> HIDE DEF s3
<1>13. /\ Alike(e, s3) /\ s3.outbox = s1.outbox /\ s3 \in Store
  BY <1>10, <1>11, <1>12 DEF Alike, Sound
<1>14. /\ s4 \in Store
       /\ s4.flight[a] = NoFlight
       /\ \A g \in Flushers \ {a} : s4.flight[g] = s3.flight[g]
       /\ s4.session = s3.session /\ s4.held = s3.held /\ s4.owner = s3.owner
       /\ s4.rows = s3.rows /\ s4.outbox = s3.outbox /\ s4.claims = s3.claims
       /\ s4.running = s3.running /\ s4.again = s3.again
       /\ s4.shown = s3.shown /\ s4.owed = s3.owed
  BY <1>2, <1>13, NoFlightIs, OtherFlight
<1> HIDE DEF s4
<1>15. Sound(s4) /\ Ran(s4) /\ Hidden(s4)
  <2>1. Owned(s4) /\ Quiet(s4)
    BY <1>4, <1>12, <1>13, <1>14 DEF Sound, Owned, Quiet, Alike, open
  <2>2. Carried(s4)
    BY <1>12, <1>14, NoFlightIs, Names DEF Sound, Carried, None
  <2> QED
    BY <1>5, <1>13, <1>14, <2>1, <2>2 DEF Sound, Ran, Hidden, Alike, open
<1>16. \A op \in D : IF f.results[op] \in Refusals THEN Fated(op)
                    ELSE verdict[op] = "applied"
  BY <1>3, <1>7 DEF Answers, Refusals, Fated
<1>17. /\ \A x \in s4.outbox : inOutbox(e, x.op)
       /\ \A x \in s4.outbox : x.failed \/ (x \in e.outbox /\ x.op \notin D)
       /\ \A x \in s4.outbox : x.failed => x \in e.outbox \/ Fated(x.op)
       /\ \A x \in e.outbox : \/ inOutbox(s4, x.op)
                              \/ verdict[x.op] = "applied"
                              \/ x.op \in own
  BY <1>10, <1>13, <1>14, <1>16 DEF inOutbox
<1>18. SettledBy(a, s4)
  BY <1>8, <1>9, <1>10, <1>11, <1>12, <1>13, <1>14, <1>17, NoFlightIs
  DEF SettledBy, Alike, own, over
<1> QED
  BY <1>1, <1>3, <1>6, <1>7, <1>8, <1>15, <1>18 DEF own

LEMMA SettledKeeps ==
  ASSUME Inv, NEW a \in Asks, Settled(a)
  PROVE  Inv'
<1> DEFINE f == e.flight[a]
           own == ask[a].own
           D == opsOf(f.batch)
           got == {outcome(f.results, op) : op \in own}
           over == own # {} /\ \A op \in own : op \in D /\ f.results[op] \in Refusals
<1>1. /\ Sound(e') /\ Ran(e') /\ Hidden(e') /\ SettledBy(a, e') /\ ask[a].pc = "sent"
      /\ f.results \in [D -> Answers] /\ D \subseteq Ops
      /\ own \subseteq D \/ Told(a)
      /\ \A op \in D : IF f.results[op] = "unrecorded" THEN op \in doubtful
                       ELSE verdict[op] = f.results[op]
  BY SettledStore
<1>2. /\ ask' = [heardBy(a) EXCEPT ![a].got = got]
      /\ UNCHANGED <<world, chain, reply, gaveUp, trig, verdict, strays, doubtful, logins, bad>>
  BY DEF Settled
<1>3. /\ a[1] \in Cmds /\ a[2] \in 1..Tries /\ a = <<a[1], a[2]>> /\ a \in Flushers
      /\ a # SyncRun /\ \A op \in mintOps(a[1], a[2]) : op[1] = a[1]
      /\ a[1] \in Twofold => mintOps(a[1], a[2]) = {<<a[1], 0>>, a}
  BY AskOf
<1>4. \A op \in own : outcome(f.results, op) \in Answers
  BY <1>1 DEF outcome, Answers
<1>40. got \subseteq Answers
  BY <1>4
<1>41. \A op \in own \cap D :
         IF outcome(f.results, op) \in Refusals THEN Fated(op) ELSE verdict[op] = "applied"
  BY <1>1 DEF outcome, Answers, Refusals, Fated
<1>42. \A op \in own \ D : /\ ~onlineOnly
                           /\ outcome(f.results, op) \in Refusals => Fated(op)
                           /\ outcome(f.results, op) \notin Refusals => ~inOutbox(e, op)
  <2> SUFFICES ASSUME NEW op \in own \ D
               PROVE  /\ ~onlineOnly
                      /\ outcome(f.results, op) \in Refusals => Fated(op)
                      /\ outcome(f.results, op) \notin Refusals => ~inOutbox(e, op)
    OBVIOUS
  <2>1. Told(a) /\ op \notin DOMAIN f.results
    BY <1>1
  <2>2. \A x \in e.outbox : x.op = op => x.failed
    BY <2>1 DEF Told, pendingOf
  <2>3. inOutbox(e, op) => Fated(op)
    BY <2>2 DEF inOutbox, Inv, WritesOK, Failing
  <2> QED
    BY <2>1, <2>3 DEF outcome, Refusals, Told
<1>43. \A op \in own : outcome(f.results, op) \in Refusals => Fated(op)
  BY <1>41, <1>42
<1>5. /\ ask' \in [Asks -> Asking]
      /\ ask'[a].pc = "settled" /\ ask'[a].own = own /\ ask'[a].got = got
      /\ \A b \in Asks \ {a} : ask'[b].pc = ask[b].pc /\ ask'[b].own = ask[b].own
                               /\ ask'[b].got = ask[b].got
  <2> HIDE DEF f, D
  <2>1. ask \in [Asks -> Asking]
    BY DEF Inv, EngineTypeOK
  <2>2. /\ heardBy(a) \in [Asks -> Asking]
        /\ \A b \in Asks : heardBy(a)[b].own = ask[b].own /\ heardBy(a)[b].got = ask[b].got
        /\ \A b \in Asks \ {a} : heardBy(a)[b].pc = ask[b].pc
        /\ heardBy(a)[a].pc = "settled"
    BY <1>1, <2>1 DEF heardBy, Asking
  <2> HIDE DEF got
  <2> QED
    BY <1>2, <1>40, <2>2 DEF Asking
<1>6. \A b \in Asks : ask'[b].own = ask[b].own
  BY <1>5
<1>7. e.flight[a].at # None
  BY <1>1 DEF Inv, WritesOK, AsksOK, AskOK
<1>8. /\ e'.claims = IF over THEN e.claims \ {a[1]} ELSE e.claims
      /\ e'.session = e.session /\ e'.owner = e.owner /\ e'.owed = e.owed
      /\ e'.flight[a].at = None /\ e'.flight[a].batch = {}
      /\ \A g \in Flushers \ {a} : e'.flight[g] = e.flight[g]
      /\ \A x \in e'.outbox : inOutbox(e, x.op)
      /\ \A x \in e'.outbox : x.failed \/ (x \in e.outbox /\ x.op \notin D)
      /\ \A x \in e'.outbox : x.failed => x \in e.outbox \/ Fated(x.op)
      /\ \A x \in e.outbox : \/ inOutbox(e', x.op)
                             \/ verdict[x.op] = "applied"
                             \/ x.op \in own
  BY <1>1 DEF SettledBy
<1>9. EngineTypeOK'
  BY <1>1, <1>2, <1>5 DEF Inv, EngineTypeOK, Sound
<1>10. AsksOK'
  <2> SUFFICES ASSUME NEW b \in Asks PROVE AskOK(b)'
    BY DEF AsksOK
  <2>1. AskOK(b)
    BY DEF Inv, WritesOK, AsksOK
  <2>2. onlineOnly' = onlineOnly
    BY <1>2 DEF onlineOnly, mode
  <2>3. CASE b = a
    <3>1. got \subseteq Refusals => \A op \in own : Fated(op)'
      BY <1>2, <1>43 DEF Fated
    <3> QED
      BY <1>1, <1>2, <1>5, <1>8, <2>1, <2>2, <2>3, <3>1 DEF AskOK
  <2>4. CASE b # a
    <3>1. e'.flight[b] = e.flight[b] /\ ask'[b].own = ask[b].own
      BY <1>5, <1>8, <2>4, Names
    <3>2. Told(b) => Told(b)'
      BY <1>8, <2>2, <3>1 DEF Told, pendingOf
    <3> QED
      BY <1>2, <1>5, <1>8, <2>1, <2>2, <2>4, <3>1, <3>2 DEF AskOK, Fated
  <2> QED
    BY <2>3, <2>4
<1>11. AllMinted'
  <2>1. \A op : Minted(op)' <=> Minted(op)
    BY <1>6 DEF Minted
  <2>2. \A x \in e'.outbox : Minted(x.op)
    BY <1>8 DEF Inv, WritesOK, AllMinted, inOutbox
  <2>3. \A g \in Flushers : \A x \in e'.flight[g].batch : Minted(x.op)
    BY <1>8 DEF Inv, WritesOK, AllMinted
  <2> QED
    BY <1>2, <2>1, <2>2, <2>3 DEF Inv, WritesOK, AllMinted
<1>12. Judged' /\ Failing'
  BY <1>2, <1>8 DEF Inv, WritesOK, Judged, Failing, Fated, None
<1>13. OnceEach'
  <2> SUFFICES ASSUME NEW c \in Twofold PROVE AtMostOnce(c)'
    BY DEF OnceEach
  <2>1. \A k \in 1..Tries : <<c, k>> \in Asks /\ <<c, k>> \in Flushers
    BY EngineAssumption, AskAt
  <2>2. AtMostOnce(c)
    BY DEF Inv, WritesOK, OnceEach
  <2>3. \A k \in 1..Tries :
          /\ Spent(c, k)' <=> Spent(c, k)
          /\ Queued(c, k)' <=> Queued(c, k)
          /\ Under(<<c, k>>)' <=> Under(<<c, k>>)
    BY <1>1, <1>2, <1>5, <2>1 DEF Spent, Fated, Queued, Under
  <2>4. \A k \in 1..Tries : <<c, k>> # a => e'.flight[<<c, k>>] = e.flight[<<c, k>>]
    BY <1>8, <2>1
  <2>5. CASE c # a[1]
    <3>1. c \in e'.claims <=> c \in e.claims
      BY <1>8, <2>5
    <3>2. \A k \in 1..Tries : <<c, k>> # a
      BY <1>3, <2>5
    <3> QED
      BY <2>2, <2>3, <2>4, <3>1, <3>2 DEF AtMostOnce
  <2>6. CASE c = a[1] /\ own = {}
    <3>1. e'.claims = e.claims
      BY <1>8, <2>6
    <3>2. \A k \in 1..Tries : Queued(c, k) => <<c, k>> # a
      BY <2>6 DEF Queued
    <3> QED
      BY <2>2, <2>3, <2>4, <3>1, <3>2 DEF AtMostOnce
  <2>7. CASE c = a[1] /\ own # {}
    <3> DEFINE i == a[2]
    <3>1. i \in 1..Tries /\ a = <<c, i>> /\ Queued(c, i)
      BY <1>3, <2>7 DEF Queued
    <3>2. \A j \in 1..Tries : i # j /\ Queued(c, j) =>
            Spent(c, j) /\ e.flight[<<c, j>>].at = None
      BY <1>1, <2>2, <3>1 DEF AtMostOnce, Under
    <3>3. c \in e.claims
      BY <1>7, <2>2, <3>1 DEF AtMostOnce
    <3>4. c \notin e'.claims => Spent(c, i)
      <4> SUFFICES ASSUME c \notin e'.claims PROVE Spent(c, i)
        OBVIOUS
      <4>1. over
        BY <1>8, <3>3
      <4>2. a \in own
        BY <1>3, <2>7, <3>1 DEF Inv, WritesOK, AsksOK, AskOK
      <4>3. f.results[a] \in Refusals /\ a \in D
        BY <4>1, <4>2
      <4> QED
        BY <1>1, <3>1, <4>3 DEF Spent, Fated, Refusals
    <3> HIDE DEF i
    <3>5. \A k \in 1..Tries : Queued(c, k) => e'.flight[<<c, k>>].at = None
      BY <1>8, <2>4, <3>1, <3>2
    <3> QED
      BY <2>2, <2>3, <3>1, <3>2, <3>4, <3>5 DEF AtMostOnce
  <2> QED
    BY <2>5, <2>6, <2>7
<1>14. Outboxed'
  <2> SUFFICES ASSUME ~onlineOnly'
               PROVE  /\ gaveUp' = {}
                      /\ \A b \in Asks : Waiting(b)'
                      /\ \A c \in Cmds : Claimed(c)'
    BY DEF Outboxed
  <2>1. ~onlineOnly
    BY <1>2 DEF onlineOnly, mode
  <2>2. gaveUp' = {} /\ (\A b \in Asks : Waiting(b)) /\ (\A c \in Cmds : Claimed(c))
    BY <1>2, <2>1 DEF Inv, WritesOK, Outboxed
  <2>3. reply[a] = None
    BY <1>1 DEF Inv, WritesOK, AsksOK, AskOK
  <2>4. ASSUME NEW b \in Asks PROVE Waiting(b)'
    <3>1. Waiting(b) /\ AskOK(b)
      BY <2>2 DEF Inv, WritesOK, AsksOK
    <3>2. CASE b = a
      <4>1. ask'[a].pc # "idle" =>
              \A j \in 1..Tries : j < a[2] => reply'[<<a[1], j>>] \in Retryable
        BY <1>1, <1>2, <3>1, <3>2 DEF Waiting
      <4>2. own # {} /\ reply'[a] # "ok"
        BY <1>1, <1>2, <2>3, <3>1, <3>2 DEF Waiting, Under, None
      <4>3. \A op \in own : outcome(f.results, op) \notin Refusals => verdict[op] = "applied"
        <5>1. Kept(a)
          BY <1>1, <3>1, <3>2 DEF Waiting
        <5> QED
          BY <1>41, <1>42, <5>1 DEF Kept
      <4>4. ask'[a].got \cap Refusals = {} => \A op \in own : verdict[op] = "applied"
        BY <1>5, <4>3
      <4> QED
        BY <1>2, <1>5, <3>2, <4>1, <4>2, <4>4 DEF Waiting, Under, Kept
    <3>3. CASE b # a
      <4>1. ask'[b].pc = ask[b].pc /\ ask'[b].own = ask[b].own /\ ask'[b].got = ask[b].got
        BY <1>5, <3>3
      <4>2. ask[b].pc = "sent" \/ reply[b] = "ok" => Kept(b)'
        <5> SUFFICES ASSUME ask[b].pc = "sent" \/ reply[b] = "ok", NEW op \in ask[b].own
                     PROVE  verdict[op] = "applied" \/ inOutbox(e', op)
          BY <1>2, <4>1 DEF Kept
        <5>1. verdict[op] = "applied" \/ inOutbox(e, op)
          BY <3>1 DEF Waiting, Kept
        <5>2. op \notin own
          BY <1>1, <2>1, <3>3, OwnApart DEF Under
        <5>3. inOutbox(e, op) => inOutbox(e', op) \/ verdict[op] = "applied"
          BY <1>8, <5>2 DEF inOutbox
        <5> QED
          BY <5>1, <5>3
      <4> QED
        BY <1>2, <3>1, <4>1, <4>2 DEF Waiting, Under
    <3> QED
      BY <3>2, <3>3
  <2>5. ASSUME NEW c \in Cmds PROVE Claimed(c)'
    <3>1. \A k \in 1..Tries : <<c, k>> \in Asks
      BY AskAt
    <3>2. Claimed(c) /\ (c \in e'.claims => c \in e.claims)
      BY <1>8, <2>2
    <3> QED
      BY <1>2, <1>6, <3>1, <3>2 DEF Claimed, Queued
  <2> QED
    BY <2>2, <2>4, <2>5
<1>15. OnTheWay'
  <2> SUFFICES ASSUME onlineOnly', NEW x \in pendingOf(e'), x.op[1] \in Cmds
               PROVE  \E b \in Asks :
                        ask'[b].pc = "sent" /\ x.op \in opsOf(e'.flight[b].batch)
    BY DEF OnTheWay
  <2>1. onlineOnly
    BY <1>2 DEF onlineOnly, mode
  <2>2. x \in pendingOf(e) /\ x.op \notin D
    BY <1>8 DEF pendingOf
  <2>3. PICK b \in Asks : ask[b].pc = "sent" /\ x.op \in opsOf(e.flight[b].batch)
    BY <2>1, <2>2 DEF Inv, WritesOK, OnTheWay
  <2>4. b # a
    BY <2>2, <2>3
  <2> QED
    BY <1>5, <1>8, <2>3, <2>4, Names
<1>16. LineOK'
  <2>1. \A b \in Asks : Under(b)' <=> Under(b)
    BY <1>1, <1>5 DEF Under
  <2> QED
    BY <1>2, <1>8, <2>1 DEF Inv, LineOK, JobsOK, WriteFirst, jobIs, onlineOnly, mode
<1>17. TriggerCovered'
  BY <1>2, <1>8 DEF Inv, TriggerCovered
<1>18. strays' = {}
  BY <1>2 DEF Inv
<1> QED
  BY <1>1, <1>9, <1>10, <1>11, <1>12, <1>13, <1>14, <1>15, <1>16, <1>17, <1>18
  DEF Inv, WritesOK

----------------------------------------------------------------------------
(* The end of a write.                                                     *)

\* What is left of the store at the end of a write: the claims but for the one
\* of a write refused whole, the entries but for failed ones of its own and the
\* other writes' requests; without an outbox nothing is left that would be sent
\* later and is not on its way.
Freed(a) == ask[a].pc = "settled" /\ ask[a].own # {} /\ ask[a].got \subseteq Refusals
LeftBy(a, s) ==
  /\ s.claims = e.claims \/ (Freed(a) /\ s.claims = e.claims \ {a[1]})
  /\ s.owner = e.owner /\ s.owed \subseteq e.owed
  /\ s.session # "restoring"
  /\ \A b \in Asks : s.flight[b] = e.flight[b]
  /\ s.flight[SyncRun].at = "served" => s.flight[SyncRun] = e.flight[SyncRun]
  /\ s.flight[SyncRun].batch \subseteq e.flight[SyncRun].batch \cup s.outbox
  /\ \A x \in s.outbox : x.op = <<Tidy, 0>> \/ inOutbox(e, x.op)
  /\ \A x \in s.outbox : x \in e.outbox \/ (~x.failed /\ x.op = <<Tidy, 0>>)
  /\ ~onlineOnly => \A x \in e.outbox :
       inOutbox(s, x.op) \/ (ask[a].pc = "settled" /\ x.op \in ask[a].own)
  /\ onlineOnly => ask[a].pc = "settled" \/ \A x \in s.outbox : x.failed

\* With an outbox the answer says what became of the write.
Answered(a, s, result) ==
  /\ result \in {"ok", "refused", "unjudged", "declined"}
  /\ result = "ok" => \A op \in ask[a].own : verdict[op] = "applied" \/ inOutbox(s, op)
  /\ result = "unjudged" => s.claims = e.claims \ {a[1]}

LEMMA EndedStore ==
  ASSUME Inv, NEW a \in Asks, NEW s, NEW result, ended(a, s, result),
         Sound(s), Ran(s), LeftBy(a, s)
  PROVE  /\ Sound(e') /\ Ran(e') /\ Hidden(e') /\ e'.session # "restoring"
         /\ e'.claims = s.claims /\ e'.owner = e.owner /\ e'.owed \subseteq e.owed
         /\ e'.flight[a] = NoFlight
         /\ \A b \in Asks \ {a} : e'.flight[b] = e.flight[b]
         /\ e'.flight[SyncRun] = s.flight[SyncRun]
         /\ e'.outbox = s.outbox
<1> DEFINE c == [s EXCEPT !.flight[a] = NoFlight]
           p == publishAll(c)
<1>1. e' = p
  BY DEF ended
<1>2. a \in Flushers /\ a # SyncRun
  BY AskOf
<1>3. s \in Store
  BY DEF Sound
<1>4. /\ c \in Store
      /\ c.flight[a] = NoFlight
      /\ \A g \in Flushers \ {a} : c.flight[g] = s.flight[g]
      /\ c.session = s.session /\ c.held = s.held /\ c.owner = s.owner
      /\ c.rows = s.rows /\ c.outbox = s.outbox /\ c.claims = s.claims
      /\ c.running = s.running /\ c.again = s.again
      /\ c.shown = s.shown /\ c.owed = s.owed
  BY <1>2, <1>3, NoFlightIs, OtherFlight
<1> HIDE DEF c
<1>5. Sound(c) /\ Ran(c)
  <2>1. Owned(c) /\ Quiet(c)
    BY <1>4, NoFlightIs DEF LeftBy, Sound, Owned, Quiet, open
  <2>2. Carried(c)
    BY <1>4, NoFlightIs, Names DEF Sound, Carried, None
  <2> QED
    BY <1>4, <2>1, <2>2 DEF Sound, Ran
<1>6. /\ Sound(p) /\ Hidden(p) /\ Turned(c, p) /\ Ran(p)
      /\ p.flight = c.flight /\ p.outbox = c.outbox /\ p.owed = c.owed
  BY <1>5, PublishedSound
<1> HIDE DEF p
<1>7. SyncRun \in Flushers /\ Asks \subseteq Flushers
  BY Names
<1> QED
  BY <1>1, <1>2, <1>4, <1>6, <1>7 DEF LeftBy, Turned, Steady

LEMMA EndedKeeps ==
  ASSUME Inv, NEW a \in Asks, NEW s, NEW result \in Replies \ {None}, ended(a, s, result),
         Under(a), Sound(s), Ran(s), LeftBy(a, s), ~onlineOnly => Answered(a, s, result)
  PROVE  Inv'
<1>1. /\ Sound(e') /\ Ran(e') /\ Hidden(e') /\ e'.session # "restoring"
      /\ e'.claims = s.claims /\ e'.owner = e.owner /\ e'.owed \subseteq e.owed
      /\ e'.flight[a] = NoFlight
      /\ \A b \in Asks \ {a} : e'.flight[b] = e.flight[b]
      /\ e'.flight[SyncRun] = s.flight[SyncRun]
      /\ e'.outbox = s.outbox
  BY EndedStore
<1>2. /\ ask' = [ask EXCEPT ![a].pc = "done", ![a].got = {}, ![a].heard = FALSE]
      /\ reply' = [reply EXCEPT ![a] = result]
      /\ chain' = IF onlineOnly THEN Tail(chain) ELSE chain
      /\ UNCHANGED <<world, gaveUp, trig, verdict, strays, doubtful, logins, bad>>
  BY DEF ended
<1>3. /\ ask' \in [Asks -> Asking] /\ ask'[a].pc = "done" /\ ask'[a].own = ask[a].own
      /\ \A b \in Asks \ {a} : ask'[b] = ask[b]
  <2> DEFINE x == [ask[a] EXCEPT !.pc = "done", !.got = {}, !.heard = FALSE]
  <2>1. ask \in [Asks -> Asking] /\ ask' = [ask EXCEPT ![a] = x]
    BY <1>2 DEF Inv, EngineTypeOK
  <2>2. x \in Asking /\ x.pc = "done" /\ x.own = ask[a].own
    BY <2>1 DEF Asking
  <2> HIDE DEF x
  <2> QED
    BY <2>1, <2>2
<1>4. /\ reply' \in [Asks -> Replies] /\ reply'[a] = result
      /\ \A b \in Asks \ {a} : reply'[b] = reply[b]
  BY <1>2 DEF Inv, EngineTypeOK
<1>5. a \in Flushers /\ a # SyncRun /\ SyncRun \in Flushers /\ Flushers = Asks \cup {SyncRun}
  BY AskOf, Names DEF Flushers
<1>6. onlineOnly' = onlineOnly
  BY <1>2 DEF onlineOnly, mode
<1>7. AskOK(a) /\ reply[a] = None /\ e.owner # NoOne
  BY DEF Inv, WritesOK, AsksOK, AskOK, Under
<1>8. AsksOK'
  <2> SUFFICES ASSUME NEW b \in Asks PROVE AskOK(b)'
    BY DEF AsksOK
  <2>1. CASE b = a
    BY <1>1, <1>3, <1>4, <1>6, <1>7, <2>1, NoFlightIs DEF AskOK
  <2>2. CASE b # a
    <3>1. AskOK(b) /\ ask'[b] = ask[b] /\ e'.flight[b] = e.flight[b]
      BY <1>1, <1>3, <2>2 DEF Inv, WritesOK, AsksOK
    <3>2. <<Tidy, 0>> \notin ask[b].own
      BY <3>1, AskOf, EngineAssumption DEF AskOK
    <3>3. Told(b) => Told(b)'
      BY <1>1, <1>6, <3>1, <3>2 DEF Told, pendingOf, LeftBy
    <3> QED
      BY <1>1, <1>2, <1>4, <1>6, <2>2, <3>1, <3>3 DEF AskOK, Fated
  <2> QED
    BY <2>1, <2>2
<1>9. \A b \in Asks : ask'[b].own = ask[b].own
  BY <1>3
<1>10. AllMinted'
  <2>1. \A op : Minted(op)' <=> Minted(op)
    BY <1>9 DEF Minted
  <2>2. \A x \in e'.outbox : Minted(x.op)
    BY <1>1 DEF LeftBy, inOutbox, Inv, WritesOK, AllMinted, Minted
  <2>3. \A f \in Flushers : \A x \in e'.flight[f].batch : Minted(x.op)
    BY <1>1, <1>5, <2>2, NoFlightIs DEF LeftBy, Inv, WritesOK, AllMinted
  <2> QED
    BY <1>2, <2>1, <2>2, <2>3 DEF Inv, WritesOK, AllMinted
<1>11. Judged'
  <2> SUFFICES ASSUME NEW f \in Flushers, e'.flight[f].at = "served"
               PROVE  e'.flight[f] = e.flight[f]
    BY <1>2 DEF Inv, WritesOK, Judged
  <2> QED
    BY <1>1, <1>5, NoFlightIs DEF LeftBy, None
<1>18. Failing'
  BY <1>1, <1>2 DEF LeftBy, Inv, WritesOK, Failing, Fated
<1>12. OnceEach'
  <2> SUFFICES ASSUME NEW c \in Twofold PROVE AtMostOnce(c)'
    BY DEF OnceEach
  <2>1. \A k \in 1..Tries : <<c, k>> \in Asks
    BY EngineAssumption, AskAt
  <2>2. AtMostOnce(c)
    BY DEF Inv, WritesOK, OnceEach
  <2>3. \A k \in 1..Tries :
          /\ Spent(c, k)' <=> Spent(c, k)
          /\ Queued(c, k)' <=> Queued(c, k)
          /\ Under(<<c, k>>)' => Under(<<c, k>>)
    BY <1>2, <1>3, <1>9, <2>1 DEF Spent, Fated, Queued, Under
  <2>4. \A k \in 1..Tries : \/ e'.flight[<<c, k>>] = e.flight[<<c, k>>]
                            \/ e'.flight[<<c, k>>].at = None
    BY <1>1, <2>1, NoFlightIs
  <2>5. CASE c \in e.claims => c \in e'.claims
    BY <2>2, <2>3, <2>4, <2>5 DEF AtMostOnce
  <2>6. CASE ~(c \in e.claims => c \in e'.claims)
    <3> DEFINE i == a[2]
    <3>1. Freed(a) /\ c = a[1]
      BY <1>1, <2>6 DEF LeftBy
    <3>2. i \in 1..Tries /\ a = <<c, i>> /\ Queued(c, i)
      BY <3>1, AskOf DEF Freed, Queued
    <3>3. a \in ask[a].own
      BY <1>7, <3>1, AskOf DEF Freed, AskOK
    <3>4. Spent(c, i)
      BY <1>7, <3>1, <3>2, <3>3 DEF Freed, AskOK, Spent
    <3> HIDE DEF i
    <3>5. \A j \in 1..Tries : i # j /\ Queued(c, j) =>
            Spent(c, j) /\ e.flight[<<c, j>>].at = None
      BY <2>2, <3>2 DEF AtMostOnce
    <3>6. e'.flight[<<c, i>>].at = None
      BY <1>1, <3>2, NoFlightIs
    <3>7. \A k \in 1..Tries : Queued(c, k) => Spent(c, k) /\ e'.flight[<<c, k>>].at = None
      BY <2>4, <3>4, <3>5, <3>6
    <3> QED
      BY <2>2, <2>3, <2>4, <3>7 DEF AtMostOnce
  <2> QED
    BY <2>5, <2>6
<1>13. Outboxed'
  <2> SUFFICES ASSUME ~onlineOnly'
               PROVE  /\ gaveUp' = {}
                      /\ \A b \in Asks : Waiting(b)'
                      /\ \A c \in Cmds : Claimed(c)'
    BY DEF Outboxed
  <2>1. ~onlineOnly /\ Answered(a, s, result)
    BY <1>6
  <2>2. gaveUp' = {} /\ (\A b \in Asks : Waiting(b)) /\ (\A c \in Cmds : Claimed(c))
    BY <1>2, <2>1 DEF Inv, WritesOK, Outboxed
  <2>3. \A op : inOutbox(e, op) => inOutbox(e', op) \/ op \in ask[a].own
    BY <1>1, <2>1 DEF LeftBy, inOutbox
  <2>4. ASSUME NEW b \in Asks PROVE Waiting(b)'
    <3>1. Waiting(b) /\ b[1] \in Cmds /\ b = <<b[1], b[2]>>
      BY <2>2, AskOf
    <3>2. ask'[b].pc # "idle" =>
            \A j \in 1..Tries : j < b[2] => reply'[<<b[1], j>>] \in Retryable
      <4> SUFFICES ASSUME ask'[b].pc # "idle", NEW j \in 1..Tries, j < b[2]
                   PROVE  reply'[<<b[1], j>>] \in Retryable
        OBVIOUS
      <4>1. ask[b].pc # "idle"
        BY <1>3 DEF Under
      <4>2. reply[<<b[1], j>>] \in Retryable /\ <<b[1], j>> \in Asks
        BY <3>1, <4>1, AskAt DEF Waiting
      <4>3. <<b[1], j>> # a
        BY <1>7, <4>2 DEF Retryable, None
      <4> QED
        BY <1>4, <4>2, <4>3
    <3>3. CASE b = a
      <4>1. ask[a].own # {}
        BY <3>1, <3>3 DEF Waiting
      <4>2. result = "ok" => Kept(a)'
        BY <1>1, <1>2, <1>3, <2>1 DEF Kept, Answered, inOutbox
      <4> QED
        BY <1>3, <1>4, <3>2, <3>3, <4>1, <4>2 DEF Waiting, Under
    <3>4. CASE b # a
      <4>1. ask'[b] = ask[b] /\ reply'[b] = reply[b]
        BY <1>3, <1>4, <3>4
      <4>2. ask[b].pc = "sent" \/ reply[b] = "ok" => Kept(b)'
        <5> SUFFICES ASSUME ask[b].pc = "sent" \/ reply[b] = "ok", NEW op \in ask[b].own
                     PROVE  verdict[op] = "applied" \/ inOutbox(e', op)
          BY <1>2, <4>1 DEF Kept
        <5>1. verdict[op] = "applied" \/ inOutbox(e, op)
          BY <3>1 DEF Waiting, Kept
        <5>2. op \notin ask[a].own
          BY <2>1, <2>2, <3>4, OwnApart
        <5> QED
          BY <2>3, <5>1, <5>2
      <4> QED
        BY <1>2, <3>1, <3>2, <4>1, <4>2 DEF Waiting, Under
    <3> QED
      BY <3>3, <3>4
  <2>5. ASSUME NEW c \in Cmds PROVE Claimed(c)'
    <3> SUFFICES ASSUME c \in e'.claims
                 PROVE  \E k \in 1..Tries :
                          ask'[<<c, k>>].own # {} /\ reply'[<<c, k>>] \notin Retryable
      BY DEF Claimed, Queued
    <3>1. PICK k \in 1..Tries : ask[<<c, k>>].own # {} /\ reply[<<c, k>>] \notin Retryable
      BY <1>1, <2>2 DEF LeftBy, Claimed, Queued
    <3>2. <<c, k>> \in Asks
      BY AskAt
    <3>3. CASE <<c, k>> = a
      <4>1. c = a[1] /\ result # "unjudged"
        BY <1>1, <2>1, <3>3 DEF Answered
      <4>2. result \notin Retryable
        BY <2>1, <4>1 DEF Answered, Retryable
      <4> QED
        BY <1>3, <1>4, <3>1, <3>3, <4>2
    <3>4. CASE <<c, k>> # a
      BY <1>3, <1>4, <3>1, <3>2, <3>4
    <3> QED
      BY <3>3, <3>4
  <2> QED
    BY <2>2, <2>4, <2>5
<1>14. OnTheWay'
  <2> SUFFICES ASSUME onlineOnly, NEW x \in pendingOf(e'), x.op[1] \in Cmds
               PROVE  \E b \in Asks :
                        ask'[b].pc = "sent" /\ x.op \in opsOf(e'.flight[b].batch)
    BY <1>6 DEF OnTheWay
  <2>1. x \in s.outbox /\ ~x.failed /\ x.op # <<Tidy, 0>>
    BY <1>1, EngineAssumption DEF pendingOf
  <2>2. x \in pendingOf(e) /\ ask[a].pc = "settled"
    BY <2>1 DEF LeftBy, pendingOf
  <2>3. PICK b \in Asks : ask[b].pc = "sent" /\ x.op \in opsOf(e.flight[b].batch)
    BY <2>2 DEF Inv, WritesOK, OnTheWay
  <2>4. b # a
    BY <2>2, <2>3
  <2> QED
    BY <1>1, <1>3, <2>3, <2>4
<1>15. LineOK'
  <2>1. JobsOK(chain) /\ (e.session = "restoring" <=> Begins(chain))
        /\ \A b \in Asks : onlineOnly /\ Under(b) => WriteFirst(b)
    BY DEF Inv, LineOK, jobIs, Begins
  <2>2. e.session # "restoring"
    BY <1>7 DEF AskOK, Under
  <2>3. CASE onlineOnly
    <3>1. WriteFirst(a) /\ chain # << >>
      BY <2>1, <2>3 DEF WriteFirst
    <3>2. JobsOK(Tail(chain)) /\ \A i \in DOMAIN Tail(chain) : Tail(chain)[i].job # "start"
      BY <2>1, <3>1, JobsTaken
    <3>3. ~Begins(Tail(chain))
      <4>1. Tail(chain) # << >> => 1 \in DOMAIN Tail(chain)
        BY <3>2 DEF JobsOK
      <4> QED
        BY <3>2, <4>1 DEF Begins
    <3>4. \A b \in Asks : ~Under(b)'
      BY <1>3, <2>1, <2>3, <3>1 DEF Under, WriteFirst
    <3> QED
      BY <1>1, <1>2, <1>6, <2>3, <3>2, <3>3, <3>4 DEF LineOK, JobsOK, jobIs, Begins
  <2>4. CASE ~onlineOnly
    BY <1>1, <1>2, <1>6, <2>1, <2>2, <2>4 DEF LineOK, JobsOK, jobIs, Begins
  <2> QED
    BY <2>3, <2>4
<1>16. EngineTypeOK'
  BY <1>1, <1>2, <1>3, <1>4, <1>15 DEF Inv, EngineTypeOK, Sound, LineOK, JobsOK
<1>17. TriggerCovered' /\ strays' = {}
  BY <1>1, <1>2 DEF Inv, TriggerCovered
<1> QED
  BY <1>18, <1>1, <1>8, <1>10, <1>11, <1>12, <1>13, <1>14, <1>15, <1>16, <1>17 DEF Inv, WritesOK

LEMMA LeftTurned ==
  ASSUME NEW a \in Asks, NEW q, NEW s, Turned(q, s), q.session # "restoring",
         q.claims = e.claims \/ (Freed(a) /\ q.claims = e.claims \ {a[1]}),
         q.owner = e.owner, q.flight = e.flight, q.outbox \subseteq e.outbox,
         \A x \in e.outbox : x \in q.outbox \/ (ask[a].pc = "settled" /\ x.op \in ask[a].own),
         q.owed = e.owed, onlineOnly => ask[a].pc = "settled"
  PROVE  LeftBy(a, s)
BY DEF LeftBy, Turned, Steady, inOutbox

LEMMA ClearedSound ==
  ASSUME NEW s, Sound(s), NEW a \in Asks
  PROVE  LET r == cleared(s, a)
         IN  /\ Sound(r) /\ Alike(s, r)
             /\ r.outbox = {x \in s.outbox : ~(x.failed /\ x.op \in ask[a].own)}
             /\ r.claims = IF ask[a].own # {} /\ ask[a].got \subseteq Refusals
                           THEN s.claims \ {a[1]} ELSE s.claims
<1> DEFINE r == cleared(s, a)
<1>1. /\ r \in Store /\ Alike(s, r) /\ r.rows = s.rows
      /\ r.outbox = {x \in s.outbox : ~(x.failed /\ x.op \in ask[a].own)}
      /\ r.claims = IF ask[a].own # {} /\ ask[a].got \subseteq Refusals
                    THEN s.claims \ {a[1]} ELSE s.claims
  BY DEF cleared, Sound, Store, Alike, Refusals
<1> HIDE DEF r
<1>2. Sound(r)
  BY <1>1, AlikeSound DEF Sound, Owned
<1> QED
  BY <1>1, <1>2 DEF r

LEMMA FinishKeeps ==
  ASSUME Inv, NEW a \in Asks, Finish(a)
  PROVE  Inv'
<1> DEFINE got == ask[a].got
           refused == got \cap Refusals
           result == IF refused = {} THEN "ok"
                     ELSE IF got = {"unrecorded"} THEN "unjudged" ELSE "refused"
           q == cleared(e, a)
           s == afterReached(q)
<1>1. ask[a].pc = "settled" /\ ended(a, s, result)
  BY DEF Finish, Refusals
<1>2. e.session # "restoring" /\ Under(a)
  BY <1>1 DEF Inv, WritesOK, AsksOK, AskOK, Under
<1>3. /\ Sound(q) /\ Alike(e, q)
      /\ q.outbox = {x \in e.outbox : ~(x.failed /\ x.op \in ask[a].own)}
      /\ q.claims = IF ask[a].own # {} /\ got \subseteq Refusals
                    THEN e.claims \ {a[1]} ELSE e.claims
  BY ClearedSound DEF Inv
<1> HIDE DEF q
<1>4. Ran(q) /\ q.session # "restoring"
  BY <1>2, <1>3, AlikeKeeps DEF Inv, Alike
<1>5. Sound(s) /\ Turned(q, s) /\ Ran(s)
  BY <1>3, <1>4, TidiedSound
<1> HIDE DEF s
<1>6. LeftBy(a, s)
  BY <1>1, <1>3, <1>4, <1>5, LeftTurned DEF Freed, Alike
<1>7. ~onlineOnly => Answered(a, s, result)
  <2> SUFFICES ASSUME ~onlineOnly PROVE Answered(a, s, result)
    OBVIOUS
  <2>1. /\ ask[a].own # {}
        /\ refused = {} => \A op \in ask[a].own : verdict[op] = "applied"
    BY <1>1, <1>2 DEF Inv, WritesOK, Outboxed, Waiting
  <2>2. result = "unjudged" => s.claims = e.claims \ {a[1]}
    BY <1>3, <1>5, <2>1 DEF Turned, Steady, Refusals
  <2> QED
    BY <2>1, <2>2 DEF Answered
<1>8. result \in Replies \ {None}
  BY DEF Replies, Retryable, None
<1> HIDE DEF result
<1> QED
  BY <1>1, <1>2, <1>5, <1>6, <1>7, <1>8, EndedKeeps

LEMMA UnreachedKeeps ==
  ASSUME Inv, NEW a \in Asks, Unreached(a)
  PROVE  Inv'
<1>1. e.flight[a].at # None
  BY DEF Unreached
<1>2. ask[a].pc = "sent" /\ Under(a) /\ e.session # "restoring"
  BY <1>1 DEF Inv, WritesOK, AsksOK, AskOK, Under
<1>3. CASE onlineOnly
  <2> DEFINE s == untaken(e, a)
  <2>1. ended(a, s, "unexpected")
    BY <1>3 DEF Unreached
  <2>2. Sound(s) /\ Alike(e, s) /\ s.claims = e.claims /\ s.outbox = {x \in e.outbox : x.failed}
    BY UntakenSound DEF Inv
  <2> HIDE DEF s
  <2>3. LeftBy(a, s) /\ Ran(s)
    BY <1>2, <1>3, <2>2 DEF LeftBy, Alike, inOutbox, Ran, Inv
  <2>4. "unexpected" \in Replies \ {None}
    BY DEF Replies, Retryable, None
  <2> QED
    BY <1>2, <1>3, <2>1, <2>2, <2>3, <2>4, EndedKeeps
<1>4. CASE ~onlineOnly
  <2>1. ended(a, e, "ok")
    BY <1>4 DEF Unreached
  <2>2. LeftBy(a, e) /\ Sound(e) /\ Ran(e)
    BY <1>2, <1>4, TurnedNot, LeftTurned DEF Inv
  <2>3. Answered(a, e, "ok")
    BY <1>2, <1>4 DEF Answered, Inv, WritesOK, Outboxed, Waiting, Kept
  <2>4. "ok" \in Replies \ {None}
    BY DEF Replies, Retryable, None
  <2> QED
    BY <1>2, <1>4, <2>1, <2>2, <2>3, <2>4, EndedKeeps
<1> QED
  BY <1>3, <1>4

LEMMA RefusedKeeps ==
  ASSUME Inv, NEW a \in Asks, Refused(a)
  PROVE  Inv'
<1> DEFINE waits == \E op \in ask[a].own : isPending(e, op)
           q(over) == IF over THEN endedSession(e, e.flight[a].by) ELSE e
           r(over) == IF ask[a].heard THEN afterReached(q(over)) ELSE q(over)
<1>1. PICK over \in BOOLEAN :
        /\ e.flight[a].at = "sent" /\ ~onlineOnly
        /\ IF waits THEN ended(a, signedOutIfEnded(r(over)), "ok")
           ELSE ended(a, r(over), "declined")
  BY DEF Refused
<1>2. ask[a].pc = "sent" /\ Under(a) /\ e.session # "restoring"
  BY <1>1 DEF Inv, WritesOK, AsksOK, AskOK, Under, None
<1>3. /\ Sound(q(over)) /\ q(over).session = e.session /\ q(over).owner = e.owner
      /\ q(over).flight = e.flight /\ q(over).running = e.running
      /\ q(over).again = e.again /\ q(over).owed = e.owed
      /\ q(over).outbox = e.outbox /\ q(over).claims = e.claims
  BY <1>2, HeldSound DEF Inv
<1>4. Ran(q(over))
  BY <1>3 DEF Inv, Ran
<1> HIDE DEF q
<1>5. Sound(r(over)) /\ Turned(q(over), r(over)) /\ Ran(r(over))
  BY <1>2, <1>3, <1>4, TidiedSound, TurnedNot
<1>6. \A op \in ask[a].own : verdict[op] = "applied" \/ inOutbox(e, op)
  BY <1>1, <1>2 DEF Inv, WritesOK, Outboxed, Waiting, Kept
<1>7. {"ok", "declined"} \subseteq Replies \ {None}
  BY DEF Replies, Retryable, None
<1> HIDE DEF r
<1>8. LeftBy(a, r(over)) /\ r(over).session # "restoring"
  BY <1>1, <1>2, <1>3, <1>5, LeftTurned DEF LeftBy
<1>9. CASE waits
  <2> DEFINE s == signedOutIfEnded(r(over))
  <2>1. ended(a, s, "ok")
    BY <1>1, <1>9
  <2>2. /\ Sound(s) /\ s.session # "restoring" /\ s.owner = r(over).owner
        /\ s.flight = r(over).flight /\ s.running = r(over).running
        /\ s.again = r(over).again /\ s.owed = r(over).owed
        /\ s.outbox = r(over).outbox /\ s.claims = r(over).claims
    BY <1>5, <1>8, SignedOutSound
  <2> HIDE DEF s
  <2>3. LeftBy(a, s) /\ Ran(s)
    BY <1>5, <1>8, <2>2 DEF LeftBy, inOutbox, Ran
  <2>4. Answered(a, s, "ok")
    BY <1>1, <1>2, <1>6, <2>3 DEF Answered, LeftBy, inOutbox
  <2> QED
    BY <1>2, <1>7, <2>1, <2>2, <2>3, <2>4, EndedKeeps
<1>10. CASE ~waits
  <2>1. ended(a, r(over), "declined") /\ Answered(a, r(over), "declined")
    BY <1>1, <1>10 DEF Answered
  <2> QED
    BY <1>2, <1>5, <1>7, <1>8, <2>1, EndedKeeps
<1> QED
  BY <1>9, <1>10

----------------------------------------------------------------------------
(* The beginning of a write.                                               *)

\* The attempts before it came to nothing.
Ready(a) == ~onlineOnly => \A j \in 1..Tries : j < a[2] => reply[<<a[1], j>>] \in Retryable

\* The engine takes a write in, or answers that it cannot: nothing is queued.
LEMMA MovedKeeps ==
  ASSUME Inv, NEW a \in Asks, NEW pc \in {"waiting", "queued", "done"},
         NEW answer \in {"signed-out", "invalid"},
         ask[a].pc \in {"idle", "waiting", "queued"}, Ready(a),
         ask' = [ask EXCEPT ![a].pc = pc],
         reply' = IF pc = "done" THEN [reply EXCEPT ![a] = answer] ELSE reply,
         pc = "queued" => onlineOnly /\ e.owner # NoOne /\ e.session # "restoring",
         Sound(e'), Ran(e'), Hidden(e'), Calm(e'), e'.owed \subseteq e.owed,
         e'.session = e.session,
         JobsOK(chain'), e.session = "restoring" <=> Begins(chain'),
         \A b \in Asks : onlineOnly /\ Under(b) => WriteFirst(b)',
         UNCHANGED <<world, gaveUp, trig, verdict, strays, doubtful, logins, bad>>
  PROVE  Inv'
<1>1. /\ ask' \in [Asks -> Asking] /\ ask'[a].pc = pc /\ ask'[a].own = ask[a].own
      /\ \A b \in Asks \ {a} : ask'[b] = ask[b]
  <2> DEFINE x == [ask[a] EXCEPT !.pc = pc]
  <2>1. ask \in [Asks -> Asking] /\ ask' = [ask EXCEPT ![a] = x]
    BY DEF Inv, EngineTypeOK
  <2>2. x \in Asking /\ x.pc = pc /\ x.own = ask[a].own
    BY <2>1 DEF Asking
  <2> HIDE DEF x
  <2> QED
    BY <2>1, <2>2
<1>2. /\ reply' \in [Asks -> Replies] /\ \A b \in Asks \ {a} : reply'[b] = reply[b]
      /\ pc = "done" => reply'[a] = answer
      /\ pc # "done" => reply'[a] = reply[a]
  BY DEF Inv, EngineTypeOK, Replies, Retryable
<1>3. onlineOnly' = onlineOnly
  BY DEF onlineOnly, mode
<1>4. AskOK(a) /\ reply[a] = None /\ ask[a].own = {} /\ e.flight[a].at = None /\ ~Under(a)
  BY DEF Inv, WritesOK, AsksOK, AskOK, Under
<1>5. /\ e'.claims = e.claims /\ \A b \in Asks : e'.flight[b] = e.flight[b]
      /\ e'.flight[SyncRun].at = "served" => e'.flight[SyncRun] = e.flight[SyncRun]
      /\ e'.flight[SyncRun].batch \subseteq e.flight[SyncRun].batch \cup e'.outbox
      /\ e.owner # NoOne => e'.owner # NoOne
      /\ OutboxCalm(e')
  BY DEF Calm
<1>6. \A b \in Asks : ask'[b].own = ask[b].own
  BY <1>1
<1>7. AsksOK'
  <2> SUFFICES ASSUME NEW b \in Asks PROVE AskOK(b)'
    BY DEF AsksOK
  <2>1. CASE b = a
    BY <1>1, <1>2, <1>3, <1>4, <1>5, <2>1 DEF AskOK, None
  <2>2. CASE b # a
    <3>1. AskOK(b) /\ ask'[b] = ask[b] /\ e'.flight[b] = e.flight[b]
      BY <1>1, <1>5, <2>2 DEF Inv, WritesOK, AsksOK
    <3>2. <<Tidy, 0>> \notin ask[b].own
      BY <3>1, AskOf, EngineAssumption DEF AskOK
    <3>3. Told(b) => Told(b)'
      BY <1>3, <1>5, <3>1, <3>2 DEF Told, pendingOf, OutboxCalm
    <3> QED
      BY <1>2, <1>3, <1>5, <2>2, <3>1, <3>3 DEF AskOK, Fated
  <2> QED
    BY <2>1, <2>2
<1>8. AllMinted'
  <2>1. \A op : Minted(op)' <=> Minted(op)
    BY <1>6 DEF Minted
  <2>2. \A x \in e'.outbox : Minted(x.op)
    BY <1>5 DEF OutboxCalm, inOutbox, Inv, WritesOK, AllMinted, Minted
  <2>3. \A f \in Flushers : \A x \in e'.flight[f].batch : Minted(x.op)
    BY <1>5, <2>2 DEF Flushers, Inv, WritesOK, AllMinted
  <2> QED
    BY <2>1, <2>2, <2>3 DEF Inv, WritesOK, AllMinted
<1>9. Judged' /\ Failing'
  BY <1>5 DEF Inv, WritesOK, Judged, Failing, Fated, OutboxCalm, Flushers
<1>10. OnceEach'
  <2> SUFFICES ASSUME NEW c \in Twofold PROVE AtMostOnce(c)'
    BY DEF OnceEach
  <2>1. \A k \in 1..Tries : <<c, k>> \in Asks
    BY EngineAssumption, AskAt
  <2>2. AtMostOnce(c)
    BY DEF Inv, WritesOK, OnceEach
  <2>3. \A k \in 1..Tries :
          /\ Spent(c, k)' <=> Spent(c, k)
          /\ Queued(c, k)' <=> Queued(c, k)
          /\ Under(<<c, k>>)' => Under(<<c, k>>)
    BY <1>1, <1>6, <2>1 DEF Spent, Fated, Queued, Under
  <2> QED
    BY <1>5, <2>1, <2>2, <2>3 DEF AtMostOnce
<1>11. Outboxed'
  <2> SUFFICES ASSUME ~onlineOnly
               PROVE  /\ gaveUp' = {}
                      /\ \A b \in Asks : Waiting(b)'
                      /\ \A c \in Cmds : Claimed(c)'
    BY <1>3 DEF Outboxed
  <2>1. gaveUp' = {} /\ (\A b \in Asks : Waiting(b)) /\ (\A c \in Cmds : Claimed(c))
    BY DEF Inv, WritesOK, Outboxed
  <2>2. \A b \in Asks : reply[b] \in Retryable => reply'[b] = reply[b]
    BY <1>2, <1>4 DEF Retryable, None
  <2>3. ASSUME NEW b \in Asks PROVE Waiting(b)'
    <3>1. \A j \in 1..Tries : <<b[1], j>> \in Asks
      BY AskOf, AskAt
    <3>2. CASE b = a
      <4>1. \A j \in 1..Tries : j < a[2] => reply'[<<a[1], j>>] \in Retryable
        BY <2>2, <3>1, <3>2 DEF Ready
      <4>2. reply'[a] # "ok"
        BY <1>2, <1>4 DEF None
      <4> QED
        BY <1>1, <3>2, <4>1, <4>2 DEF Waiting, Under
    <3>3. CASE b # a
      <4>1. Kept(b) => Kept(b)'
        BY <1>5, <1>6 DEF Kept, OutboxCalm, inOutbox
      <4>2. ask'[b] = ask[b] /\ reply'[b] = reply[b] /\ Waiting(b)
        BY <1>1, <1>2, <2>1, <3>3
      <4> QED
        BY <2>2, <3>1, <4>1, <4>2 DEF Waiting, Under
    <3> QED
      BY <3>2, <3>3
  <2>4. ASSUME NEW c \in Cmds PROVE Claimed(c)'
    <3>1. \A k \in 1..Tries : <<c, k>> \in Asks /\ (Queued(c, k) => <<c, k>> # a)
      BY <1>4, AskAt DEF Queued
    <3>2. Claimed(c)
      BY <2>1
    <3> QED
      BY <1>1, <1>2, <1>5, <3>1, <3>2 DEF Claimed, Queued
  <2> QED
    BY <2>1, <2>3, <2>4
<1>12. OnTheWay'
  <2> SUFFICES ASSUME onlineOnly, NEW x \in pendingOf(e'), x.op[1] \in Cmds
               PROVE  \E b \in Asks :
                        ask'[b].pc = "sent" /\ x.op \in opsOf(e'.flight[b].batch)
    BY <1>3 DEF OnTheWay
  <2>1. x.op # <<Tidy, 0>>
    BY EngineAssumption
  <2>2. x \in pendingOf(e)
    BY <1>5, <2>1 DEF pendingOf, OutboxCalm
  <2>3. PICK b \in Asks : ask[b].pc = "sent" /\ x.op \in opsOf(e.flight[b].batch)
    BY <2>2 DEF Inv, WritesOK, OnTheWay
  <2>4. b # a
    BY <1>4, <2>3 DEF Under
  <2> QED
    BY <1>1, <1>5, <2>3, <2>4
<1>13. LineOK'
  <2>1. \A b \in Asks : Under(b)' => Under(b)
    BY <1>1 DEF Under
  <2> QED
    BY <1>3, <2>1 DEF LineOK, JobsOK, jobIs, Begins
<1>14. EngineTypeOK'
  BY <1>1, <1>2, <1>13 DEF Inv, EngineTypeOK, Sound, LineOK, JobsOK
<1>15. TriggerCovered' /\ strays' = {}
  BY DEF Inv, TriggerCovered
<1> QED
  BY <1>7, <1>8, <1>9, <1>10, <1>11, <1>12, <1>13, <1>14, <1>15 DEF Inv, WritesOK

\* What a write begins with: its operations, unless its command is claimed.
fresh(a) == a[1] \notin e.claims
minted(a) == IF fresh(a) THEN mintOps(a[1], a[2]) ELSE {}

\* They are in the outbox and the request carries all that is pending there;
\* or another process settled everything first.
BegunBy(a) ==
  /\ Sound(e') /\ Ran(e') /\ Hidden(e')
  /\ e'.session = e.session /\ e'.owner = e.owner /\ e'.owed = e.owed
  /\ e'.claims = e.claims \cup {a[1]}
  /\ e'.flight[a].at = "sent" /\ e'.flight[a].batch = pendingOf(e')
  /\ \A g \in Flushers \ {a} : e'.flight[g] = e.flight[g]
  /\ minted(a) \subseteq opsOf(pendingOf(e')) \/ (~onlineOnly /\ pendingOf(e') = {})
  /\ \A x \in e'.outbox : inOutbox(e, x.op) \/ x.op \in minted(a)
  /\ \A x \in e'.outbox : IF x.failed THEN x \in e.outbox \/ Fated(x.op)'
                                      ELSE x \in e.outbox \/ x.op \in minted(a)
  /\ \A op : inOutbox(e, op) \/ op \in minted(a) =>
       inOutbox(e', op) \/ verdict'[op] = "applied"

\* What the server has recorded stays, and is of what is in the outbox.
Onward(a) ==
  /\ bad' \in Nat /\ doubtful \subseteq doubtful' /\ doubtful' \subseteq Ops
  /\ strays' = {} /\ verdict' \in [Ops -> Verdict]
  /\ \A op \in Ops : verdict[op] # None => verdict'[op] = verdict[op]
  /\ \A op \in Ops : verdict'[op] # None =>
       verdict[op] # None \/ inOutbox(e, op) \/ op \in minted(a)
  /\ \A op \in Ops : Fated(op) => Fated(op)'

\* The store of a write that queues its operations.
Queueing(a) == [enqueued(e, minted(a)) EXCEPT !.claims = @ \cup {a[1]}]

LEMMA QueueingIs ==
  ASSUME Inv, NEW a \in Asks, e.owner # NoOne, e.session # "restoring"
  PROVE  LET q == Queueing(a)
         IN  /\ Sound(q) /\ Ran(q) /\ q.claims = e.claims \cup {a[1]}
             /\ q.session = e.session /\ q.held = e.held /\ q.owner = e.owner
             /\ q.rows = e.rows /\ q.flight = e.flight /\ q.running = e.running
             /\ q.again = e.again /\ q.owed = e.owed
             /\ e.outbox \subseteq q.outbox
             /\ \A x \in q.outbox : x \in e.outbox \/ (~x.failed /\ x.op \in minted(a))
             /\ \A op \in minted(a) : \E x \in q.outbox : x.op = op /\ ~x.failed
<1> DEFINE new == {[op |-> op, by |-> e.owner, failed |-> FALSE] : op \in minted(a)}
           q == Queueing(a)
<1>2. a \in Flushers /\ a[1] \in Cmds /\ minted(a) \subseteq Ops
  BY AskOf DEF minted
<1>3. Sound(e) /\ Ran(e) /\ e \in Store /\ e.owner \in Accounts
  BY DEF Inv, Sound, Store
<1>4. /\ new \subseteq Entry
      /\ \A x \in new : x.op \in minted(a) /\ x.by = e.owner /\ ~x.failed
      /\ \A op \in minted(a) : \E x \in new : x.op = op /\ ~x.failed
  <2> DEFINE entry(op) == [op |-> op, by |-> e.owner, failed |-> FALSE]
  <2>1. \A op \in Ops : /\ entry(op) \in Entry /\ entry(op).op = op
                        /\ entry(op).by = e.owner /\ ~entry(op).failed
    BY <1>3 DEF Entry
  <2>2. new = {entry(op) : op \in minted(a)}
    OBVIOUS
  <2> HIDE DEF entry, new
  <2> QED
    BY <1>2, <2>1, <2>2
<1>5. q = [[e EXCEPT !.outbox = @ \cup new] EXCEPT !.claims = @ \cup {a[1]}]
  BY DEF enqueued, Queueing
<1> HIDE DEF new, q
<1>6. /\ q \in Store /\ q.outbox = e.outbox \cup new /\ q.claims = e.claims \cup {a[1]}
      /\ q.session = e.session /\ q.held = e.held /\ q.owner = e.owner
      /\ q.rows = e.rows /\ q.flight = e.flight /\ q.running = e.running
      /\ q.again = e.again /\ q.owed = e.owed /\ q.shown = e.shown
  BY <1>2, <1>3, <1>4, <1>5 DEF Store
<1>7. Sound(q) /\ Ran(q)
  BY <1>3, <1>4, <1>6 DEF Sound, Owned, Carried, Quiet, Ran, open
<1> QED
  BY <1>4, <1>6, <1>7 DEF q

LEMMA BegunAlone ==
  ASSUME Inv, NEW a \in Asks, e.owner # NoOne, e.session # "restoring",
         e' = beginFlush(Queueing(a), a), UNCHANGED judged
  PROVE  BegunBy(a) /\ Onward(a)
<1> DEFINE q == Queueing(a)
<1>1. /\ Sound(q) /\ Ran(q) /\ q.claims = e.claims \cup {a[1]}
      /\ q.session = e.session /\ q.held = e.held /\ q.owner = e.owner
      /\ q.rows = e.rows /\ q.flight = e.flight /\ q.running = e.running
      /\ q.again = e.again /\ q.owed = e.owed
      /\ e.outbox \subseteq q.outbox
      /\ \A x \in q.outbox : x \in e.outbox \/ (~x.failed /\ x.op \in minted(a))
      /\ \A op \in minted(a) : \E x \in q.outbox : x.op = op /\ ~x.failed
  BY QueueingIs
<1>2. a \in Flushers
  BY AskOf
<1> HIDE DEF q
<1>3. LET r == beginFlush(q, a)
      IN /\ Sound(r) /\ Hidden(r) /\ (Ran(q) => Ran(r))
         /\ r.flight[a].at = "sent" /\ r.flight[a].batch = pendingOf(q)
         /\ \A g \in Flushers \ {a} : r.flight[g] = q.flight[g]
         /\ r.session = q.session /\ r.held = q.held /\ r.owner = q.owner
         /\ r.rows = q.rows /\ r.claims = q.claims /\ r.outbox = q.outbox
         /\ r.owed = q.owed /\ r.running = q.running /\ r.again = q.again
  BY <1>1, <1>2, FlushSound
<1>4. /\ Sound(e') /\ Hidden(e') /\ Ran(e')
      /\ e'.flight[a].at = "sent" /\ e'.flight[a].batch = pendingOf(q)
      /\ \A g \in Flushers \ {a} : e'.flight[g] = e.flight[g]
      /\ e'.session = e.session /\ e'.owner = e.owner /\ e'.owed = e.owed
      /\ e'.claims = e.claims \cup {a[1]} /\ e'.outbox = q.outbox
  BY <1>1, <1>3 DEF q
<1>5. pendingOf(e') = pendingOf(q)
  BY <1>4 DEF pendingOf
<1>6. minted(a) \subseteq opsOf(pendingOf(e'))
  BY <1>1, <1>5 DEF opsOf, pendingOf
<1>7. /\ \A x \in e'.outbox : inOutbox(e, x.op) \/ x.op \in minted(a)
      /\ \A x \in e'.outbox : IF x.failed THEN x \in e.outbox
                                          ELSE x \in e.outbox \/ x.op \in minted(a)
      /\ \A op : inOutbox(e, op) \/ op \in minted(a) => inOutbox(e', op)
  BY <1>1, <1>4 DEF inOutbox
<1>8. BegunBy(a)
  BY <1>4, <1>5, <1>6, <1>7 DEF BegunBy
<1>9. Onward(a)
  BY DEF Onward, judged, Inv, EngineTypeOK, Verdict, Fated
<1> QED
  BY <1>8, <1>9

LEMMA BegunAfterOther ==
  ASSUME Inv, NEW a \in Asks, e.owner # NoOne, e.session # "restoring",
         mode = "terminal", bearer(Queueing(a)) \in Accounts,
         NEW v \in Verdicts(opsOf(pendingOf(Queueing(a)))),
         recorded(pendingOf(Queueing(a)), bearer(Queueing(a)), v),
         e' = beginFlush(exchanged(Queueing(a), v), a)
  PROVE  BegunBy(a) /\ Onward(a)
<1> DEFINE q == Queueing(a)
           batch == pendingOf(q)
           D == opsOf(batch)
           none == {}
           s1 == settle(q, v, none)
           s2 == [s1 EXCEPT !.rows = @ \cup {s1.owner}, !.cursor = 1]
<1>1. /\ Sound(q) /\ Ran(q) /\ q.claims = e.claims \cup {a[1]}
      /\ q.session = e.session /\ q.held = e.held /\ q.owner = e.owner
      /\ q.rows = e.rows /\ q.flight = e.flight /\ q.running = e.running
      /\ q.again = e.again /\ q.owed = e.owed
      /\ e.outbox \subseteq q.outbox
      /\ \A x \in q.outbox : x \in e.outbox \/ (~x.failed /\ x.op \in minted(a))
      /\ \A op \in minted(a) : \E x \in q.outbox : x.op = op /\ ~x.failed
  BY QueueingIs
<1>2. /\ bearer(q) \in Accounts /\ v \in Verdicts(D)
      /\ recorded(batch, bearer(q), v) /\ e' = beginFlush(exchanged(q, v), a)
  OBVIOUS
<1>3. a \in Flushers /\ e.owner \in Accounts
  BY AskOf DEF Inv, Sound, Store
<1>4. \A x : x \notin none
  OBVIOUS
<1>5. exchanged(q, v) = [s1 EXCEPT !.rows = @ \cup {q.owner}, !.cursor = 1]
  BY DEF exchanged
<1> HIDE DEF q, none
<1>6. batch \in SUBSET Entry
  BY <1>1 DEF pendingOf, Sound, Store
<1>7. \A y \in batch : y.by = bearer(q)
  BY <1>1, <1>2, Names DEF bearer, Sound, Owned, pendingOf
<1>8. D = opsOf(batch) /\ batch = pendingOf(q)
  OBVIOUS
<1> HIDE DEF D, batch
<1>9. RecordedAs(batch, v)
  BY <1>2, <1>6, <1>7, <1>8, RecordedIs DEF Inv
<1>10. /\ D \subseteq Ops /\ v \in [D -> Answers]
       /\ \A op \in D : IF v[op] \in Refusals THEN Fated(op)'
                        ELSE verdict'[op] = "applied"
  BY <1>8, <1>9 DEF RecordedAs
<1>11. /\ Sound(s1) /\ Alike(q, s1) /\ s1.claims = q.claims
       /\ \A x \in s1.outbox : \E y \in q.outbox :
            y.op = x.op /\ (~x.failed => x = y /\ x.op \notin D)
       /\ \A x \in s1.outbox :
            x \in q.outbox \/ (x.failed /\ x.op \in D /\ v[x.op] \in Refusals)
       /\ \A y \in q.outbox :
            y.op \notin D \/ (v[y.op] \in Refusals /\ y.op \notin none) =>
              \E x \in s1.outbox : x.op = y.op
  BY <1>1, <1>10, SettledOutbox
<1> HIDE DEF s1
<1>12. s1.owner = e.owner /\ exchanged(q, v) = s2
  BY <1>1, <1>5, <1>11 DEF Alike
<1>13. /\ s2 \in Store /\ Alike(s1, s2) /\ s2.claims = s1.claims /\ s2.outbox = s1.outbox
  BY <1>3, <1>11, <1>12 DEF Sound, Store, Alike
<1> HIDE DEF s2
<1>14. Sound(s2) /\ Ran(s2)
  <2>1. Sound(s2)
    BY <1>3, <1>11, <1>12, <1>13, AlikeSound, Names DEF Sound, Owned
  <2> QED
    BY <1>1, <1>11, <1>13, <2>1, AlikeKeeps
<1>15. \A x \in s2.outbox : x.failed
  <2> SUFFICES ASSUME NEW x \in s1.outbox, ~x.failed PROVE FALSE
    BY <1>13
  <2>1. x \in q.outbox /\ x.op \notin D
    BY <1>11
  <2> QED
    BY <1>8, <2>1 DEF opsOf, pendingOf
<1>16. pendingOf(s2) = {}
  BY <1>15 DEF pendingOf
<1>17. LET r == beginFlush(s2, a)
       IN /\ Sound(r) /\ Hidden(r) /\ (Ran(s2) => Ran(r))
          /\ r.flight[a].at = "sent" /\ r.flight[a].batch = pendingOf(s2)
          /\ \A g \in Flushers \ {a} : r.flight[g] = s2.flight[g]
          /\ r.session = s2.session /\ r.held = s2.held /\ r.owner = s2.owner
          /\ r.rows = s2.rows /\ r.claims = s2.claims /\ r.outbox = s2.outbox
          /\ r.owed = s2.owed /\ r.running = s2.running /\ r.again = s2.again
  BY <1>1, <1>3, <1>11, <1>13, <1>14, FlushSound DEF Alike
<1>18. /\ Sound(e') /\ Hidden(e') /\ Ran(e')
       /\ e'.flight[a].at = "sent" /\ e'.flight[a].batch = {}
       /\ \A g \in Flushers \ {a} : e'.flight[g] = e.flight[g]
       /\ e'.session = e.session /\ e'.owner = e.owner /\ e'.owed = e.owed
       /\ e'.claims = e.claims \cup {a[1]} /\ e'.outbox = s1.outbox
  BY <1>1, <1>2, <1>11, <1>12, <1>13, <1>14, <1>16, <1>17 DEF Alike
<1>19. pendingOf(e') = {} /\ ~onlineOnly
  BY <1>13, <1>15, <1>18 DEF pendingOf, onlineOnly
<1>20. \A x \in e'.outbox : inOutbox(e, x.op) \/ x.op \in minted(a)
  BY <1>1, <1>11, <1>18 DEF inOutbox
<1>21. \A x \in e'.outbox : x.failed /\ (x \in e.outbox \/ Fated(x.op)')
  <2> SUFFICES ASSUME NEW x \in s1.outbox PROVE x.failed /\ (x \in e.outbox \/ Fated(x.op)')
    BY <1>18
  <2>1. x.failed
    BY <1>13, <1>15
  <2>2. CASE x \in q.outbox
    BY <1>1, <2>1, <2>2
  <2>3. CASE x.op \in D /\ v[x.op] \in Refusals
    BY <1>10, <2>1, <2>3
  <2> QED
    BY <1>11, <2>1, <2>2, <2>3
<1>22. \A op : inOutbox(e, op) \/ op \in minted(a) =>
          inOutbox(e', op) \/ verdict'[op] = "applied"
  <2> SUFFICES ASSUME NEW op, inOutbox(e, op) \/ op \in minted(a)
               PROVE  inOutbox(e', op) \/ verdict'[op] = "applied"
    OBVIOUS
  <2>1. PICK y \in q.outbox : y.op = op
    BY <1>1 DEF inOutbox
  <2>2. CASE op \notin D \/ v[op] \in Refusals
    BY <1>4, <1>11, <1>18, <2>1, <2>2 DEF inOutbox
  <2>3. CASE op \in D /\ v[op] \notin Refusals
    BY <1>10, <2>3
  <2> QED
    BY <2>2, <2>3
<1>23. BegunBy(a)
  BY <1>18, <1>19, <1>20, <1>21, <1>22 DEF BegunBy
<1>24. \A op \in D : inOutbox(e, op) \/ op \in minted(a)
  BY <1>1, <1>8 DEF opsOf, pendingOf, inOutbox
<1>25. Onward(a)
  BY <1>8, <1>9, <1>24 DEF RecordedAs, Onward
<1> QED
  BY <1>23, <1>25

LEMMA BegunStore ==
  ASSUME Inv, NEW a \in Asks, submit(a), e.owner # NoOne, e.session # "restoring"
  PROVE  BegunBy(a) /\ Onward(a)
<1> DEFINE q == Queueing(a)
<1>1. \/ e' = beginFlush(q, a) /\ UNCHANGED judged
      \/ /\ mode = "terminal" /\ bearer(q) \in Accounts
         /\ \E v \in Verdicts(opsOf(pendingOf(q))) :
              recorded(pendingOf(q), bearer(q), v) /\ e' = beginFlush(exchanged(q, v), a)
  BY DEF submit, minted, fresh, Queueing, opsOf
<1> QED
  BY <1>1, BegunAlone, BegunAfterOther

\* With an outbox an attempt is only made once the ones before have freed its
\* command.
LEMMA ReadyIsFresh ==
  ASSUME Inv, NEW a \in Asks, ~onlineOnly, Ready(a), ask[a].pc \in {"idle", "waiting"}
  PROVE  fresh(a)
<1> SUFFICES ASSUME a[1] \in e.claims PROVE FALSE
  BY DEF fresh
<1>1. /\ a[1] \in Cmds /\ a[2] \in 1..Tries /\ a = <<a[1], a[2]>>
  BY AskOf
<1>2. PICK k \in 1..Tries : ask[<<a[1], k>>].own # {} /\ reply[<<a[1], k>>] \notin Retryable
  BY <1>1 DEF Inv, WritesOK, Outboxed, Claimed, Queued
<1>3. <<a[1], k>> \in Asks /\ <<a[1], k>>[1] = a[1] /\ <<a[1], k>>[2] = k
  BY <1>1, AskAt
<1>4. ask[a].own = {} /\ reply[a] = None
  BY DEF Inv, WritesOK, AsksOK, AskOK
<1>5. k # a[2]
  BY <1>1, <1>2, <1>4
<1>6. ~(k < a[2])
  BY <1>2 DEF Ready
<1>7. a[2] < k
  BY <1>1, <1>5, <1>6, EngineAssumption
<1>8. ask[<<a[1], k>>].pc # "idle"
  BY <1>2, <1>3 DEF Inv, WritesOK, AsksOK, AskOK
<1>9. reply[<<a[1], a[2]>>] \in Retryable
  BY <1>1, <1>3, <1>7, <1>8 DEF Inv, WritesOK, Outboxed, Waiting
<1> QED
  BY <1>1, <1>4, <1>9 DEF Retryable, None

\* No other attempt at its command is under way then.
LEMMA SoleAttempt ==
  ASSUME Inv, NEW a \in Asks, ask[a].pc \in {"idle", "waiting", "queued"},
         ~onlineOnly => Ready(a), onlineOnly => WriteFirst(a)
  PROVE  \A k \in 1..Tries : ~Under(<<a[1], k>>)
<1> SUFFICES ASSUME NEW k \in 1..Tries, Under(<<a[1], k>>) PROVE FALSE
  OBVIOUS
<1>1. /\ a[1] \in Cmds /\ a[2] \in 1..Tries /\ a = <<a[1], a[2]>>
  BY AskOf
<1> DEFINE b == <<a[1], k>>
<1>2. b \in Asks /\ b[1] = a[1] /\ b[2] = k /\ b # a /\ Under(b)
  BY <1>1, AskAt DEF Under
<1>3. AskOK(a) /\ AskOK(b)
  BY <1>2 DEF Inv, WritesOK, AsksOK
<1>4. CASE onlineOnly
  BY <1>2, <1>4 DEF Inv, LineOK, WriteFirst
<1>5. CASE ~onlineOnly
  <2>1. reply[a] = None /\ reply[b] = None /\ ask[b].pc # "idle" /\ Waiting(b)
    BY <1>2, <1>3, <1>5 DEF AskOK, Under, Inv, WritesOK, Outboxed
  <2>2. CASE k < a[2]
    BY <1>5, <2>1, <2>2 DEF Ready, Retryable, None
  <2>3. CASE a[2] < k
    <3>1. reply[<<b[1], a[2]>>] \in Retryable
      BY <1>1, <1>2, <2>1, <2>3 DEF Waiting
    <3>2. <<b[1], a[2]>> = a
      BY <1>1, <1>2
    <3> QED
      BY <2>1, <3>1, <3>2 DEF Retryable, None
  <2>4. k # a[2]
    BY <1>1, <1>2
  <2> QED
    BY <1>1, <2>2, <2>3, <2>4, EngineAssumption
<1> QED
  BY <1>4, <1>5

LEMMA BegunKeeps ==
  ASSUME Inv, NEW a \in Asks, submit(a), e.owner # NoOne, e.session # "restoring",
         ask[a].pc \in {"idle", "waiting", "queued"}, ~onlineOnly => Ready(a) /\ fresh(a),
         onlineOnly => WriteFirst(a),
         UNCHANGED <<world, chain, gaveUp, trig, logins>>
  PROVE  Inv'
<1>0. BegunBy(a) /\ Onward(a)
  BY BegunStore
<1>1. /\ Sound(e') /\ Ran(e') /\ Hidden(e')
      /\ e'.session = e.session /\ e'.owner = e.owner /\ e'.owed = e.owed
      /\ e'.claims = e.claims \cup {a[1]}
      /\ e'.flight[a].at = "sent" /\ e'.flight[a].batch = pendingOf(e')
      /\ \A g \in Flushers \ {a} : e'.flight[g] = e.flight[g]
      /\ \A x \in e'.outbox : inOutbox(e, x.op) \/ x.op \in minted(a)
      /\ \A x \in e'.outbox : IF x.failed THEN x \in e.outbox \/ Fated(x.op)'
                                          ELSE x \in e.outbox \/ x.op \in minted(a)
      /\ \A op : inOutbox(e, op) \/ op \in minted(a) =>
           inOutbox(e', op) \/ verdict'[op] = "applied"
  BY <1>0 DEF BegunBy
<1>16. /\ bad' \in Nat /\ doubtful \subseteq doubtful' /\ doubtful' \subseteq Ops
       /\ strays' = {} /\ verdict' \in [Ops -> {None, "applied", "rejected"}]
       /\ \A op \in Ops : verdict[op] # None => verdict'[op] = verdict[op]
       /\ \A op \in Ops : verdict'[op] # None =>
            verdict[op] # None \/ inOutbox(e, op) \/ op \in minted(a)
       /\ \A op \in Ops : Fated(op) => Fated(op)'
  BY <1>0 DEF Onward, Verdict
<1>17. \A b \in Asks : ask[b].own \subseteq Ops
  BY DEF Inv, EngineTypeOK, Asking
<1>2. /\ a[1] \in Cmds /\ a[2] \in 1..Tries /\ a = <<a[1], a[2]>> /\ a \in Flushers
      /\ a # SyncRun /\ SyncRun \in Flushers
      /\ minted(a) \in {{}, mintOps(a[1], a[2])} /\ minted(a) \subseteq Ops
      /\ mintOps(a[1], a[2]) # {}
  BY AskOf, Names DEF minted
<1>3. /\ ask' \in [Asks -> Asking] /\ ask'[a].pc = "sent" /\ ask'[a].own = minted(a)
      /\ ask'[a].got = ask[a].got
      /\ \A b \in Asks \ {a} : ask'[b] = ask[b]
  <2> DEFINE x == [ask[a] EXCEPT !.pc = "sent", !.own = minted(a)]
  <2>1. ask \in [Asks -> Asking] /\ ask' = [ask EXCEPT ![a] = x]
    BY DEF Inv, EngineTypeOK, submit, minted, fresh
  <2>2. x \in Asking /\ x.pc = "sent" /\ x.own = minted(a) /\ x.got = ask[a].got
    BY <1>2, <2>1 DEF Asking
  <2> HIDE DEF x
  <2> QED
    BY <2>1, <2>2
<1>4. reply' = reply /\ reply[a] = None /\ ask[a].own = {} /\ e.flight[a].at = None
  BY DEF submit, Inv, WritesOK, AsksOK, AskOK
<1>5. onlineOnly' = onlineOnly
  BY DEF onlineOnly, mode
<1>6. minted(a) \subseteq opsOf(e'.flight[a].batch) \/ Told(a)'
  <2>1. minted(a) \subseteq opsOf(pendingOf(e')) \/ (~onlineOnly /\ pendingOf(e') = {})
    BY <1>0 DEF BegunBy
  <2>2. pendingOf(e') = {} => opsOf(pendingOf(e')) = {}
    BY DEF opsOf
  <2> QED
    BY <1>1, <1>3, <1>5, <2>1, <2>2 DEF Told
<1>7. AsksOK'
  <2> SUFFICES ASSUME NEW b \in Asks PROVE AskOK(b)'
    BY DEF AsksOK
  <2>1. CASE b = a
    BY <1>1, <1>2, <1>3, <1>4, <1>6, <2>1 DEF AskOK, None
  <2>2. CASE b # a
    <3>1. AskOK(b) /\ ask'[b] = ask[b] /\ e'.flight[b] = e.flight[b]
      BY <1>1, <1>3, <2>2, Names DEF Inv, WritesOK, AsksOK
    <3>2. ask[b].pc = "sent" /\ ~onlineOnly => \A op \in minted(a) : op \notin ask[b].own
      <4> SUFFICES ASSUME ask[b].pc = "sent", ~onlineOnly,
                          NEW op \in minted(a), op \in ask[b].own
                   PROVE  FALSE
        OBVIOUS
      <4>1. op[1] = a[1] /\ op[1] = b[1] /\ b = <<b[1], b[2]>> /\ b[2] \in 1..Tries
        BY <3>1, AskOf DEF AskOK, minted
      <4>2. ~Under(<<a[1], b[2]>>)
        BY <4>1, SoleAttempt
      <4> QED
        BY <4>1, <4>2 DEF Under
    <3>3. ask[b].pc = "sent" /\ Told(b) => Told(b)'
      BY <1>1, <1>5, <3>1, <3>2 DEF Told, pendingOf
    <3> QED
      BY <1>1, <1>4, <1>5, <1>16, <1>17, <3>1, <3>3 DEF AskOK
  <2> QED
    BY <2>1, <2>2
<1>8. AllMinted'
  <2>1. \A op : Minted(op) => Minted(op)'
    BY <1>3, <1>4 DEF Minted
  <2>2. \A op \in minted(a) : Minted(op)'
    BY <1>3 DEF Minted
  <2>3. \A x \in e'.outbox : Minted(x.op)'
    BY <1>1, <2>1, <2>2 DEF Inv, WritesOK, AllMinted, inOutbox
  <2>4. \A f \in Flushers : \A x \in e'.flight[f].batch : Minted(x.op)'
    BY <1>1, <2>1, <2>3 DEF pendingOf, Inv, WritesOK, AllMinted
  <2>5. \A op \in Ops : verdict'[op] # None => Minted(op)'
    BY <1>16, <2>1, <2>2 DEF Inv, WritesOK, AllMinted, inOutbox
  <2> QED
    BY <2>3, <2>4, <2>5 DEF AllMinted
<1>9. Judged'
  <2> SUFFICES ASSUME NEW g \in Flushers, e'.flight[g].at = "served",
                      NEW op \in opsOf(e'.flight[g].batch)
               PROVE  IF e'.flight[g].results[op] = "unrecorded" THEN op \in doubtful'
                      ELSE verdict'[op] = e'.flight[g].results[op]
    BY DEF Judged
  <2>1. e'.flight[g] = e.flight[g]
    BY <1>1
  <2>2. e.flight[g].results \in [opsOf(e.flight[g].batch) -> Answers]
    BY <2>1 DEF Inv, Sound, Carried
  <2>3. e.flight[g].results[op] \in Answers /\ op \in Ops
    BY <2>1, <2>2 DEF opsOf, Inv, Sound, Store, Flight, Entry
  <2> QED
    BY <1>16, <2>1, <2>3 DEF Inv, WritesOK, Judged, Answers, None
<1>18. Failing'
  <2>1. \A x \in e.outbox : x.op \in Ops
    BY DEF Inv, Sound, Store, Entry
  <2> QED
    BY <1>1, <1>16, <2>1 DEF Inv, WritesOK, Failing
<1>10. OnceEach'
  <2> SUFFICES ASSUME NEW c \in Twofold PROVE AtMostOnce(c)'
    BY DEF OnceEach
  <2>1. \A k \in 1..Tries : <<c, k>> \in Asks /\ <<c, k>> \in Flushers
    BY EngineAssumption, AskAt
  <2>2. AtMostOnce(c)
    BY DEF Inv, WritesOK, OnceEach
  <2>3. \A k \in 1..Tries : Spent(c, k) => Spent(c, k)'
    BY <1>16, EngineAssumption DEF Spent, Ops
  <2>4. \A k \in 1..Tries : <<c, k>> # a =>
          /\ Queued(c, k)' <=> Queued(c, k)
          /\ e'.flight[<<c, k>>] = e.flight[<<c, k>>]
          /\ Under(<<c, k>>)' <=> Under(<<c, k>>)
    BY <1>1, <1>3, <2>1 DEF Queued, Under
  <2>5. CASE c # a[1]
    <3>1. c \in e'.claims <=> c \in e.claims
      BY <1>1, <2>5
    <3>2. \A k \in 1..Tries : <<c, k>> # a
      BY <1>2, <2>5
    <3> QED
      BY <2>2, <2>3, <2>4, <3>1, <3>2 DEF AtMostOnce
  <2>6. CASE c = a[1] /\ ~fresh(a)
    <3>1. c \in e.claims /\ c \in e'.claims
      BY <1>1, <2>6 DEF fresh
    <3>2. \A k \in 1..Tries : Queued(c, k)' => <<c, k>> # a
      BY <1>3, <2>6 DEF Queued, minted
    <3> QED
      BY <2>2, <2>3, <2>4, <3>1, <3>2 DEF AtMostOnce
  <2>7. CASE c = a[1] /\ fresh(a)
    <3>1. c \in e'.claims
      BY <1>1, <2>7
    <3>2. \A k \in 1..Tries : Queued(c, k) => Spent(c, k) /\ e.flight[<<c, k>>].at = None
      BY <2>2, <2>7 DEF AtMostOnce, fresh
    <3>3. \A k \in 1..Tries : <<c, k>> # a /\ Queued(c, k)' =>
            Spent(c, k)' /\ e'.flight[<<c, k>>].at = None
      BY <2>3, <2>4, <3>2
    <3>8. \A k \in 1..Tries : ~Under(<<c, k>>)
      BY <2>7, SoleAttempt
    <3>4. \A j, k \in 1..Tries : <<c, j>> = a /\ <<c, k>> = a => j = k
      OBVIOUS
    <3>5. \A j, k \in 1..Tries : Queued(c, j)' /\ Queued(c, k)' /\ j # k =>
            Spent(c, j)' \/ Spent(c, k)'
      BY <3>3, <3>4
    <3>6. \A k \in 1..Tries : Under(<<c, k>>)' => <<c, k>> = a
      BY <2>4, <3>8
    <3>7. \A k \in 1..Tries : <<c, k>> = a => \A j \in 1..Tries : j # k /\ Queued(c, j)' =>
            Spent(c, j)' /\ e'.flight[<<c, j>>].at = None
      BY <3>3, <3>4
    <3> QED
      BY <3>1, <3>5, <3>6, <3>7 DEF AtMostOnce
  <2> QED
    BY <2>5, <2>6, <2>7
<1>11. Outboxed'
  <2> SUFFICES ASSUME ~onlineOnly
               PROVE  /\ gaveUp' = {}
                      /\ \A b \in Asks : Waiting(b)'
                      /\ \A c \in Cmds : Claimed(c)'
    BY <1>5 DEF Outboxed
  <2>1. gaveUp' = {} /\ (\A b \in Asks : Waiting(b)) /\ (\A c \in Cmds : Claimed(c))
    BY DEF Inv, WritesOK, Outboxed
  <2>2. minted(a) # {}
    BY <1>2 DEF minted
  <2>3. \A op \in Ops : verdict[op] = "applied" => verdict'[op] = "applied"
    BY <1>16 DEF None
  <2>4. ASSUME NEW b \in Asks PROVE Waiting(b)'
    <3>1. CASE b = a
      <4>1. Kept(a)'
        BY <1>1, <1>3 DEF Kept, inOutbox
      <4> QED
        BY <1>3, <1>4, <2>2, <3>1, <4>1 DEF Waiting, Under, Ready, None
    <3>2. CASE b # a
      <4>1. Kept(b) => Kept(b)'
        BY <1>1, <1>3, <1>17, <2>3, <3>2 DEF Kept
      <4>2. Waiting(b) /\ ask'[b] = ask[b]
        BY <1>3, <2>1, <3>2
      <4> QED
        BY <1>4, <1>17, <2>3, <4>1, <4>2 DEF Waiting, Under
    <3> QED
      BY <3>1, <3>2
  <2>5. ASSUME NEW c \in Cmds PROVE Claimed(c)'
    <3>1. CASE c = a[1]
      <4>1. Queued(c, a[2])' /\ reply'[<<c, a[2]>>] \notin Retryable
        BY <1>2, <1>3, <1>4, <2>2, <3>1 DEF Queued, Retryable, None
      <4> QED
        BY <1>2, <4>1 DEF Claimed
    <3>2. CASE c # a[1]
      <4>1. \A k \in 1..Tries : <<c, k>> \in Asks /\ <<c, k>> # a
        BY <1>2, <3>2, AskAt
      <4>2. Claimed(c)
        BY <2>1
      <4> QED
        BY <1>1, <1>3, <1>4, <3>2, <4>1, <4>2 DEF Claimed, Queued
    <3> QED
      BY <3>1, <3>2
  <2> QED
    BY <2>1, <2>4, <2>5
<1>12. OnTheWay'
  BY <1>1, <1>3 DEF OnTheWay, opsOf, pendingOf
<1>13. LineOK'
  BY <1>1, <1>3, <1>5 DEF Inv, LineOK, JobsOK, jobIs, Under, WriteFirst
<1>14. EngineTypeOK'
  BY <1>1, <1>3, <1>4, <1>13, <1>16 DEF Inv, EngineTypeOK, Sound, LineOK, JobsOK
<1>15. TriggerCovered' /\ strays' = {}
  BY <1>1, <1>16 DEF Inv, TriggerCovered
<1> QED
  BY <1>18, <1>1, <1>7, <1>8, <1>9, <1>10, <1>11, <1>12, <1>13, <1>14, <1>15 DEF Inv, WritesOK

\* A command that no client should send is only answered.
LEMMA InvalidKeeps ==
  ASSUME Inv, NEW a \in Asks, invalid(a), ask[a].pc \in {"idle", "waiting", "queued"},
         Ready(a), e.session # "restoring",
         chain' = chain \/ (onlineOnly /\ chain' = Tail(chain) /\ WriteFirst(a)),
         UNCHANGED <<world, gaveUp, trig, verdict, strays, doubtful, logins, bad>>
  PROVE  Inv'
<1> DEFINE r == publishAll(e)
<1>1. /\ e' = r /\ ask' = [ask EXCEPT ![a].pc = "done"]
      /\ reply' = [reply EXCEPT ![a] = "invalid"]
  BY DEF invalid
<1>2. /\ Sound(r) /\ Hidden(r) /\ Turned(e, r) /\ Ran(r)
      /\ r.owed = e.owed /\ r.session = e.session
  BY PublishedSound DEF Inv, Turned, Steady
<1> HIDE DEF r
<1>3. Calm(r)
  BY <1>2, CalmSame, CalmTurned
<1>4. JobsOK(chain') /\ ~Begins(chain')
      /\ \A b \in Asks : onlineOnly /\ Under(b) => WriteFirst(b)'
  <2>1. JobsOK(chain) /\ ~Begins(chain)
        /\ \A b \in Asks : onlineOnly /\ Under(b) => WriteFirst(b)
    BY DEF Inv, LineOK, jobIs, Begins
  <2>2. CASE chain' = chain
    BY <2>1, <2>2 DEF WriteFirst
  <2>3. CASE onlineOnly /\ chain' = Tail(chain) /\ WriteFirst(a)
    <3>1. JobsOK(Tail(chain)) /\ \A i \in DOMAIN Tail(chain) : Tail(chain)[i].job # "start"
      BY <2>1, <2>3, JobsTaken DEF WriteFirst
    <3>2. Tail(chain) # << >> => 1 \in DOMAIN Tail(chain)
      BY <3>1 DEF JobsOK
    <3>3. \A b \in Asks : ~Under(b)
      BY <2>1, <2>3 DEF WriteFirst, Under
    <3> QED
      BY <2>3, <3>1, <3>2, <3>3 DEF Begins
  <2> QED
    BY <2>2, <2>3
<1> QED
  BY <1>1, <1>2, <1>3, <1>4, MovedKeeps

LEMMA AdmittedKeeps ==
  ASSUME Inv, NEW a \in Asks, admitted(a), ask[a].pc \in {"idle", "waiting"},
         Ready(a), e.session # "restoring",
         UNCHANGED <<world, gaveUp, trig, logins>>
  PROVE  Inv'
<1>1. JobsOK(chain) /\ ~Begins(chain)
      /\ \A b \in Asks : onlineOnly /\ Under(b) => WriteFirst(b)
  BY DEF Inv, LineOK, jobIs, Begins
<1>2. Sound(e) /\ Ran(e) /\ Hidden(e) /\ Calm(e)
  BY CalmSame DEF Inv
<1>3. CASE ~open(e)
  <2>1. /\ ask' = [ask EXCEPT ![a].pc = "done"]
        /\ reply' = [reply EXCEPT ![a] = "signed-out"]
        /\ UNCHANGED <<e, chain, verdict, strays, doubtful, bad>>
    BY <1>3 DEF admitted, judged
  <2> QED
    BY <1>1, <1>2, <2>1, MovedKeeps DEF WriteFirst
<1>4. CASE open(e) /\ onlineOnly
  <2> DEFINE j == [job |-> "write", by |-> a, pc |-> "wait"]
             line == Append(chain, j)
  <2>1. /\ chain' = line /\ ask' = [ask EXCEPT ![a].pc = "queued"]
        /\ UNCHANGED <<e, reply, verdict, strays, doubtful, bad>>
    BY <1>4 DEF admitted, judged
  <2>2. j \in Job /\ j.job = "write" /\ j.by = a
    BY DEF Job
  <2> HIDE DEF j
  <2>3. /\ JobsOK(line) /\ line # << >> /\ (chain # << >> => line[1] = chain[1])
        /\ (chain = << >> => line[1] = j)
    BY <1>1, <1>4, <2>2, JobsAppended
  <2> HIDE DEF line
  <2>4. ~Begins(line) /\ \A b \in Asks : onlineOnly /\ Under(b) => WriteFirst(b)'
    BY <1>1, <2>1, <2>2, <2>3 DEF Begins, WriteFirst
  <2>5. e.owner # NoOne
    BY <1>2, <1>4 DEF Sound, Owned
  <2>6. reply' = IF "queued" = "done" THEN [reply EXCEPT ![a] = "invalid"] ELSE reply
    BY <2>1
  <2> QED
    BY <1>2, <1>4, <2>1, <2>3, <2>4, <2>5, <2>6, MovedKeeps
<1>5. CASE open(e) /\ ~onlineOnly
  <2>1. (submit(a) \/ (invalid(a) /\ UNCHANGED judged)) /\ chain' = chain
    BY <1>5 DEF admitted, write
  <2>2. CASE submit(a)
    <3>1. e.owner # NoOne
      BY <1>2, <1>5 DEF Sound, Owned
    <3>2. fresh(a)
      BY <1>5, ReadyIsFresh
    <3> QED
      BY <1>5, <2>1, <2>2, <3>1, <3>2, BegunKeeps
  <2>3. CASE invalid(a) /\ UNCHANGED judged
    BY <2>1, <2>3, InvalidKeeps DEF judged
  <2> QED
    BY <2>1, <2>2, <2>3
<1> QED
  BY <1>3, <1>4, <1>5

LEMMA SendWriteKeeps ==
  ASSUME Inv, NEW a \in Asks, SendWrite(a[1], a[2])
  PROVE  Inv'
<1>1. /\ a[1] \in Cmds /\ a[2] \in 1..Tries /\ a = <<a[1], a[2]>>
  BY AskOf
<1>2. /\ ask[a].pc = "idle" /\ handle(a)
      /\ a[2] > 1 => \/ reply[<<a[1], a[2] - 1>>] \in Retryable
                     \/ <<a[1], a[2] - 1>> \in gaveUp
      /\ UNCHANGED <<world, gaveUp, trig, logins>>
  BY <1>1 DEF SendWrite
<1>3. Ready(a)
  <2> SUFFICES ASSUME ~onlineOnly, NEW j \in 1..Tries, j < a[2]
               PROVE  reply[<<a[1], j>>] \in Retryable
    BY DEF Ready
  <2> DEFINE p == a[2] - 1
  <2>1. p \in 1..Tries /\ a[2] > 1 /\ j <= p
    BY <1>1, EngineAssumption
  <2>2. gaveUp = {} /\ \A b \in Asks : Waiting(b)
    BY DEF Inv, WritesOK, Outboxed
  <2>3. reply[<<a[1], p>>] \in Retryable
    BY <1>2, <2>1, <2>2
  <2>4. /\ <<a[1], p>> \in Asks /\ <<a[1], p>>[1] = a[1] /\ <<a[1], p>>[2] = p
    BY <1>1, <2>1, AskAt
  <2>5. ask[<<a[1], p>>].pc # "idle"
    BY <2>3, <2>4 DEF Inv, WritesOK, AsksOK, AskOK, Retryable, None
  <2>6. j < p => reply[<<a[1], j>>] \in Retryable
    BY <2>2, <2>4, <2>5 DEF Waiting
  <2>7. j < p \/ j = p
    BY <2>1, EngineAssumption
  <2> QED
    BY <2>3, <2>6, <2>7
<1>4. CASE e.session = "restoring"
  <2>1. /\ ask' = [ask EXCEPT ![a].pc = "waiting"]
        /\ UNCHANGED <<e, chain, reply, verdict, strays, doubtful, bad>>
    BY <1>2, <1>4 DEF handle, judged
  <2>2. Sound(e) /\ Ran(e) /\ Hidden(e) /\ Calm(e) /\ JobsOK(chain)
        /\ (e.session = "restoring" <=> Begins(chain))
        /\ \A b \in Asks : onlineOnly /\ Under(b) => WriteFirst(b)
    BY CalmSame DEF Inv, LineOK, jobIs, Begins
  <2>3. reply' = IF "waiting" = "done" THEN [reply EXCEPT ![a] = "invalid"] ELSE reply
    BY <2>1
  <2> QED
    BY <1>2, <1>3, <2>1, <2>2, <2>3, MovedKeeps DEF WriteFirst
<1>5. CASE e.session # "restoring"
  BY <1>2, <1>3, <1>5, AdmittedKeeps DEF handle
<1> QED
  BY <1>4, <1>5

LEMMA RestoredKeeps ==
  ASSUME Inv, NEW a \in Asks, Restored(a)
  PROVE  Inv'
<1>1. ask[a].pc = "waiting" /\ e.session # "restoring"
  BY RestoredBy DEF Restored
<1>2. Ready(a)
  BY <1>1 DEF Ready, Inv, WritesOK, Outboxed, Waiting
<1> QED
  BY <1>1, <1>2, AdmittedKeeps DEF Restored

LEMMA StartWriteKeeps ==
  ASSUME Inv, StartWrite
  PROVE  Inv'
<1> DEFINE a == chain[1].by
<1>1. /\ chain # << >> /\ chain[1].job = "write" /\ ask[a].pc = "queued"
      /\ submit(a) \/ (invalid(a) /\ UNCHANGED judged)
      /\ chain' = IF ask'[a].pc = "done" THEN Tail(chain) ELSE chain
      /\ UNCHANGED <<world, gaveUp, trig, logins>>
  BY DEF StartWrite, write
<1>2. a \in Asks /\ onlineOnly
  <2>1. JobsOK(chain) /\ 1 \in DOMAIN chain
    BY <1>1 DEF Inv, LineOK, JobsOK
  <2> QED
    BY <1>1, <2>1 DEF JobsOK
<1>3. WriteFirst(a)
  BY <1>1 DEF WriteFirst
<1> HIDE DEF a
<1>4. e.owner # NoOne /\ e.session # "restoring" /\ Ready(a)
  BY <1>1, <1>2 DEF Inv, WritesOK, AsksOK, AskOK, Ready
<1>5. ask \in [Asks -> Asking]
  BY DEF Inv, EngineTypeOK
<1>6. CASE submit(a)
  <2>1. ask'[a].pc = "sent"
    BY <1>2, <1>5, <1>6 DEF submit, Asking
  <2> QED
    BY <1>1, <1>2, <1>3, <1>4, <1>6, <2>1, BegunKeeps
<1>7. CASE invalid(a) /\ UNCHANGED judged
  <2>1. ask'[a].pc = "done"
    BY <1>2, <1>5, <1>7 DEF invalid, Asking
  <2> QED
    BY <1>1, <1>2, <1>3, <1>4, <1>7, <2>1, InvalidKeeps DEF judged
<1> QED
  BY <1>1, <1>6, <1>7

----------------------------------------------------------------------------
(* The theorems.                                                           *)

LEMMA InitInv ==
  ASSUME Init
  PROVE  Inv
<1> DEFINE acc == CHOOSE acc \in Accounts : TRUE
           j == [job |-> "start", by |-> acc, pc |-> "wait"]
<1>1. /\ world \in Worlds
      /\ e = [session |-> "restoring", held |-> "unknown",
              owner |-> IF world.known THEN acc ELSE NoOne,
              rows |-> IF world.known THEN {acc} ELSE {},
              cursor |-> IF world.known THEN 1 ELSE 0,
              outbox |-> {}, claims |-> {}, untidy |-> world.untidy,
              running |-> FALSE, again |-> FALSE,
              flight |-> [f \in Flushers |-> NoFlight],
              shown |-> {}, owed |-> {}]
      /\ chain = <<j>>
      /\ ask = [a \in Asks |-> idle] /\ reply = [a \in Asks |-> None]
      /\ gaveUp = {} /\ trig = [t \in Triggers |-> "idle"]
      /\ verdict = [op \in Ops |-> None] /\ strays = {} /\ doubtful = {}
      /\ logins = 0 /\ bad = 0
  BY DEF Init
<1>2. acc \in Accounts /\ world.untidy \in BOOLEAN
  BY <1>1, EngineAssumption
<1> HIDE DEF acc
<1>3. j \in Job /\ j.job = "start" /\ j.by \in Accounts /\ j.pc = "wait"
  BY <1>2 DEF Job
<1> HIDE DEF j
<1>4. /\ e \in Store /\ e.session = "restoring" /\ e.held = "unknown"
      /\ e.owner = NoOne => e.rows = {}
      /\ e.outbox = {} /\ e.claims = {} /\ ~e.running /\ e.shown = {} /\ e.owed = {}
      /\ \A f \in Flushers : e.flight[f] = NoFlight
  BY <1>1, <1>2, NoFlightIs, Names DEF Store
<1>5. Sound(e) /\ Ran(e) /\ Hidden(e)
  BY <1>4, NoFlightIs, Names DEF Sound, Owned, Carried, Quiet, Ran, Hidden, open, None
<1>6. \A a \in Asks : /\ ask[a].pc = "idle" /\ ask[a].own = {} /\ reply[a] = None
                      /\ ask[a] \in Asking /\ e.flight[a] = NoFlight
  BY <1>1, <1>4, Names DEF idle, Asking
<1>7. \A op \in Ops : verdict[op] = None
  BY <1>1
<1>8. EngineTypeOK
  BY <1>1, <1>3, <1>4, <1>6 DEF EngineTypeOK, Replies, idle
<1>9. AsksOK
  BY <1>6, NoFlightIs DEF AsksOK, AskOK
<1>10. AllMinted /\ Judged /\ Failing
  BY <1>4, <1>7, NoFlightIs DEF AllMinted, Judged, Failing, None
<1>11. OnceEach
  <2>1. \A c \in Twofold : \A k \in 1..Tries : ~Queued(c, k)
    BY <1>6, EngineAssumption, AskAt DEF Queued
  <2> QED
    BY <2>1 DEF OnceEach, AtMostOnce
<1>12. Outboxed /\ OnTheWay
  BY <1>1, <1>4, <1>6 DEF Outboxed, Waiting, Claimed, OnTheWay, pendingOf, Under, None
<1>13. LineOK
  <2>1. chain \in Seq(Job) /\ chain # << >> /\ chain[1] = j /\ DOMAIN chain = {1}
    BY <1>1, <1>3
  <2> QED
    BY <1>3, <1>4, <1>6, <2>1 DEF LineOK, JobsOK, jobIs, Under
<1>14. TriggerCovered /\ strays = {}
  BY <1>1, <1>4 DEF TriggerCovered
<1> QED
  BY <1>5, <1>8, <1>9, <1>10, <1>11, <1>12, <1>13, <1>14 DEF Inv, WritesOK

LEMMA NextInv ==
  ASSUME Inv, [Next]_vars
  PROVE  Inv'
<1>1. CASE EngineStep
  <2>1. ASSUME NEW a \in Asks, Restored(a) \/ Settled(a) \/ Finish(a)
        PROVE  Inv'
    BY <2>1, RestoredKeeps, SettledKeeps, FinishKeeps
  <2>2. ASSUME NEW f \in Flushers, Serve(f)
        PROVE  Inv'
    BY <2>2, ServeKeeps
  <2>3. ASSUME NEW t \in Triggers, TriggerRestored(t) \/ TriggerAnswered(t)
        PROVE  Inv'
    BY <2>3, TriggerKeeps
  <2>4. ASSUME Started \/ Waited \/ SignedIn \/ Synced \/ SignedOut
        PROVE  Inv'
    BY <2>4, SessionStepsKeep
  <2> QED
    BY <1>1, <2>1, <2>2, <2>3, <2>4, StartWriteKeeps, SyncSettledKeeps DEF EngineStep
<1>2. CASE Fault
  <2>1. ASSUME NEW a \in Asks, Unreached(a) \/ Refused(a)
        PROVE  Inv'
    BY <2>1, UnreachedKeeps, RefusedKeeps
  <2>2. ASSUME NotStarted PROVE Inv'
    BY <2>2, SessionStepsKeep
  <2> QED
    BY <1>2, <2>1, <2>2, SyncUnreachedKeeps, SyncRefusedKeeps DEF Fault
<1>3. CASE Outside
  <2>0. world \in Worlds
    BY DEF Inv, EngineTypeOK
  <2>1. ASSUME NEW a \in world.writes, SendWrite(a[1], a[2])
        PROVE  Inv'
    <3>1. a \in Asks
      BY <2>0, EngineAssumption DEF Asks
    <3> QED
      BY <2>1, <3>1, SendWriteKeeps
  <2>2. ASSUME NEW t \in world.triggers, Trigger(t)
        PROVE  Inv'
    <3>1. t \in Triggers
      BY <2>0, EngineAssumption
    <3> QED
      BY <2>2, <3>1, TriggerKeeps
  <2>3. ASSUME NEW acc \in Accounts, AskSession("signIn", acc)
        PROVE  Inv'
    BY <2>3, AskSessionKeeps
  <2>4. ASSUME AskSession("signOut", NoOne)
        PROVE  Inv'
    BY <2>4, AskSessionKeeps
  <2>5. ASSUME OtherSync \/ \E acc \in Accounts : OtherLogin(acc)
        PROVE  Inv'
    BY <2>5, OtherProcessKeeps
  <2> QED
    BY <1>3, <2>1, <2>2, <2>3, <2>4, <2>5, GiveUpKeeps DEF Outside
<1>4. CASE UNCHANGED vars
  BY <1>4, StoreSame DEF vars, Inv, EngineTypeOK, TriggerCovered
<1> QED
  BY <1>1, <1>2, <1>3, <1>4 DEF Next

\* The inductive invariant holds of every behaviour of the engine.
THEOREM EngineInductive == Spec => []Inv
<1>1. Init => Inv
  BY InitInv
<1>2. Inv /\ [Next]_vars => Inv'
  BY NextInv
<1> QED
  BY <1>1, <1>2, PTL DEF Spec

\* The engine's state has its type, in every step of it.
THEOREM EngineTypes == Spec => []EngineTypeOK
<1>1. Inv => EngineTypeOK
  BY DEF Inv
<1> QED
  BY <1>1, EngineInductive, PTL

LEMMA InvRunsOnce ==
  ASSUME Inv
  PROVE  RunsOnce
<1> SUFFICES ASSUME NEW c \in Twofold, NEW j \in 1..Tries, NEW k \in 1..Tries,
                    verdict[<<c, j>>] = "applied", <<c, j>> \notin doubtful,
                    verdict[<<c, k>>] = "applied", <<c, k>> \notin doubtful
             PROVE  j = k
  BY DEF RunsOnce
<1>1. ASSUME NEW i \in 1..Tries, verdict[<<c, i>>] = "applied"
      PROVE  Queued(c, i)
  <2>1. <<c, i>> \in Ops /\ <<c, i>> # <<Tidy, 0>> /\ i # 0
    BY EngineAssumption DEF Ops
  <2>2. PICK a \in Asks : <<c, i>> \in ask[a].own
    BY <1>1, <2>1 DEF Inv, WritesOK, AllMinted, Minted, None
  <2>3. /\ ask[a].own = mintOps(a[1], a[2]) /\ a = <<a[1], a[2]>>
    BY <2>2, AskOf DEF Inv, WritesOK, AsksOK, AskOK
  <2>4. a = <<c, i>>
    BY <2>1, <2>2, <2>3 DEF mintOps
  <2> QED
    BY <2>2, <2>4 DEF Queued
<1>2. Queued(c, j) /\ Queued(c, k) /\ ~Spent(c, j) /\ ~Spent(c, k)
  BY <1>1 DEF Spent, Fated
<1> QED
  BY <1>2 DEF Inv, WritesOK, OnceEach, AtMostOnce

\* A command takes effect at most once, however many attempts a page makes.
THEOREM CommandsRunOnce == Spec => []RunsOnce
<1>1. Inv => RunsOnce
  BY InvRunsOnce
<1> QED
  BY <1>1, EngineInductive, PTL

LEMMA InvSavedMeansKept ==
  ASSUME Inv
  PROVE  SavedMeansKept
<1> SUFFICES ASSUME ~onlineOnly, NEW a \in Asks, reply[a] = "ok"
             PROVE  /\ carried(a[1]) # {}
                    /\ \A op \in carried(a[1]) : verdict[op] = "applied" \/ inOutbox(e, op)
  BY DEF SavedMeansKept
<1>1. /\ a[1] \in Cmds /\ a[2] \in 1..Tries /\ a = <<a[1], a[2]>>
  BY AskOf
<1>2. Waiting(a) /\ ask[a].own # {} /\ Kept(a)
  BY DEF Inv, WritesOK, Outboxed, Waiting
<1>3. \A j \in (a[2] + 1)..Tries : ask[<<a[1], j>>].own = {}
  <2> SUFFICES ASSUME NEW j \in (a[2] + 1)..Tries, ask[<<a[1], j>>].own # {}
               PROVE  FALSE
    OBVIOUS
  <2>1. j \in 1..Tries /\ a[2] < j
    BY <1>1, EngineAssumption
  <2>2. /\ <<a[1], j>> \in Asks /\ <<a[1], j>>[1] = a[1] /\ <<a[1], j>>[2] = j
    BY <1>1, <2>1, AskAt
  <2>3. ask[<<a[1], j>>].pc # "idle"
    BY <2>2 DEF Inv, WritesOK, AsksOK, AskOK
  <2>4. reply[<<a[1], a[2]>>] \in Retryable
    BY <1>1, <2>1, <2>2, <2>3 DEF Inv, WritesOK, Outboxed, Waiting
  <2> QED
    BY <1>1, <2>4 DEF Retryable
<1>4. \A k \in 1..Tries : k # a[2] =>
        ~(ask[<<a[1], k>>].own # {} /\ \A j \in (k + 1)..Tries : ask[<<a[1], j>>].own = {})
  <2> SUFFICES ASSUME NEW k \in 1..Tries, k # a[2], ask[<<a[1], k>>].own # {},
                      \A j \in (k + 1)..Tries : ask[<<a[1], j>>].own = {}
               PROVE  FALSE
    OBVIOUS
  <2>1. CASE k < a[2]
    <3>1. a[2] \in (k + 1)..Tries
      BY <1>1, <2>1, EngineAssumption
    <3> QED
      BY <1>1, <1>2, <3>1
  <2>2. CASE a[2] < k
    <3>1. k \in (a[2] + 1)..Tries
      BY <1>1, <2>2, EngineAssumption
    <3> QED
      BY <1>3, <3>1
  <2> QED
    BY <1>1, <2>1, <2>2, EngineAssumption
<1>5. carried(a[1]) = ask[a].own
  <2> DEFINE last == {k \in 1..Tries : ask[<<a[1], k>>].own # {}
                        /\ \A j \in (k + 1)..Tries : ask[<<a[1], j>>].own = {}}
  <2>1. last = {a[2]}
    BY <1>1, <1>2, <1>3, <1>4
  <2>2. carried(a[1]) = UNION {ask[<<a[1], k>>].own : k \in last}
    BY DEF carried
  <2> HIDE DEF last
  <2>3. {ask[<<a[1], k>>].own : k \in last} = {ask[a].own}
    BY <1>1, <2>1
  <2> QED
    BY <2>2, <2>3
<1> QED
  BY <1>2, <1>5 DEF Kept

\* With an outbox, a write that was told saved is at the server or kept.
THEOREM SavedIsKept == Spec => []SavedMeansKept
<1>1. Inv => SavedMeansKept
  BY InvSavedMeansKept
<1> QED
  BY <1>1, EngineInductive, PTL

\* A server-side engine that is done with its writes has none left to send.
THEOREM NothingIsLeft == Spec => []NothingLeftQueued
<1>1. Inv => NothingLeftQueued
  BY DEF Inv, WritesOK, OnTheWay, NothingLeftQueued
<1> QED
  BY <1>1, EngineInductive, PTL

\* A sync request is only answered after a sync that began when it had come.
THEOREM TriggersCovered == Spec => []TriggerCovered
<1>1. Inv => TriggerCovered
  BY DEF Inv
<1> QED
  BY <1>1, EngineInductive, PTL

\* No operation is applied for another account than the one it was queued for,
\* and nothing is shown while no account is signed in.
THEOREM OperationsReachTheirOwner == Spec => []DeliveredToItsOwner
<1>1. Inv => DeliveredToItsOwner
  BY DEF Inv, Hidden, DeliveredToItsOwner
<1> QED
  BY <1>1, EngineInductive, PTL

=============================================================================
