# todoer: a TLA+ development

todoer is an offline-first task manager.  Clients keep an outbox of operations
and a replica of the user's rows; `POST /sync` delivers the operations and
returns what changed.  A web page has no store of its own: the server hosts an
engine for it and streams what it shows.  This directory models the system from
the statements of the server's transactions to the keys of the terminal client,
checks it with TLC and proves with TLAPS what matters most of its core.

Source paths are relative to the repository; `backend` is `apps/backend/src`,
`client-core` is `packages/client-core/src`, `specs` is `packages/specs/src`,
`tui` is `apps/tui/src`, `web` is `apps/web/app`.

## 1. Inventory

| Component | State it keeps | Operations | Talks to |
| --- | --- | --- | --- |
| Sync service (`backend/sync/sync.service.ts`, `user-lock.ts`) | seven tables with `version`, `fieldTs`, `deletedAt`, `seq`; `AppliedOp`; `change_seq` | `applyOne` per operation, `changesSince` per request | clients over HTTP; PostgreSQL; announces to the engine hub |
| Operation rules (`apply-op.ts`, `derived-id.ts`, `row-rules.ts`) | none | `applyOp`, `derivedIdRejection`, `rowRejection` | the sync service |
| Pruning (`prune.service.ts`) | `User.prunedThroughSeq` | `pruneUser`, daily | the same rows, under the same lock |
| Schema (`apps/backend/prisma`) | foreign keys with SET NULL and CASCADE | — | fired by pruning |
| Client store (`client-core/store.ts`) | outbox, replica rows, cursor, claims of command ids, owner, session | `enqueue`, `settle`, `drop`, `mergeChanges`, `resetReplica`, `applyResponse`, `claim` | one SQLite file, shared by parallel processes |
| Local view (`overlay.ts`) | none | `overlay` | store |
| Flush (`sync.ts`) | the batch under way | `attempt`, `flush` | store, network |
| Commands (`operations.ts`, `merge.ts`) | none | check, build operations, `submit` them, report verdicts; seed and reconcile after a login | local view, store, flush |
| Screens (`operations.ts`, `labels.ts`, `specs/status.ts`) | none | `due`, `calendarTasks`, `catalog`, `taskDetail` | local view |
| Algorithms (`expand.ts`, `occurrence.ts`, `rank.ts`, `specs/rrule.ts`, `specs/filter.ts`) | none | recurrence, order, filters, derived ids | commands, screens |
| Engine (`engine.ts`, `intent.ts`) | session, steps in line, `running`, `again`, claims | `runSync`, `start`, `signIn`, `signOut`, `write` | flush, user interfaces |
| Client sessions (`auth.ts`, `apps/cli/src/run.ts`, `web/db/client.ts`) | stored tokens, or a cookie jar and an access token per page; the refresh in flight | `current`, `renew`, `adopt`, login, logout | `/auth/*`, the store's write lock, other tabs |
| Server sessions (`backend/auth/session.service.ts`) | a row per sign-in with the generation of its token | `start`, `refresh`, `revoke` | PostgreSQL |
| Server accounts (`backend/auth/accounts.service.ts`, `auth.controller.ts`, `rate-limit.ts`) | users, invitations, reset codes, failure counters | `register`, `login`, `reset`, password changes, `deleteAccount` | PostgreSQL, sessions, engine hub |
| Engine hub (`backend/engine`, `change-feed.ts`) | an engine per user that has a page open | load, dispatch, stream, idle, unload | sync service, change feed |
| Web (`web`) | what the page watches, its stream, drafts | `listen`, `watch`, `receive`, sign-in and out across tabs | engine hub |
| Terminal client (`tui`) | panes, cursors, folds, rows being added, edits not yet answered | keys, publications, answers | its own engine |
| CLI (`apps/cli`) | none | one command per process | a store it shares with others |

What is hard here:

* **Numbers and cursors.**  A client asks for `seq > cursor`.  That is complete
  only if numbers commit in the order they are drawn, if everything visible
  that changes gets a new number, and if a cursor never claims ground the
  replica does not hold.
* **Redelivery.**  An answer can be lost at any point, so operations, commands
  and token renewals are sent again, to a server that has moved on.  They must
  take effect once, and what the user is told must be what happened.
* **Order.**  Operations of several devices arrive in any order; the latest
  edit of each column wins, deleted rows stay deleted and the two-level
  hierarchy survives every order.
* **Shared stores.**  Agents run the CLI in parallel on one file: answers,
  resets and verdicts of different processes land in any order.
* **Commands** predict the versions their own operations will meet, and two
  devices correct the same duplicate names at once without ever seeing each
  other's correction first.
* **Sessions and accounts.**  Refresh tokens rotate on every use; codes and
  invitations work once; a password change ends what came before it.
* **Engines.**  Triggers must not be lost nor overlap, an account must not be
  sent what another queued, and a hub must not close an engine that is heard.
* **Screens that lag.**  Streams, watches and publications travel apart, and a
  key is typed at what was drawn a moment ago.

`PROJECT.json` lists every hazard at its line with the properties that guard it.

## 2. The modules

| Module | Models | Correspondence |
| --- | --- | --- |
| `SyncOps` | the rules for one operation | `outcome` is `applyOne` from the field check to the row check, in the code's order: `forbidden`, `misplaced`, `applyOp` |
| `SyncServer` | the server of one user | `rows`, `applied` (AppliedOp), `seq`, `watermark`, `now`; `applyOne` splits into `Replay`, `RecordRefusal`, `Write` and `RollBack` (a primary key another account holds); `Fail` is a retryable error; `changesSince`; `pruneUser(at)` with the cutoff of a run that began at `at` |
| `PullHistory` | `SyncServer` with what clients may still believe | a history variable, which no step reads: for each row that is not shown any more, the number last drawn when it was |
| `WriteLock` | inside the transactions | one action per statement of `applyOne` and per step of `pruneUser` (two `deleteMany` of occurrences and tasks whose subtasks are gone are one); `Abort` and `PruneAbort` at any of them |
| `Selection` | the WHERE of the store's queries | `where`: the rows of a sequence that are in a set, in order |
| `Replica` | store and overlay | one operator per store transaction |
| `Sync` | processes, stores, network, server | composes `SyncServer` and `Replica`: mint, flush (`StartFlush`, `Send`, `Answered`, `AnsweredGone`, `AnsweredRefused`), report or give up |
| `OpLedger` | abstract: the life of an operation | `Sync` implements it |
| `Ranks`, `Recurrence`, `Filters` | the algorithms | operators; `RuleMeaning` is the reference `Recurrence` is compared with |
| `Screens` | the reading half of `operations.ts` | functions of a local view and today's date |
| `Commands` | the writing half, `merge.ts`, seeding | each command is a function of the view to the operations it queues; `Give` queues a command, `Flush` exchanges and reconciles |
| `Engine` | `engine.ts` over its store | an action is what runs between two awaits; `chain` is `serial`; `ask`, `trig` are the requests it has not answered; `verdict` is the server |
| `SessionService` | the server's sessions and the refreshes under way | a refresh is received, looks the row up (`Lookup`), and rotates it if it still is as read (`Rotate`) or revokes it in a later statement |
| `StoredSession` | terminal clients before `SessionService` | `Renew` to `Granted`, `Invalid`, `Lost` is `tokenSource.renew` inside `withWriteLock`; `Login`/`Save` and `Logout`/`Clear` are the halves of the commands |
| `StoredPromises`, `CookiePromise` | what the two kinds of client promise, and the state it speaks of (`SessionState` for the server's part) | |
| `CookieSession` | browser tabs before `SessionService` | `jar` is the cookie, `tabs` each page's `held` and `inflight`, `flights` the attempts under way, `awaiting` the sign-in or sign-out a page waits for (`SignIn` to `SignedIn`, `SignOut` to `SignedOut`) |
| `Accounts` | an instance's users, invitations, codes, sessions and limiters | a call runs statement by statement where the code has no transaction |
| `EngineHub`, `EventPage` | the hub behind its controller; the pages before it | `conns` are event streams, `posts` watches, as they were asked for; `Serve` is the server, the rest the pages and the network |
| `OutlineTree`, `TaskPanes`, `Terminal` | the terminal client | `OutlineTree` is the pure part (rows, anchors), `TaskPanes` what a publication does to the panes, `Terminal` the keys, the answers and what other devices do |
| `SyncServerProofs`, `WriteLockProofs`, `SyncProofs`, `EngineProofs`, `SessionProofs`, `AccountsProofs`, `HubProofs`, `TerminalProofs` | the theorems (section 4) | |
| `MC*` | small worlds for TLC | |

Two refinements tie the levels together.  `WriteLock` implements `SyncServer`
(`ImplementsServer`): the statements of concurrent transactions add up to atomic
operations, so the modules above may take each as one step.  `Sync` implements
`OpLedger` (`ImplementsLedger`): an operation stays in the outbox until its
verdict is known, is judged at most once, and leaves only as its verdict says.
Both are proved as well as checked, and so is that `Sync` implements `SyncServer`
(`ServerIsImplemented`): what is proved of the server alone holds with its
clients around it.
`Commands` uses the operators of `SyncOps` and `Replica` themselves, so a command
meets the rules the server has.  `Engine` and `Commands` split `submit` between
them: `Commands` says what is queued, `Engine` what becomes of the claim, of the
caller and of the operations when answers are lost.

Abstractions, and what they cost:

* In the server's modules, columns no rule distinguishes are one column `data`;
  in `Commands` they are kept.  Rules about the form of a value and unknown
  tables or columns are left out: they reject one operation before any state is
  read.  A name is a number whose tens are its key.
* One user.  Other accounts appear as `Foreign`, the primary keys they hold, as
  numbers missing from `seq`, and as the second account of `Engine`.
* In `Sync` a `5xx` or a timeout is `GiveUp`: the client stops waiting and the
  request may still be carried out.  The body limit counts operations
  (`MaxBody`) where the code counts bytes.
* In `Commands` an exchange is one step, and a device's operations reach the
  server in one request; losses are `Sync`'s and `Engine`'s.
* In `Engine` a replica is the set of accounts it holds and a command the
  operations that carry its id; cadence and back-off are a timer that may fire
  at any time.  `signIn`, `register` and `signOut` of `createEngine` are modelled
  though both applications sign in another way today.
* `Engine` lets another process on the store settle what a write queued between
  the write's transaction and its flush's reading of the outbox; elsewhere
  another process's login is all that comes in between.  A crash between
  `store.remove` and `unclaim` is not modelled.
* In the sessions a refresh token is its session and generation, an access
  token the time it was signed.  Time is counted in coarse ticks.  A page waits
  for one sign-in or sign-out at a time, and these are served in the step that
  sends them; what can come between is their answer.  A sign-out whose access
  token has ended is a `Refresh` first.
* In `EngineHub` a question to the database is answered within the quarter of an
  hour a token lives.  A stream its page gave up on before the head came may
  open all the same or not.
* In `Terminal` the engine is a stub: an operation applies at most once and is
  answered with ok, no, misuse or retry, at any time and in any order.  Details
  are known at once.  Resizing, the sign-in and help screens, the status line
  and recurring tasks are left out.

## 3. Runs

All bounds are named constants.  Deadlock is not checked because every world
ends: a finite set of operations, commands or keys, bounded numbers and a
bounded clock.  Runs whose connections, sessions or processes are
interchangeable say so (SYMMETRY).  Several runs draw one of a few worlds at the start, so that each
world stays small.

| Run | World | Shows |
| --- | --- | --- |
| `server` | three sets of operations (three tasks; a task, its project and occurrence with two clocks, one beyond the clamp; a task with status, tag and label), any order, any redelivery, pruning, one write refused by the primary key | `HierarchyOK`, `VersionCountsApplied`, `LatestEditWins`, `PullCoversEverything`, `NoResurrection`, `VisibleChangesNumbered` |
| `lock_cross` | two connections put two tasks under each other, delete and prune; every transaction may abort | `ImplementsServer`, `NeverSkipped`, `SomeoneMoves` |
| `sync_devices` | two devices edit and delete one task; a lost exchange whose request is carried out late; a device lags behind pruned deletions and starts over | `NoGhosts`, `SettledEditShown` |
| `sync_shared` | two processes on one store, a second device deletes, pruning causes resets | `ReplicaComplete` |
| `sync_live` | lost exchange, refused batches, pruning, under fairness | `EverythingSettles`, `Converges`, `ImplementsLedger` |
| `commands` | ten pairs of command sets on two devices (tree, columns, views, series, rule, names, filters, statuses, order, seeds), every order | `QuietAlone`, `Predicted`, `Merged`, `DropsAsAsked`, `ScreensAgree`, `ExpandIsRule` |
| `engine` | seven worlds of two writes, a trigger, sign-ins; answers lost, refused or late | `RunsOnce`, `SavedMeansKept`, `NothingLeftQueued`, `TriggerCovered`, `DeliveredToItsOwner`, `EveryRequestAnswered` |
| `sessions` | two processes and a store; two tabs and a jar; six instances with up to four calls | `NotMistakenForTheft`, `OnlySignInStores`, `CookieIsIssued`, `EndedStaysEnded`, `OneOwner`, `SecretsWorkOnce`, `ChangeEndsOlderSessions` |
| `hub` | a page that navigates while its stream breaks, or the server restarts, or requests are lost; a deletion; two tabs on one view | `NoEngineForDeleted`, `ConnectedHears`, `ShowsWhatItWatches` |
| `terminal` | sixteen people, each with a handful of keys, an engine that answers late, and other devices | `AddsOnce`, `RefusalIsLatest`, `ShownIsSelected` |
| `engine_untaken` | the server-side worlds of `engine` | **violates** `SavedMeansTaken` |
| `terminal_delete` | the people of `terminal` | **violates** `DeletesWhatItAsked` |

Why the bounds are enough for what they ask.  Each operation reads and writes one
row and at most that row's references and subtasks, so three tasks contain every
shape the two-level rule can meet.  Two units of the clock and a retention of 0
make any tombstone prunable one tick later.  Two processes on one store, two
tabs and two devices are enough for any pair of answers to cross; a third
participant matters only where noted below.  A command meets at most one other
device's between its check and its exchange, and the ten menus give every
command of `operations.ts` at least once beside one that touches the same rows.
A write is tried twice: the second attempt is what the claim is for.  In the
sessions a tick stands for the shortest time that matters, the grace period is
one or two, and the clock runs past a renewal.  `ExpandIsRule` compares rules of
every frequency with interval, ordinals, month ends, positions, count and until,
from several starts including a leap day, over the days from 1970 to 1973.  In
`terminal` a person has the keys of one pane, since panes share only the task
under the cursor and the publications, and up to three calls under way.

Exemptions stated in the properties, so that they say no more than is true:
`RunsOnce` leaves out an operation answered "could not be applied", whose command
is free to run again and which another flush's copy may still apply.  `Predicted`
leaves out a view or status deleted with another operation queued for it: the
delete cites the version before that operation (`operations.ts`, `deleteView`,
`deleteStatus`).  `DropsAsAsked` asks nothing when the view's filter no longer
takes the card in.  `ConnectedHears` leaves out a
stream that one the page had given up on has overtaken (the same without the
exception, `EveryStreamHears`, does not hold), and `ShowsWhatItWatches` holds where streams
and requests arrive, each in the order they were sent.  `ShownIsSelected` holds while
the views are all lists or all boards (`DetailsShowTheDrawn`, without the condition,
does not hold).  `ChangeEndsOlderSessions` is about sessions whose row was there
when the password was set (of those opened with an earlier password and written
later it does not hold: `EarlierPasswordsOpenNothing`).  The three are the first of
the known weaknesses.

Each property of a passing run has a mutant in `PROJECT.json`: a plausible bug in
a mapped definition (kept beside it, marked "Mutated") under which TLC finds the
property violated.

### Fairness

* `Sync!FairSpec`: a process whose flush can go on goes on, and starts another
  one later: the engine syncs on a cadence, and a CLI on the next command.  The
  server handles what it received.  Losing exchanges, dying, minting, pruning and
  the clock are not fair; that exchanges are not lost for ever is `MaxLost`.
* `Engine!Spec`: some step of the engine, of the server or of a fault that ends a
  request happens while one can.  Every request has a timeout (`protocol.ts`), and
  a promise that is settled is continued.  Pages, sign-ins and triggers are not
  fair.  `EveryRequestAnswered` is checked under it.
* `WriteLock` states no fairness: `SomeoneMoves` says that transactions never wait
  for each other.  That each of them also ends follows where PostgreSQL serves
  the waiters of a lock in the order they came.

### Findings

* **Told it was saved** (`engine_untaken`).  A server-hosted engine whose exchange
  is lost drops the write's operations (`untaken`, `client-core/engine.ts:661`)
  and keeps the claim of the command's id.  The page sends the held write again
  with the same id; `replayed` finds the claim, flushes nothing and answers ok.
  The design lists "A page that claims a change was saved when the server never
  took it" as an anti-goal.
* **Deletes another task** (`terminal_delete`).  `dd` asks about the task under the
  cursor, `y` deletes the task under the cursor: a publication between the two
  moves it.  The same for a status.

### Known weaknesses found while modelling

No run shows these, so they are not listed as findings; each was followed in the
code and most are reached by a model whose property is stated around them.  The
first three are stated in the modules, as formulas no configuration names: TLC
refutes each when it is added to the invariants of its run.

* **Connected to nothing** (`EveryStreamHears`, run `hub`).  `events` awaits the database
  and only then listens for the close of its request
  (`engine.controller.ts:65-88`), so a stream its page has given up on still
  opens.  It takes its tab's slot (`engine-hub.ts:96`) from the stream the page
  reads, which from then on carries pings: the page is connected and hears
  nothing, while `connected` is to mean "what the topics show is the server's"
  (`web/db/client.ts:46`).
* **A login the change does not end** (`EarlierPasswordsOpenNothing`, run `sessions`).
  `login` compares the password and writes its session in a later statement
  (`auth.controller.ts:106-109`).  A password change that completes in between
  revokes every session but that one, which the old password opened
  (`docs/specs/2026-10-01-plan-d-auth-design.md:224` says every session).
* **Details of another task** (`DetailsShowTheDrawn`, run `terminal`).  `pick` drops the
  layout of `b` and changes the view without a select of its own
  (`root.ts:172-179`).  Going from a board to a list and back, the outline is
  drawn with its cursor on one task while the details show, and edit, another.

* Sync: two snapshots asked for by processes that share a store, applied in the
  other order, bring a deleted row back until the next reset (`store.ts:371`;
  hence `NoGhosts` only with one process to a store).  An applied operation sent
  again in a batch the body limit refuses whole is shown as failed
  (`sync.ts:137`).  An answer may be applied to a replica that by then belongs to
  another account (`store.ts:365` checks no owner, `auth.ts:319-321` changes it).
* Commands: no rule keeps one status completing, and none (`docs/specs/
  2026-10-01-views-design.md:76`).  A `moveOccurrence` whose copy is rejected
  has skipped the occurrence all the same, and `setRecurrence` may apply in part
  (`operations.ts:2009`).  A command all of whose operations are refused in a
  later cycle keeps its claim; `store.remove` and `unclaim` are two transactions.
  `catalog`'s comment on `tasks` (1431) says less than its count (1361-1379).
* Engine: an un-pending refusal is thrown when a concurrent sync already settled
  the operations, so the page is told "declined" of a change that was applied; a
  command sent again while the first attempt is under way may be told ok and the
  first refused; claims die with the hub's in-memory replica.
* Sessions: three tabs that load at once can be taken for theft, since the grace
  period covers one generation (`session.service.ts:136`; `auth.ts:231-234` says
  otherwise).  The 401 of a dead cookie clears the cookie a newer sign-in set
  (`auth.controller.ts:149`).  An invitation created by an owner deleted
  meanwhile survives.  Two runs of the owner's reset script leave two codes.
* Hub: two watches may overtake each other and a lost one is repeated only at the
  next open.
* Terminal: the details may also show another task than the cursor's when another
  device changes a saved layout (`root.ts:148-151`); the answer to an earlier edit
  closes whichever editor is open by then (`task-keys.ts:105-111`);
  `board.ts:188-226` mints a new task at every resend; `board.ts:139-163`
  follows a card without a sync, and a key before the publication acts on
  another; `outline.ts:151-158` keeps a row being added, with the anchor of the
  view before, when that view was deleted.

## 4. Proofs

The modules of proofs build on each other: `SyncServerProofs` is the server alone,
what is on it and what was applied in the past, `WriteLockProofs` the
transactions below it, `SyncProofs` the stores, the outboxes and the network around
it.  The others stand for themselves, one for each component.  Each theorem holds for every value of the constants that satisfies
the assumptions of the modules, which TLC evaluates on every run, and the
hypotheses it names:

* `CreatedOnce(Ops)`: a create takes a fresh id, but for rows whose id derives
  from their key (`newId`, `derived-id.ts`).  The runs' operations satisfy it
  (`FreshIds`).
* `Solo`: every process has its store to itself.  Only `NoGhostsOnOwnStore` and
  `EditsStayShown` need it, since on a shared store they do not hold (section 3,
  known weaknesses).
* `Small`: no request is larger than the server takes, `MAX_OPS <= MaxBody`.  Only
  `EditsStayShown` needs it: an applied edit that is sent again in a batch refused
  whole is shown as failed and goes with it (the known weakness at `sync.ts:137`).

### The server

`SyncServerProofs`, from `ConstantsAssumption` and `BoundsAssumption`:

* `TypeCorrect`, `HierarchyCorrect`: `Spec => []` of the types (`ServerTypeOK`, which
  no run repeats) and of the two-level rule.  `HierarchyOK` is not inductive alone: a write that gives a task a parent
  is judged by the rows it can see, and a prune takes rows away.  `IInv` adds the
  types, `Absent` (a row that is not there is `NoRow` in every column) and
  `ReferencesOK` (a reference is to an id of the referenced table, in a column of
  the row's own table).  `WriteHierarchy` splits by the row looked at: the one
  written, the one it refers to, any other.  `PruneHierarchy` needs that only
  tombstones and rows of derived ids are pruned, and a live task's parent is
  neither.
* `VisibleChangesAreNumbered`: an action property.  A write numbers the row it
  writes, and whatever else it hides carries an id derived from that row's;
  `PruneInvisible` shows that pruning changes no row a client could see.

and of a row's whole life, under `CreatedOnce(Ops)`:

* `VersionsCount` (`VersionCountsApplied`), `DeletedStaysDeleted`
  (`NoResurrection`).  Both hang on a pruned row never starting again.  The
  invariant `History` says why: what was ever written to began with a create
  (`Begun`); a row of a derived id keeps its key and is never deleted by itself
  (`Keyed`), and when it is gone, a row it belonged to went first (`Orphaned`), so
  its create is refused for the missing owner.  `Counted` is the count itself.
* `LatestWins` (`LatestEditWins`): no column is older than a settled edit
  (`NoOlder`), and each holds what some applied edit wrote (`Written`); what was
  superseded lost to something that was applied (`Outdone`).
* `PullsTell` and `PullsDeliver`, of a pull from any cursor the server takes, which
  `PullCoversEverything` puts together for what the run remembers.  `PullsTell` is about
  the rows that went: one that was shown at a number is shown still, or hidden
  by a tombstone above that number, which nothing but a pruning past the number
  takes away (`Hidden`, `Hides`); from then on the cursor is refused.  `PullsDeliver`
  (without the hypothesis) is about the rows that are there: no number and no
  watermark is above the last one drawn (`Drawn`).

`WriteLockProofs`, from `OneAccount`, `NumbersAssumption` and `TxnsAssumption`:

* `LockImplementsServer` (`ImplementsServer`).  The invariant: whoever is past the
  lock holds it, and is alone (`Exclusive`); a request was judged by rows nobody
  has touched since (`Sound`), so what it commits is what `SyncServer` would write in
  one step; what the pruning run has deleted is what one run would delete
  (`PruneSound`).  Every statement is then a stutter but `Commit`, which is `Write`
  or `RecordRefusal`, `Abort` after a number was drawn, which is `Fail`,
  `PruneCommit`, which is `pruneUser`, and `Tick`; a run that aborts has changed
  nothing (`PruneAbortStep`).  `SyncServer`'s own invariant comes
  along as an instance of its theorems.
* `NothingSkipped` (`NeverSkipped`): a pull's cursor is at most the last committed
  number, and the next one to commit is above it.

### Stores, network and outboxes

`SyncProofs`, from `ClientsAssumption`, under `CreatedOnce(Ops)`:

* `ReplicasAreComplete` (`ReplicaComplete`): for any number of devices and of
  processes on a store.  A replica is judged by three parts (`Faithful`): it is
  never ahead of the server, what it holds at the server's number is the server's
  row, and up to its cursor it lacks nothing.  An answer under way is `Covering`:
  with what a replica held when it was asked for, it is complete up to its own
  cursor.  The case that makes it hard is a parallel process's reset in between,
  after which the answer must not be taken for whole.  The invariant is `SyncInv`:
  types, `ServerSound` (what is known of the server), `Waiting` (one exchange per
  process) and `Agreed`.
* `ServerIsImplemented`: every step of `Sync` is one of `SyncServer` or leaves the
  server alone.
* `NoGhostsOnOwnStore` (`NoGhosts`, under `Solo`): the replica, and what it will be
  with the answer under way, hold no row the server has deleted below the cursor
  (`Tending`).

and of the outboxes, under `CreatedOnce(Ops)`:

* `OperationsFollowTheLedger` (`ImplementsLedger`).  An outbox holds its store's own
  operations, each once, and failed means refused (`Owned`); what has left was
  judged (`Answerable`); an answer says what was recorded (`Sent`); nobody writes
  another account's row (`Barred`).  Of a batch refused whole the ledger is told
  (`TurnedAway`), and what fails without a verdict was in the one its process
  waits for (`RefuseLedger`, `AnsweredRefusedLedger`); the facts that hold only where
  no batch is refused whole carry `Small` as their condition.  `LedgerStep` goes
  through the actions and `Place` is the refinement mapping.
* `EditsStayShown` (`SettledEditShown`, also under `Solo` and `Small`): an edit that has left its
  outbox is shown or outdone, and so will be one that leaves with the answer
  under way (`EditsShown`, on top of `Tending`, `Outdone` and `NoOlder`).

It begins with the lemmas on `where` all this rests on.  That a recursive
function on the numbers up to a sequence's length exists, and what it selects,
is shown from the least number for which it would fail (well-foundedness of <):
the library's induction theorems cannot be instantiated.  That a finite set of
numbers has a highest one (`SyncServerProofs`) is shown in the same way.

### The engine

`EngineProofs`, from `EngineAssumption`, for any number of writes, attempts, sync
requests and accounts, and for all three kinds of engine.  The theorems are
`Spec => []` of what the run `engine` checks: `EngineTypes`, `CommandsRunOnce`
(`RunsOnce`), `SavedIsKept` (`SavedMeansKept`), `NothingIsLeft`
(`NothingLeftQueued`), `TriggersCovered` (`TriggerCovered`) and
`OperationsReachTheirOwner` (`DeliveredToItsOwner`).  Only the last but one is close
to inductive.  `Inv` is one invariant for all of them:

* The store (`Sound`): what is queued and the bearer are the owner's (`Owned`), a
  request carries operations of the account it is sent for and is answered for
  all of them (`Carried`), nothing is sent while the session is restored
  (`Quiet`).  A run in the middle of which a sync was asked for runs again
  (`Ran`).
* The writes (`WritesOK`): an ask is "sent" exactly while its flush is under way,
  and its operations are in it, or another process settled them before it was
  made (`AsksOK`, `Told`); nothing is queued, sent or recorded that no attempt minted
  (`AllMinted`); an answer says what the server recorded, still when it lands
  (`Judged`); and an entry is listed as failed for a reason (`Failing`, `Fated`).
* `OnceEach`, for `RunsOnce`: of two attempts of a command that queued anything, one
  is spent (refused or doubtful); while one is under way the command is claimed
  and the others are spent; a command that is not claimed has only spent ones.
  So the claim may be given back by `release`, and `untaken` must not do it.
* `Outboxed`, for `SavedMeansKept`: an attempt is only made once all before it were
  answered with something that settles nothing, and a claim has an attempt
  behind it that may still stand.  Hence an attempt with an outbox always finds
  its command free (`ReadyIsFresh`) and queues its operations.
* `OnTheWay`, for `NothingLeftQueued`: without an outbox what is pending is in a
  request of the write that runs; `LineOK`: that write is the first of the serial
  steps, so there is one.

The proof has one lemma per action.  Those in which no write begins or ends are
`Calm` and keep `WritesOK` by `CalmKeepsWrites`; what runs at the end of them
(`runSync`, `endOnce`, `afterReached`, the session's operators) has one lemma each
on what it leaves alone.

### The sessions

`SessionProofs` is about both kinds of client.  For stored sessions, with any
number of processes, requests and sessions: `NoFalseTheft` (`NotMistakenForTheft`) and `SignInStores` (`OnlySignInStores`).  Their
hypotheses (`Assumptions`) are those the run evaluates: times are numbers, both
attempts of a renewal fit in the grace period (`2 * Timeout <= Grace`), the grace
period is shorter than the life of an access token, and so is the time a request
may stall at the server; no process is called as the lock is when nobody holds
it.  The server's expiry times may be anything.  `Inv` says:

* whoever asks holds the lock and has the one open request (`Locked`), requests
  are answered or given up in time (`InTime`), and a session that is not stored yet
  is nobody else's and was not refreshed (`Unstored`);
* and, while at most one answer was lost and no renewal was cut short (`Orderly`):
  the requests of one session carry one token and were sent within `Timeout` of
  each other (`Together`); that token is the session's, or the one before it with
  a rotation no older than `Timeout` (`Recent`); a process's first attempt is the
  only request of its session (`Current`); and between renewals the store holds
  the newest token, so that what is still under way can rotate nothing
  (`Settled`).

Reuse is then met by nobody: a second attempt that is taken `Timeout` after it was
sent is at most two of them after the rotation.  That `Current` holds again when
the next renewal begins is where the access token's life comes in: whatever the
last renewal left behind has gone by then.

For the cookie, with any number of tabs and any times: `SignedOutStays`
(`EndedStaysEnded`; the invariant is `PagesInv`).  A refresh that counts is the one its page waits for
(`Awaited`), a page that was signed out waits for none (`NoneAwaited`), and an `adopt`
leaves its page no refresh that counts (`AdoptStep`).  It needs nothing of the
server: what a late answer does to the shared cookie (section 3, known
weaknesses) it cannot do to the page.

`CookiesAreIssued` (`CookieIsIssued`) is about the server's two statements.  The
invariant (`IssuedInv`) says of every token there is, in the jar, in a request, in
an answer or in the answer to a sign-in, that its session exists and has reached
its generation (`Known`).  No step takes a generation back (`Grows`), for a rotation
is made only of the row as it was read (`ServeIssues`); so what was known stays
known (`KnownStays`).

### Accounts and hub

`AccountsProofs`, for any instance and any calls: `OwnerAlways` (`OneOwner`),
`SecretsOnce` (`SecretsWorkOnce`) and `OlderSessionsEnded`
(`ChangeEndsOlderSessions`), from one invariant and `WorldsOK`: an instance may
start with any rows of the schema's shape whose ids are not those of calls to
come, with codes of its users only and one owner among them.  `OwnerIsOne` needs that a
registration never takes the id of a user (`Born`).  `SecretsWorkOnce` needs that
what was used up cannot come back: its row is marked used or gone, and the call
that made it is done (`Secrets`, `Made`).  `ChangeEndsOlderSessions` needs that the
user's password is from then on the one the change set or a later one, so that
a row written afterwards is not older (`Renewed`), and that what was there before
has been ended once the change is complete (`Lasting`).  The
statements that change no row are handled at once (`Preparations`).

`HubProofs`, for any number of tabs, streams, requests and writes, from
`SavedAssumption` (the bounds are numbers, each version has a saved layout, the
tabs are finitely many) and `WatchesAssumption` (what a page watches, at first and
later, is a view in a layout or nothing):

* `StreamsAreHeard` (`[]ConnectedHears`) and `DeletedStaysUnloaded`
  (`[]NoEngineForDeleted`), both from `Inv`.  `ConnectedHears` is not inductive: a
  stream that opens could take the place of the one its page reads, and an engine
  that goes could leave one behind.  `Inv` adds that a page's stream is its own
  (`Owned`) and the newest of its tab (`Newest`), so that a stream that opens is it or
  one the page had given up on, which marks it as overtaken (`OpenedOn`), and that
  the idle timer runs only while nobody streams (`TimerIdle`); the rest are the
  shapes of the records.  One lemma per group of actions; what only publishes
  events goes through `EventsOnly`.
* `PagesShowWhatTheyWatch` (`[]ShowsWhatItWatches`).  Only a page that has settled
  is promised anything, so the invariant (`Shown`) says what is owed to one that
  has not.  `Fetching`: a loaded engine owes a sync, has the latest data on its way
  or has it.  `Unopened`: a stream still to open holds no event, is none of the
  engine's and has not been heard, which is why the first event a page hears makes
  it say again what it watches.  `Ordered`: where streams arrive and in order none is
  overtaken.  `AllServed`, where requests do so too: in the
  stream a page reads, what follows the last catalog is of the version the engine
  shows (`Fresh`); and once the page has been heard, the last of its requests says
  what it watches and will be let in (`Tells`), or none is left and the engine has
  that watch, and the view of it is in the stream after the last catalog, or shown
  (`Comes`).  The lemmas `ViewsOf`, `AllPublished`, `Adding`, `AddingAnew`, `Told` and
  `Hearing` say what publishing does to a stream and hearing to a page, whatever
  the stream held; `InTurn` says why the request that is answered is the last.

### The terminal

`TerminalProofs`, for any tasks, statuses, views and keys to begin with, any number
of writes and of changes by others, and whatever order the keys, the answers and
the publications come in.  It needs one assumption, `NewTasksAssumption`: a minted
id is new, and not the one that stands for "no task".

* `RowAddsOnce` (`AddsOnce`).  What counts is not the tasks that were created but
  those that still may be (`Possible`: created, or in a call or a lost write that
  is not refused).  `OneRow`: the row waits for one answer at a time, and an add of
  one of its drafts is the call it waits for.  `HeldIsSent`: while an add can be
  sent again, every call of its draft carries the operation the intent holds, so
  a resend under it adds nothing, and if the task is there already, that
  operation made it.  `Final`: a refusal that cannot be sent again leaves nothing
  behind that could add its task.  It is where the answers matter: a recorded
  refusal is final, and "misuse" is said only of what the engine has never taken
  up.  Then each draft but the last cost an edit of the text (`Counted`).
* `RefusalsAreLatest` (`RefusalIsLatest`).  A draft's number names one value
  (`DraftsApart`, `DraftsPast`: numbers are drawn once).  What a field waits for or
  stands refused for was sent, and that operation is held or has its verdict
  (`LatestBacked`, `RefusedBacked`): an answer to an older draft drops from the
  field only an operation whose verdict it brings.

Neither is disturbed by the other forty-odd actions.  That is most of the proof:
`Kept` says of the interface and `EngineStep` of the engine that a step leaves both
alone, there is one lemma for each function of `root.ts` and the panes
(`KeptSync`, `KeptFocus`, `KeptPick` and so on), and `RowFrame` and `FieldFrame` carry
the invariant over.

### What the proofs corrected

* Pruning compared a tombstone with the clock of the moment it is deleted.  The
  code computes the cutoff once, before the first user (`prune.service.ts:68`), so
  that the clock moves on under a run's statements.  Now a run carries its cutoff.
* `OpLedger` let an operation on another account's row be judged only once.  Such
  a write rolls back with nothing recorded and is judged anew each time it is
  sent; the ledger says so.
* `SettledEditShown` counted the key of a derived-id row as an edit.  Such a row
  goes with the row it belongs to, and the replica holds what the server sends.
* `Engine` kept its outbox in the order of its entries, which nothing in it
  depends on (their order is `Replica`'s).  It is a set now, and
  `EngineAssumption` says that there is an account and that an account's name is
  none of the words a store holds for "no account".

### Model-checked only

Liveness (`EverythingSettles`, `Converges`, `EveryRequestAnswered`) and `SomeoneMoves`,
which says ENABLED, are out of the prover's reach.  `Commands` and `Screens` reach
the RECURSIVE operators of `Filters` and are for TLC alone, and with them
`QuietAlone`, `Predicted`, `Merged`, `DropsAsAsked`, `ScreensAgree` and `ExpandIsRule`.
Of the terminal, `ShownIsSelected` needs that the flattened rows of a tree are a
sequence with a length, which is induction over the tree: it is left to TLC.

## 5. Not modelled

* The web's components (`web/components`, `composables`, `utils`, about 5,300
  lines): presentation over the topics.  What they send are the commands of
  `Commands`; their drag and drop computes the anchors `DropsAsAsked` is about.
  A draft held by a component is `intent.ts`, modelled in `Terminal` and `Engine`.
* The CLI's parsing and printing (`apps/cli/src`): each invocation is one command
  of `Commands` in a process of `Sync`.
* Parsing and formatting in `specs` (rules, dates, quick-add), wording, logging.
* `TODOER_TOKEN`, another account's cookie in a second tab (`client.ts`, `own`), and
  a renewal that crosses a sign-in in one engine: they need two accounts in
  `CookieSession` and tokens in `Engine`, beyond what TLC finishes.
* Configuration, health, static files, hashing of passwords and ids, the design
  mockups and the build.
* More than two devices, processes or tabs at once, except where the proofs hold
  for any number.

## 6. Plan

Left for later, in this order: the refinement of `Engine` to an abstract "a command
happens at most once"; two accounts in `CookieSession`.
