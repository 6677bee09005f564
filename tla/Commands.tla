------------------------------ MODULE Commands ------------------------------
(***************************************************************************)
(* What the commands queue: the writing half of operations.ts, with        *)
(* labels.ts and merge.ts.  A device runs a command against its local      *)
(* view, queues its operations in one transaction, and later exchanges     *)
(* them with the server, which judges them by SyncOps; then it reconciles  *)
(* (engine.ts afterReached).  Each command here is a function of the view  *)
(* that returns the operations it queues, as a set of at most one          *)
(* sequence: none when the command refuses.                                *)
(*                                                                         *)
(* An exchange is one step here; its batches, losses and 410s are module   *)
(* Sync's, and what becomes of a command's claim and of its caller is      *)
(* module Engine's.                                                        *)
(***************************************************************************)
EXTENDS Screens

CONSTANTS
  Devices,
  Pool,     \* [Devices -> [TABLES -> Seq(Ids)]]: the ids newId gives a device
  Today,
  MaxClock, \* bound on the timestamps handed out
  Menu,     \* the sets of commands, by device, one of which is given at first
  Synced,   \* rows every replica holds at the start, by menu
  a0        \* the rank of a new row

VARIABLES
  rows,     \* the server's rows of the user
  store,    \* by device
  minted,   \* ids handed out so far
  clock,    \* timestamps handed out so far
  menu,     \* the menu of this behaviour
  todo      \* by device, the commands still to be given

vars == << rows, store, minted, clock, menu, todo >>

----------------------------------------------------------------------------
(* Operations, still without id and timestamp.                             *)

create(i, fields) == [kind |-> "create", id |-> i, fields |-> fields, base |-> 0]
setRow(i, field, value) ==
  [kind |-> "set", id |-> i, fields |-> field :> value, base |-> 0]
deleteOp(s, i) == [kind |-> "delete", id |-> i, fields |-> << >>,
                   base |-> s.rows[i].version]

\* The sets that change something.
changes(v, i, fields) ==
  SelectSeq(fields, LAMBDA f : v[i].val[f[1]] # f[2])
setEach(i, fields) == [k \in DOMAIN fields |-> setRow(i, fields[k][1], fields[k][2])]
setChanged(v, i, fields) == setEach(i, changes(v, i, fields))

concat(seq, f(_)) == FoldLeft(LAMBDA acc, x : acc \o f(x), << >>, seq)

\* newId: the device's k-th unused id of a table.
fresh(d, table, k) ==
  SelectSeq(Pool[d][table], LAMBDA i : i \notin minted)[k]

\* The row confirmed by the server carries a version.
confirmed(s, i) == Exists(s.rows[i])

\* The derived ids: ids.ts.
taskTagId(task, tag) ==
  CHOOSE i \in Ids : TableOf[i] = "task_tag" /\ KeyOf[i].taskId = task
                                             /\ KeyOf[i].tagId = tag
taskOccurrenceId(task, occurrence) ==
  CHOOSE i \in Ids : /\ TableOf[i] = "task_occurrence"
                     /\ KeyOf[i].taskId = task
                     /\ KeyOf[i].occurrence = occurrence

link(task, tag) ==
  create(taskTagId(task, tag), "taskId" :> task @@ "tagId" :> tag)

markOp(task, occurrence, state) ==
  create(taskOccurrenceId(task, occurrence),
         "taskId" :> task @@ "occurrence" :> occurrence @@ "state" :> state)

\* A command that refuses queues nothing.
unless(problem, ops) == IF problem THEN {} ELSE {ops}

----------------------------------------------------------------------------
(* Labels: a name matches by name key, the lowest id among duplicates wins *)
(* and an unknown one becomes a create.  One name of each key is wanted.   *)

resolveLabels(d, v, project, tags) ==
  LET found(table, name) == named(v, notDeleted(v, table), name)
      unknown == sorted({g \in tags : found("tag", g) = {}}, byId)
      newProject == project # Null /\ found("project", project) = {}
  IN [projectId |-> IF project = Null THEN Null
                    ELSE IF newProject THEN fresh(d, "project", 1)
                    ELSE winner(found("project", project)),
      tagIds |-> {winner(found("tag", g)) : g \in tags \ ToSet(unknown)}
                   \cup {fresh(d, "tag", k) : k \in DOMAIN unknown},
      creates |->
        (IF newProject
         THEN << create(fresh(d, "project", 1),
                        "name" :> project @@ "rank" :> a0) >> ELSE << >>)
        \o [k \in DOMAIN unknown |->
              create(fresh(d, "tag", k), "name" :> unknown[k])]]

\* add, from the quick-add text or the form: c.rule is Null or a recurrence
\* already validated, c.parent Null or the parent of a new subtask.
add(d, s, v, c) ==
  LET t == fresh(d, "task", 1)
      labels == resolveLabels(d, v, c.project, c.tags)
      inherited == IF labels.projectId # Null \/ c.parent = Null
                   THEN labels.projectId ELSE v[c.parent].val["projectId"]
      fields == "title" :> c.title @@ "priority" :> c.priority @@ "rank" :> a0
             @@ (IF c.parent = Null THEN << >> ELSE "parentId" :> c.parent)
             @@ (IF inherited = Null THEN << >> ELSE "projectId" :> inherited)
             @@ (IF c.rule = Null THEN << >>
                 ELSE "rrule" :> c.rule.rule @@ "dtstart" :> c.rule.dtstart)
  IN  unless(/\ c.parent # Null
             /\ \/ c.rule # Null
                \/ c.parent \notin liveTasks(v)
                \/ v[c.parent].val["parentId"] # Null,
             labels.creates \o << create(t, fields) >>
               \o concat(sorted(labels.tagIds, byId), LAMBDA g : << link(t, g) >>))

----------------------------------------------------------------------------
(* Marks.                                                                  *)

MARK == [done |-> "done", skip |-> "skipped", undo |-> "open"]

\* The date a mark applies to, a set of at most one.
pickOccurrence(v, command, task, on) ==
  LET recurrence == recurrenceOf(v, task)
      closed == closedOccurrences(v, task)
  IN  IF recurrence = Null
      THEN {o \in {Null} : on = Null /\ (command = "undo" => closed # {})}
      ELSE IF on # Null THEN {o \in {on} : isOccurrence(recurrence, o)}
      ELSE IF command = "undo" THEN latest(closed)
      ELSE currentOccurrence(recurrence, closed, Today)

seedOps(d) ==
  << create(fresh(d, "status", 1),
            "name" :> 10 @@ "rank" :> a0 @@ "completing" :> FALSE),
     create(fresh(d, "status", 2),
            "name" :> 20 @@ "rank" :> << a0[1], 1 >> @@ "completing" :> FALSE),
     create(fresh(d, "status", 3),
            "name" :> 30 @@ "rank" :> << a0[1], 2 >> @@ "completing" :> TRUE) >>

\* The status that goes with a mark: done moves the task to the completing
\* one, seeding the statuses first when there are none; undo clears it.
statusOps(d, v, command, task) ==
  LET live == notDeleted(v, "status")
      own == v[task].val["statusId"]
      target == IF live = {} THEN fresh(d, "status", 3)
                ELSE completingStatus(v, live)
  IN CASE command = "skip" -> << >>
       [] command = "undo" ->
            IF own = Null THEN << >> ELSE << setRow(task, "statusId", Null) >>
       [] command = "done" ->
            (IF live = {} THEN seedOps(d) ELSE << >>)
              \o IF target = Null \/ own = target THEN << >>
                 ELSE << setRow(task, "statusId", target) >>

\* The mark a command makes; `again' says the occurrence is already so.
planMark(v, command, task, on) ==
  {[occurrence |-> o, again |-> command # "undo" /\ closedAt(v, task, o),
    op |-> markOp(task, o, MARK[command])] :
     o \in {p \in pickOccurrence(v, command, task, on) :
              command # "undo" /\ closedAt(v, task, p)
                => stateOf(v, task, p) = MARK[command]}}

mark(d, s, v, c) ==
  IF c.task \notin liveTasks(v) THEN {}
  ELSE {IF plan.again THEN << >>
        ELSE statusOps(d, v, c.mark, c.task) \o << plan.op >> :
          plan \in planMark(v, c.mark, c.task, c.on)}

----------------------------------------------------------------------------
(* Edits and moves of a task.                                              *)

\* c.fields are the plain fields changed, in their order; c.project and
\* c.tags are there when they change.
editTask(d, s, v, c) ==
  LET wanted(f) == IF f \in DOMAIN c THEN c[f] ELSE Null
      labels == resolveLabels(d, v, wanted("project"),
                              IF "tags" \in DOMAIN c THEN c.tags ELSE {})
      fields == c.fields \o IF "project" \in DOMAIN c
                            THEN << << "projectId", labels.projectId >> >>
                            ELSE << >>
      mine == linksOf(v, c.task)
      attached == {l \in mine : isAttached(v, l)}
      carried == {v[l].val["tagId"] : l \in attached}
      missing == sorted(labels.tagIds \ carried, byId)
      extra == sorted({l \in attached : v[l].val["tagId"] \notin labels.tagIds},
                      byId)
      reattach(g) == IF taskTagId(c.task, g) \in mine
                        /\ ~Tombstoned(v[taskTagId(c.task, g)])
                     THEN << setRow(taskTagId(c.task, g), "attached", TRUE) >>
                     ELSE << link(c.task, g) >>
      linkOps == IF "tags" \notin DOMAIN c THEN << >>
                 ELSE concat(missing, reattach)
                        \o concat(extra, LAMBDA l :
                                    << setRow(l, "attached", FALSE) >>)
  IN  unless(\/ c.task \notin liveTasks(v)
             \/ /\ recurrenceOf(v, c.task) # Null
                /\ \E k \in DOMAIN c.fields :
                     c.fields[k][1] = "scheduledOn" /\ c.fields[k][2] # Null,
             labels.creates \o setChanged(v, c.task, fields) \o linkOps)

\* The cards of a drop: the view's list, or the column of its board.
viewOf(v, view) ==
  IF view = Null THEN ALL_OPEN
  ELSE [filter |-> v[view].val["filter"], sort |-> v[view].val["sort"],
        layout |-> v[view].val["layout"]]
inColumn(c, shown) ==
  SelectSeq(shown, LAMBDA l :
    IF "status" \in DOMAIN c THEN l.statusId = c.status
    ELSE \E k \in DOMAIN shown : /\ shown[k].id = c.task
                                 /\ shown[k].statusId = l.statusId)
idsOf(shown) == [k \in DOMAIN shown |-> shown[k].id]
cardsOf(v, c, view) ==
  IF view.layout = "kanban"
  THEN idsOf(inColumn(c, boardTasks(v, Today, view, 7)))
  ELSE idsOf(viewTasks(v, Today, view))
cards(v, c) == cardsOf(v, c, viewOf(v, c.view))

\* Those it is placed among.
besides(shown, task) == SelectSeq(shown, LAMBDA i : i # task)
container(v, c) == besides(cards(v, c), c.task)

manual(v, view) ==
  \/ view = Null
  \/ view \in notDeleted(v, "view") /\ v[view].val["sort"] = "manual"

ranksOf(v, ordered) == [i \in ToSet(ordered) |-> v[i].val["rank"]]
gapAfter(ordered, after) ==
  IF after = Null THEN 0 ELSE CHOOSE k \in DOMAIN ordered : ordered[k] = after

\* Mutated: the drop is ranked as if no two cards had the same rank.
dropAmongApart(v, c, ordered) ==
  IF c.after # Null /\ c.after \notin ToSet(ordered) THEN {}
  ELSE LET gap == gapAfter(ordered, c.after)
           at(k) == IF k \in DOMAIN ordered THEN v[ordered[k]].val["rank"] ELSE Open
       IN  {<< [id |-> c.task,
                rank |-> IF tied(at(gap), at(gap + 1)) /\ gap > 0
                         THEN rankBetween(at(gap), Open)
                         ELSE rankBetween(at(gap), at(gap + 1))] >>}

dropAmong(v, c, ordered) ==
  IF c.after # Null /\ c.after \notin ToSet(ordered) THEN {}
  ELSE {rankWrites(ordered, ranksOf(v, ordered), c.task, gapAfter(ordered, c.after))}

\* The rank writes of a drop after a card, Null for first; none when the card
\* has left the list since.
dropRanks(v, c) ==
  IF ~manual(v, c.view) THEN {<< >>} ELSE dropAmong(v, c, container(v, c))

\* A card moved: into the completing column is done, out of it is undo.
intoDone(v, live, status) ==
  status # Null /\ (live = {} \/ status = completingStatus(v, live))

\* What the column change writes; c.status is the column dropped on.
columnOps(d, v, c, done, closed) ==
  {concat(plan, LAMBDA p : (IF done THEN statusOps(d, v, "done", c.task) ELSE << >>)
                             \o << p.op >>)
     \o (IF done \/ v[c.task].val["statusId"] = c.status THEN << >>
         ELSE << setRow(c.task, "statusId", c.status) >>) :
     plan \in IF done # closed
              THEN {<< p >> : p \in planMark(v, IF done THEN "done" ELSE "undo",
                                             c.task, Null)}
              ELSE {<< >>}}

moveTask(d, s, v, c) ==
  LET live == notDeleted(v, "status")
      rankOps(ranks) == concat(ranks, LAMBDA r : << setRow(r.id, "rank", r.rank) >>)
  IN  IF \/ c.task \notin liveTasks(v)
         \/ "status" \in DOMAIN c /\ c.status # Null /\ live # {} /\ c.status \notin live
      THEN {}
      ELSE {column \o rankOps(ranks) :
              column \in IF "status" \notin DOMAIN c THEN {<< >>}
                         ELSE columnOps(d, v, c, intoDone(v, live, c.status),
                                        recurrenceOf(v, c.task) = Null
                                          /\ closedAt(v, c.task, Null)),
              ranks \in IF "after" \in DOMAIN c THEN dropRanks(v, c) ELSE {<< >>}}

----------------------------------------------------------------------------
(* Views and statuses.                                                     *)

taken(v, table, i, name) == named(v, notDeleted(v, table) \ {i}, name) # {}
gone(v, i) == Tombstoned(v[i])

\* Create the view c.view, or write what changed of it.
saveView(d, s, v, c) ==
  LET i == IF c.view = Null THEN fresh(d, "view", 1) ELSE c.view
      views == listViews(v)
      last == IF views = << >> THEN Open ELSE v[views[Len(views)]].val["rank"]
      written == << << "name", c.name >>, << "layout", c.layout >>,
                    << "sort", c.sort >>, << "filter", c.filter >> >>
  IN  unless(gone(v, i) \/ taken(v, "view", i, c.name) \/ filterProblem(c.filter),
             IF Exists(v[i]) THEN setChanged(v, i, written)
             ELSE << create(i, "name" :> c.name @@ "layout" :> c.layout
                            @@ "sort" :> c.sort @@ "filter" :> c.filter
                            @@ "rank" :> rankBetween(last, Open)) >>)

\* A delete's base version is the version the server sent.
syncedRow(s, v, table, i) == i \in notDeleted(v, table) /\ confirmed(s, i)

deleteView(d, s, v, c) ==
  unless(~syncedRow(s, v, "view", c.view), << deleteOp(s, c.view) >>)

\* Create a status after the last, or rename it or put it after another.
saveStatus(d, s, v, c) ==
  LET i == IF c.status = Null THEN fresh(d, "status", 1) ELSE c.status
      new == ~Exists(v[i])
      ordered == inRankOrder(v, notDeleted(v, "status") \ {i})
      named_ == "name" \in DOMAIN c
      placed == new \/ "after" \in DOMAIN c
      anchor == IF "after" \in DOMAIN c THEN c.after
                ELSE IF ordered = << >> THEN Null ELSE ordered[Len(ordered)]
      gap == IF anchor = Null THEN 0
             ELSE CHOOSE k \in DOMAIN ordered : ordered[k] = anchor
      ranks == IF ~placed THEN << >>
               ELSE rankWrites(ordered, [x \in ToSet(ordered) |-> v[x].val["rank"]],
                               i, gap)
      mine == CHOOSE r \in ToSet(ranks) : r.id = i
      others == SelectSeq(ranks, LAMBDA r : ~(new /\ r.id = i))
  IN  unless(\/ gone(v, i)
             \/ named_ /\ taken(v, "status", i, c.name)
             \/ new /\ ~named_
             \/ placed /\ anchor # Null /\ anchor \notin ToSet(ordered),
             (IF new
              THEN << create(i, "name" :> c.name @@ "rank" :> mine.rank
                                @@ "completing" :> FALSE) >>
              ELSE IF named_ THEN setChanged(v, i, << << "name", c.name >> >>)
              ELSE << >>)
             \o [k \in DOMAIN others |-> setRow(others[k].id, "rank", others[k].rank)])

setCompleting(d, s, v, c) ==
  LET live == notDeleted(v, "status")
      others == sorted({x \in live \ {c.status} : completing(v, x)}, byId)
  IN  unless(c.status \notin live,
             [k \in DOMAIN others |-> setRow(others[k], "completing", FALSE)]
               \o setChanged(v, c.status, << << "completing", TRUE >> >>))

\* Its tasks lose the status first.  Neither the completing status nor the
\* last open one goes.
deleteStatus(d, s, v, c) ==
  LET open == {x \in notDeleted(v, "status") : ~completing(v, x)}
      tasks == sorted({t \in liveTasks(v) : v[t].val["statusId"] = c.status}, byId)
  IN  unless(\/ ~syncedRow(s, v, "status", c.status)
             \/ completing(v, c.status)
             \/ Cardinality(open) < 2,
             [k \in DOMAIN tasks |-> setRow(tasks[k], "statusId", Null)]
               \o << deleteOp(s, c.status) >>)

----------------------------------------------------------------------------
(* Occurrences moved, tasks deleted, rules and parents set.                *)

\* What a destructive command may cite by version: nothing queued may raise
\* the server's version past the one sent.
settledTask(s, v, t) ==
  /\ t \in liveTasks(v) /\ confirmed(s, t)
  /\ \A op \in ToSet(pending(s)) : op.id # t

\* One occurrence moved to c.to: a one-off copy, then skip.
moveOccurrence(d, s, v, c) ==
  LET copy == fresh(d, "task", 1)
      t == c.task
      kept == {f \in {"projectId", "statusId"} : v[t].val[f] # Null}
      fields == [f \in kept |-> v[t].val[f]]
             @@ "title" :> v[t].val["title"] @@ "priority" :> v[t].val["priority"]
             @@ "rank" :> v[t].val["rank"] @@ "scheduledOn" :> c.to
             @@ "originTaskId" :> t @@ "originOccurrence" :> c.occurrence
      plans == {p \in planMark(v, "skip", t, c.occurrence) : ~p.again}
  IN  IF \/ t \notin liveTasks(v) \/ recurrenceOf(v, t) = Null
         \/ c.to = c.occurrence
      THEN {}
      ELSE {<< create(copy, fields) >>
              \o concat(sorted(attachedTags(v, t), byId),
                        LAMBDA g : << link(copy, g) >>)
              \o << p.op >> : p \in plans}

\* The copy goes and its occurrence opens again, if it is still skipped.
undoMove(d, s, v, c) ==
  LET origin == v[c.task].val["originTaskId"]
      occurrence == v[c.task].val["originOccurrence"]
  IN  unless(\/ ~settledTask(s, v, c.task)
             \/ origin = Null \/ occurrence = Null
             \/ LiveSubtasks(v, c.task) # {}
             \/ origin \notin liveTasks(v),
             << deleteOp(s, c.task) >>
               \o IF stateOf(v, origin, occurrence) = "skipped"
                  THEN << markOp(origin, occurrence, "open") >> ELSE << >>)

\* The live subtasks go first, each on the version the server sent.
deleteTask(d, s, v, c) ==
  LET subtasks == LiveSubtasks(v, c.task)
  IN  unless(\E t \in subtasks \cup {c.task} : ~settledTask(s, v, t),
             concat(sorted(subtasks, byId) \o << c.task >>,
                    LAMBDA t : << deleteOp(s, t) >>))

\* Mutated: every operation cites the version the row has now.
basedAtOnce(ops, version) == [k \in DOMAIN ops |-> [ops[k] EXCEPT !.base = version]]

\* Operation k cites the version its predecessor leaves.
based(ops, version) ==
  [k \in DOMAIN ops |-> [ops[k] EXCEPT !.base = version + k - 1]]

\* What changes: the rule goes and the task keeps the date it is at, or the
\* task gets a rule for its date.
rewritten(v, c, recurrence) ==
  IF c.rule = Null
  THEN IF recurrence = Null THEN << >>
       ELSE << << "rrule", Null >>, << "dtstart", Null >>,
               << "scheduledOn", theOne(currentFor(v, c.task, recurrence, Today)) >> >>
  ELSE IF recurrence = Null
  THEN << << "dtstart", c.rule.dtstart >>, << "rrule", c.rule.rule >>,
          << "scheduledOn", Null >> >>
  ELSE << << "rrule", c.rule.rule >>, << "dtstart", c.rule.dtstart >> >>

setRecurrence(d, s, v, c) ==
  {based(ops, s.rows[c.task].version) :
     ops \in {o \in {setChanged(v, c.task, rewritten(v, c, recurrenceOf(v, c.task)))} :
       /\ c.task \in liveTasks(v)
       /\ v[c.task].val["parentId"] = Null
       /\ c.rule # Null => /\ v[c.task].val["originTaskId"] = Null
                          /\ ruleAccepted(c.rule.rule, c.rule.dtstart)
       /\ o # << >> => settledTask(s, v, c.task)}}

\* Indent or outdent: refuses what the server would.
reparent(d, s, v, c) ==
  unless(\/ c.task \notin liveTasks(v)
         \/ /\ c.parent # Null
            /\ \/ c.parent = c.task \/ c.parent \notin liveTasks(v)
               \/ v[c.parent].val["parentId"] # Null
               \/ LiveSubtasks(v, c.task) # {}
               \/ v[c.task].val["rrule"] # Null,
         setChanged(v, c.task, << << "parentId", c.parent >> >>))

----------------------------------------------------------------------------
(* The merge of duplicate names: only rows the server confirmed take part, *)
(* and the lowest id wins.                                                 *)

LabelTables == << "tag", "project", "status" >>

\* The losers among some live rows, each with the row that takes its place.
losersOf(v, live) ==
  {p \in {<< i, winner(named(v, live, v[i].val["name"])) >> : i \in live} : p[1] # p[2]}
mergedInto(s, v, table) == losersOf(v, {i \in notDeleted(v, table) : confirmed(s, i)})

\* Mutated: what is named after a tombstone is left alone.
lateTombstonesNone(s, v, table) == {}

\* Each tombstone a live row is named after, with that row.
namesakes(v, live, tombs) ==
  {<< i, winner(named(v, live, v[i].val["name"])) >> :
     i \in {j \in tombs : named(v, live, v[j].val["name"]) # {}}}
lateTombstones(s, v, table) ==
  namesakes(v, {i \in notDeleted(v, table) : confirmed(s, i)},
            {i \in rowsOf(v, table) : Tombstoned(v[i]) /\ confirmed(s, i)})

\* The links of a tag that live tasks carry.
movingLinks(v, from) ==
  {l \in rowsOf(v, "task_tag") : /\ v[l].val["tagId"] = from /\ isAttached(v, l)
                                /\ v[l].val["taskId"] \in liveTasks(v)}
remade(v, l, to) ==
  create(taskTagId(v[l].val["taskId"], to),
         "taskId" :> v[l].val["taskId"] @@ "tagId" :> to @@ "attached" :> TRUE)

\* Mutated: leaves the old links attached.
moveLinksAgain(v, from, to) ==
  concat(sorted(movingLinks(v, from), byId), LAMBDA l : << remade(v, l, to) >>)

\* Re-makes the links of a losing tag on the winner and detaches them.
moveLinks(v, from, to) ==
  concat(sorted(movingLinks(v, from), byId),
         LAMBDA l : << remade(v, l, to), setRow(l, "attached", FALSE) >>)

\* Moves the live tasks of a losing project or status.
moveRefs(v, field, from, to) ==
  LET moving == sorted({t \in liveTasks(v) : v[t].val[field] = from}, byId)
  IN  [k \in DOMAIN moving |-> setRow(moving[k], field, to)]

moves(v, table, pair) ==
  CASE table = "tag" -> moveLinks(v, pair[1], pair[2])
    [] table = "project" -> moveRefs(v, "projectId", pair[1], pair[2])
    [] table = "status" -> moveRefs(v, "statusId", pair[1], pair[2])

byWinner(a, b) == a[2] < b[2] \/ (a[2] = b[2] /\ a[1] < b[1])
byLoser(a, b) == a[1] < b[1]

\* What is queued for the losers and for the late tombstones of each table.
losing(s, v, table) ==
  concat(sorted(mergedInto(s, v, table), byWinner),
         LAMBDA pair : moves(v, table, pair) \o << deleteOp(s, pair[1]) >>)
trailing(s, v, table) ==
  concat(sorted(lateTombstones(s, v, table), byLoser),
         LAMBDA pair : moves(v, table, pair))

\* The views' filters follow, but one this client cannot read.
replacing(pairs) == [i \in {p[1] : p \in pairs} |-> (CHOOSE p \in pairs : p[1] = i)[2]]
filtersAfter(v, replaced) ==
  concat(sorted({w \in notDeleted(v, "view") : ~filterProblem(v[w].val["filter"])}, byId),
         LAMBDA w : setChanged(v, w,
           << << "filter", replaceIds(v[w].val["filter"], replaced) >> >>))

planMerge(s, v) ==
  concat(LabelTables, LAMBDA table : losing(s, v, table))
    \o concat(LabelTables, LAMBDA table : trailing(s, v, table))
    \o filtersAfter(v, replacing(UNION {mergedInto(s, v, t) \cup lateTombstones(s, v, t) :
                                          t \in ToSet(LabelTables)}))

----------------------------------------------------------------------------
(* Running a command, and an exchange followed by the reconciliation.      *)

Build(d, c) ==
  LET s == store[d]
      v == overlay(s)
  IN CASE c.do = "add" -> add(d, s, v, c)
       [] c.do = "mark" -> mark(d, s, v, c)
       [] c.do = "edit" -> editTask(d, s, v, c)
       [] c.do = "move" -> moveTask(d, s, v, c)
       [] c.do = "saveView" -> saveView(d, s, v, c)
       [] c.do = "deleteView" -> deleteView(d, s, v, c)
       [] c.do = "saveStatus" -> saveStatus(d, s, v, c)
       [] c.do = "setCompleting" -> setCompleting(d, s, v, c)
       [] c.do = "deleteStatus" -> deleteStatus(d, s, v, c)
       [] c.do = "moveOccurrence" -> moveOccurrence(d, s, v, c)
       [] c.do = "undoMove" -> undoMove(d, s, v, c)
       [] c.do = "deleteTask" -> deleteTask(d, s, v, c)
       [] c.do = "setRecurrence" -> setRecurrence(d, s, v, c)
       [] c.do = "reparent" -> reparent(d, s, v, c)

\* Every operation of a command has its timestamp, and an id of its own.
stamped(ops) == [k \in DOMAIN ops |-> ops[k] @@ [ts |-> clock, opId |-> << clock, k >>]]

queued(s, ops) == FoldLeft(enqueue, s, ops)

created(ops) == {op.id : op \in {o \in ToSet(ops) : o.kind = "create" /\ ~IsDerived(o.id)}}

\* The server judges the pending operations in order.
judge(acc, op) ==
  LET o == outcome(acc.rows, op, clock)
  IN  [rows |-> IF o = "applied"
                THEN [acc.rows EXCEPT ![op.id] = appliedRow(op, @, clock)]
                ELSE acc.rows,
       verdicts |-> acc.verdicts @@ op :> o]

exchanged(s, held) == FoldLeft(judge, [rows |-> held, verdicts |-> << >>], pending(s))

\* A failed delete, or a failed set of a status, of a row already deleted.
moot(s, e) ==
  /\ e.status = "failed"
  /\ e.op.kind = "delete" \/ (e.op.kind = "set" /\ "statusId" \in DOMAIN e.op.fields)
  /\ Exists(s.rows[e.op.id]) /\ Tombstoned(s.rows[e.op.id])

withoutMoot(s) == [s EXCEPT !.outbox = SelectSeq(@, LAMBDA e : ~moot(s, e))]

\* What a device queues of itself once it has reached the server: the merge
\* of duplicate names, and the statuses when there is none.
seedsFor(d, v) == IF notDeleted(v, "status") = {} THEN seedOps(d) ELSE << >>
withSeeds(d, s, merge) == merge \o seedsFor(d, overlay(queued(s, stamped(merge))))
reconcile(d, s) == queued(s, stamped(withSeeds(d, s, planMerge(s, overlay(s)))))

Give(d, c) ==
  /\ c \in todo[d]
  /\ clock < MaxClock
  /\ \E ops \in Build(d, c) :
       /\ store' = [store EXCEPT ![d] = queued(@, stamped(ops))]
       /\ minted' = minted \cup created(ops)
  /\ clock' = clock + 1
  /\ todo' = [todo EXCEPT ![d] = @ \ {c}]
  /\ UNCHANGED << rows, menu >>

\* The server's rows and the device's store after an exchange.
answered(d, s, ex) ==
  [rows |-> ex.rows,
   store |-> reconcile(d, withoutMoot([settle(s, ex.verdicts, {})
                                         EXCEPT !.rows = ex.rows]))]
reached(d, s, held) == answered(d, s, exchanged(s, held))

Flush(d) ==
  \E after \in {reached(d, store[d], rows)} :
    /\ clock < MaxClock
    /\ rows' = after.rows
    /\ store' = [store EXCEPT ![d] = after.store]
    /\ minted' = minted \cup created(pending(after.store))
    /\ clock' = IF pending(store[d]) \o pending(after.store) = << >>
                THEN clock ELSE clock + 1
    /\ UNCHANGED << menu, todo >>

Init ==
  /\ menu \in DOMAIN Menu
  /\ rows = Synced[menu]
  /\ store = [d \in Devices |-> [EmptyStore EXCEPT !.rows = Synced[menu]]]
  /\ minted = {i \in Ids : Exists(rows[i])}
  /\ clock = 2
  /\ todo = Menu[menu]

Next == \E d \in Devices : Flush(d) \/ \E c \in todo[d] : Give(d, c)

Spec == Init /\ [][Next]_vars

----------------------------------------------------------------------------
(* Properties.                                                             *)

level(d) == store[d].rows = rows
queueOf(d) == pending(store[d])
settledAll == \A d \in Devices : level(d) /\ queueOf(d) = << >>

\* A command of several operations (operations.ts 540-2117) queues what the
\* server accepts whole: on the rows the device last saw, no operation of the
\* outbox is refused, and what the server then holds is what the device
\* shows.  (A view or status deleted with another operation queued for it is
\* the exception: its delete cites a version that operation outdates.)
outdated(d) ==
  {op.id : op \in {o \in ToSet(queueOf(d)) :
     /\ o.kind = "delete" /\ TableOf[o.id] \in {"view", "status"}
     /\ \E p \in ToSet(queueOf(d)) : p # o /\ p.id = o.id}}

Predicted ==
  \A d \in Devices : level(d) /\ queueOf(d) # << >> =>
    LET ex == exchanged(store[d], rows)
        v == overlay(store[d])
    IN  /\ \A op \in DOMAIN ex.verdicts :
             ex.verdicts[op] \in Refusals => op.id \in outdated(d)
        /\ \A i \in Ids \ outdated(d) :
             /\ Exists(v[i]) = Exists(ex.rows[i])
             /\ Exists(v[i]) => /\ v[i].val = ex.rows[i].val
                                /\ Tombstoned(v[i]) = Tombstoned(ex.rows[i])

\* The merge of duplicate names loses nothing (merge.ts, reconcile): once all
\* is exchanged, live names are unique, every task that was given a project
\* or a tag by name carries a live one of that name, and no view's filter
\* names a row that lost.  It ends: devices that correct the same names at once
\* do not go on correcting each other, so the clock's bound is never met.
Merged ==
  /\ clock < MaxClock
  /\ settledAll =>
    LET given == UNION {Menu[menu][d] \ todo[d] : d \in Devices}
        unique(table) ==
          \A i, j \in notDeleted(rows, table) :
            nameKey(rows[i].val["name"]) = nameKey(rows[j].val["name"]) => i = j
        relabelled(t) == \E c \in given : c.do = "edit" /\ c.task = t
        kept(t, c) ==
          /\ c.project # Null =>
               /\ projectOf(rows, t) # Null
               /\ nameKey(rows[projectOf(rows, t)].val["name"]) = nameKey(c.project)
          /\ {nameKey(g) : g \in c.tags} \subseteq {nameKey(g) : g \in tagNames(rows, t)}
    IN  /\ \A table \in ToSet(LabelTables) : unique(table)
        /\ \A c \in given : \A t \in liveTasks(rows) :
             \/ c.do = "add" /\ rows[t].val["title"] = c.title /\ ~relabelled(t)
             \/ c.do = "edit" /\ c.task = t
             => kept(t, c)
        /\ \A d \in Devices : planMerge(store[d], rows) = << >>

\* A device left alone is quiet after two exchanges: what it corrects after
\* the first leaves nothing to correct after the second (merge.ts planMerge:
\* what it re-makes or moves it must not find again).
QuietAlone ==
  \A d \in Devices : level(d) /\ queueOf(d) # << >> =>
    \A one \in {reached(d, store[d], rows)} :
      pending(reached(d, one.store, one.rows).store) = << >>

\* A drop puts the card where it was dropped, tied and missing ranks
\* included (rank.ts, dropRanks): the list in the new order is the old one
\* without the card and with it after the card it was dropped on, unless the
\* view's filter no longer takes the card in.
DropsAsAsked ==
  [][\A d \in Devices : \A c \in todo[d] \ todo'[d] :
       c.do = "move" /\ "after" \in DOMAIN c =>
         LET before == container(overlay(store[d]), c)
             after == cards(overlay(store'[d]), c)
             at == IF c.after = Null THEN 0
                   ELSE CHOOSE k \in DOMAIN before : before[k] = c.after
         IN  manual(overlay(store[d]), c.view) /\ c.task \in ToSet(after) =>
               after = InsertAt(before, at + 1, c.task)]_vars

\* The screens agree on each device, whatever is queued (operations.ts due,
\* calendarTasks, catalog): the calendar has exactly the listed occurrence of
\* a dated task as its first open one; a closed card stands in the completing
\* column and an open one in another, when there is one; and a status counts
\* the one-off tasks that stand in its column.
ScreensAgree ==
  \A d \in Devices :
    \A v \in {overlay(store[d])} :
      LET open == due(v, Today, {})
          cards_ == due(v, Today, liveTasks(v))
          placed == {p \in calendarTasks(v, Today, ALL_OPEN, Today - 9, Today + 9, 7) :
                       p.kind = "scheduled" /\ ~p.closed}
          columns == notDeleted(v, "status")
      IN  /\ \A l \in open :
               LET mine == {p.date : p \in {q \in placed : q.taskId = l.id}}
               IN  IF l.scheduledOn = Null THEN mine = {}
                   ELSE mine # {} /\ Min(mine) = l.scheduledOn
          /\ \A p \in placed : \E l \in open : l.id = p.taskId
          /\ \A l \in cards_ :
               columns # {} =>
                 /\ l.statusId \in columns
                 /\ l.closed /\ completingStatus(v, columns) # Null
                      => completing(v, l.statusId)
                 /\ ~l.closed /\ (\E x \in columns : ~completing(v, x))
                      => ~completing(v, l.statusId)
          /\ \A x \in columns : (\A l \in cards_ : ~l.recurring) =>
               statusCount(v, x) = Cardinality({l \in cards_ : l.statusId = x})
=============================================================================
