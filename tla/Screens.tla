------------------------------ MODULE Screens ------------------------------
(***************************************************************************)
(* What the screens show of a local view: the reading half of              *)
(* operations.ts, with labels.ts and status.ts.  A view is what overlay    *)
(* returns; everything here is a function of it and of today's date.       *)
(*                                                                         *)
(* Ids are numbers, ordered as the source orders ids.  A name is a number  *)
(* whose tens are its key, so two spellings of one name differ by their    *)
(* units.  Dates are day numbers; a rule is a record of module Recurrence. *)
(***************************************************************************)
EXTENDS Replica, Ranks, Recurrence, Filters

CONSTANTS
  DayOfTs(_)   \* the day of a timestamp

----------------------------------------------------------------------------
(* Rows and labels.                                                        *)

idsIn == [table \in TABLES |-> {i \in Ids : TableOf[i] = table}]
rowsOf(v, table) == {i \in idsIn[table] : Exists(v[i])}
notDeleted(v, table) == {i \in rowsOf(v, table) : ~Tombstoned(v[i])}

\* A set in the order lt, as a sequence.
sorted(S, lt(_, _)) ==
  [k \in 1 .. Cardinality(S) |->
     CHOOSE x \in S : Cardinality({y \in S : lt(y, x)}) = k - 1]

byId(a, b) == a < b
byRank(v, a, b) ==
  \/ Below(v[a].val["rank"], v[b].val["rank"])
  \/ v[a].val["rank"] = v[b].val["rank"] /\ a < b
inRankOrder(v, S) == sorted(S, LAMBDA a, b : byRank(v, a, b))

nameKey(name) == name \div 10
winner(S) == Min(S)
named(v, pool, name) ==
  {i \in pool : nameKey(v[i].val["name"]) = nameKey(name)}

isAttached(v, link) == ~Tombstoned(v[link]) /\ v[link].val["attached"] # FALSE
linksOf(v, task) == {l \in rowsOf(v, "task_tag") : v[l].val["taskId"] = task}

\* The live tags attached to a task, and their names: duplicates show once,
\* as the lowest id spells them.
attachedTags(v, task) ==
  {v[l].val["tagId"] : l \in {k \in linksOf(v, task) : isAttached(v, k)}}
    \cap notDeleted(v, "tag")
tagNames(v, task) ==
  LET tags == attachedTags(v, task)
  IN  {v[winner(named(v, tags, v[g].val["name"]))].val["name"] : g \in tags}

projectOf(v, task) ==
  IF v[task].val["projectId"] \in notDeleted(v, "project")
  THEN v[task].val["projectId"] ELSE Null

----------------------------------------------------------------------------
(* Recurrence and marks.                                                   *)

CLOSED == {"done", "skipped"}

marksOf(v, task) ==
  {m \in rowsOf(v, "task_occurrence") : v[m].val["taskId"] = task}
stateOf(v, task, occurrence) ==
  LET found == {m \in marksOf(v, task) : v[m].val["occurrence"] = occurrence}
  IN  IF found = {} THEN Null ELSE v[Min(found)].val["state"]
closedAt(v, task, occurrence) == stateOf(v, task, occurrence) \in CLOSED
closedOccurrences(v, task) ==
  {v[m].val["occurrence"] :
     m \in {k \in marksOf(v, task) : v[k].val["state"] \in CLOSED}}

\* The latest of some occurrences, the one without a date before any other;
\* none of none.
latest(occurrences) ==
  IF occurrences \ {Null} = {} THEN occurrences
  ELSE {Max(occurrences \ {Null})}

\* A task's rule, or its parent's: a subtask lives on its parent's dates.
recurrenceOf(v, task) ==
  LET parent == v[task].val["parentId"]
      owner == IF parent # Null /\ Exists(v[parent]) THEN v[parent] ELSE v[task]
  IN  IF owner.val["rrule"] = Null THEN Null
      ELSE [rule |-> owner.val["rrule"], dtstart |-> owner.val["dtstart"]]

\* The occurrence a task is at, a set of at most one.
currentFor(v, task, recurrence, today) ==
  IF recurrence = Null
  THEN IF closedAt(v, task, Null) THEN {} ELSE {Null}
  ELSE currentOccurrence(recurrence, closedOccurrences(v, task), today)
currentOf(v, task, today) == currentFor(v, task, recurrenceOf(v, task), today)

theOne(S) == IF S = {} THEN Null ELSE CHOOSE x \in S : TRUE

----------------------------------------------------------------------------
(* Statuses: status.ts.                                                    *)

completing(v, s) == v[s].val["completing"] = TRUE

completingStatus(v, statuses) ==
  LET some == {s \in statuses : completing(v, s)}
  IN  IF some = {} THEN Null ELSE Min(some)

firstStatus(v, statuses) ==
  LET open == {s \in statuses : ~completing(v, s)}
      order == inRankOrder(v, IF open = {} THEN statuses ELSE open)
  IN  IF statuses = {} THEN Null ELSE order[1]

\* Mutated: an open task may stand in the completing column.
displayStatusOwn(v, statusId, closed) ==
  LET statuses == notDeleted(v, "status")
  IN  IF closed /\ completingStatus(v, statuses) # Null
      THEN completingStatus(v, statuses)
      ELSE IF statusId \in statuses THEN statusId
      ELSE firstStatus(v, statuses)

\* The column: a closed occurrence stands in the completing one, an open one
\* never does.
displayStatus(v, statusId, closed) ==
  LET statuses == notDeleted(v, "status")
  IN  IF closed /\ completingStatus(v, statuses) # Null
      THEN completingStatus(v, statuses)
      ELSE IF statusId \in statuses /\ ~completing(v, statusId) THEN statusId
      ELSE firstStatus(v, statuses)

----------------------------------------------------------------------------
(* Lists and boards.                                                       *)

liveTasks(v) == notDeleted(v, "task")

\* A listed task: its occurrence, whether it is closed, and the facts a
\* filter reads.
listedAt(v, task, at, recurring) ==
  [id |-> task, occurrence |-> theOne(at), closed |-> at = {},
   tagIds |-> attachedTags(v, task), projectId |-> projectOf(v, task),
   statusId |-> displayStatus(v, v[task].val["statusId"], at = {}),
   priority |-> v[task].val["priority"],
   scheduledOn |-> IF recurring THEN theOne(at) ELSE v[task].val["scheduledOn"],
   dueOn |-> v[task].val["dueOn"],
   recurring |-> recurring]
listed(v, task, today) ==
  listedAt(v, task, currentOf(v, task, today), recurrenceOf(v, task) # Null)

\* One-off tasks closed on or after a day.  A mark without a timestamp is
\* still in the outbox and counts as now.
recentlyClosed(v, since) ==
  {t \in liveTasks(v) :
     /\ recurrenceOf(v, t) = Null
     /\ \E m \in marksOf(v, t) :
          /\ v[m].val["occurrence"] = Null
          /\ LET ts == v[m].fieldTs["state"]
             IN  ts = 0 \/ DayOfTs(ts) >= since}

\* Each live task once, at its current occurrence, and the closed ones of
\* `also'.
due(v, today, also) ==
  {l \in {listed(v, t, today) : t \in liveTasks(v)} : l.closed => l.id \in also}

\* The view `list' names: the lowest id among duplicates.
pickView(v, name) ==
  LET found == named(v, notDeleted(v, "view"), name)
  IN  IF found = {} THEN {}
      ELSE {w \in {winner(found)} : ~filterProblem(v[w].val["filter"])}

\* A sort key, absent ones last; ties by rank, then id.
sortKey(sort, l) ==
  CASE sort = "priority" -> l.priority
    [] sort = "due" -> l.dueOn
    [] sort = "scheduled" -> l.scheduledOn
    [] OTHER -> 0

sortFor(v, sort, rows) ==
  LET before(a, b) ==
        LET x == sortKey(sort, a)
            y == sortKey(sort, b)
        IN  IF x = y THEN byRank(v, a.id, b.id)
            ELSE y = Null \/ (x # Null /\ x < y)
  IN  sorted(rows, before)

\* `list', with label filters by name key; view Null for none.
listTasks(v, today, tags, project, view) ==
  {l \in due(v, today, {}) :
     /\ \A g \in tags : \E n \in tagNames(v, l.id) : nameKey(n) = g
     /\ project # Null => /\ l.projectId # Null
                          /\ nameKey(v[l.projectId].val["name"]) = project
     /\ view # Null => matches(v[view].val["filter"], l, today)}

listViews(v) == inRankOrder(v, notDeleted(v, "view"))

\* The built-in views.
Range0 == [from |-> << >>, to |-> << "day", 0 >>]
Range1 == [from |-> << "day", 1 >>, to |-> << >>]
InRange(range) ==
  [is |-> "or", of |-> << [is |-> "scheduled", range |-> range],
                          [is |-> "due", range |-> range] >>]
ALL_OPEN == [filter |-> [is |-> "and", of |-> << >>], sort |-> "manual",
             layout |-> "list"]
TODAY_OPEN == [filter |-> InRange(Range0), sort |-> "due", layout |-> "list"]
UPCOMING_OPEN == [filter |-> InRange(Range1), sort |-> "due", layout |-> "list"]
projectView(p) == [filter |-> [is |-> "project", id |-> p], sort |-> "manual",
                   layout |-> "list"]
tagView(g) == [filter |-> [is |-> "tag", id |-> g], sort |-> "manual",
               layout |-> "list"]

\* The navigation's entries.  A key is <<"all">>, <<"today">>, <<"upcoming">>,
\* or <<table, id>> of a live project or tag.
builtInView(v, key) ==
  CASE key[1] = "all" -> ALL_OPEN
    [] key[1] = "today" -> TODAY_OPEN
    [] key[1] = "upcoming" -> UPCOMING_OPEN
    [] key[1] = "project" -> projectView(key[2])
    [] key[1] = "tag" -> tagView(key[2])

navKeys(v) ==
  {<<"all">>, <<"today">>, <<"upcoming">>}
    \cup {<<"project", p>> : p \in notDeleted(v, "project")}
    \cup {<<"tag", g>> : g \in notDeleted(v, "tag")}

\* A parent's live subtasks: closed at its current occurrence, never for an
\* ended series.
childrenOf(v, row) ==
  LET ended == v[row.id].val["rrule"] # Null /\ row.occurrence = Null
      kids == {t \in liveTasks(v) : v[t].val["parentId"] = row.id}
  IN  [k \in 1 .. Cardinality(kids) |->
         LET t == inRankOrder(v, kids)[k]
         IN  [id |-> t,
              closed |-> ~ended /\ closedAt(v, t, row.occurrence)]]

\* The rows of a view, in its order.
selected(v, today, view, also) ==
  sortFor(v, view.sort,
          {l \in due(v, today, also) : matches(view.filter, l, today)})

viewTasks(v, today, view) == selected(v, today, view, {})
boardTasks(v, today, view, closedDays) ==
  selected(v, today, view, recentlyClosed(v, today - closedDays))

\* One task for the drawer: any live one, an ended series too.
taskDetails(v, today, task) ==
  {[row |-> l, subtasks |-> childrenOf(v, l)] :
     l \in {m \in due(v, today, liveTasks(v)) : m.id = task}}

----------------------------------------------------------------------------
(* The calendar.                                                           *)

placement(task, date, kind, occurrence, closed) ==
  [taskId |-> task, date |-> date, kind |-> kind, occurrence |-> occurrence,
   closed |-> closed]

\* A done occurrence of a series is shown while its mark is recent.
placementsOf(v, l, from, to, since) ==
  LET recurrence == recurrenceOf(v, l.id)
      inSpan(d) == d # Null /\ d >= from /\ d <= to
      marked(o) == {m \in marksOf(v, l.id) : v[m].val["occurrence"] = o}
      doneRecently(o) == \E m \in marked(o) :
                           LET ts == v[m].fieldTs["state"]
                           IN  ts = 0 \/ DayOfTs(ts) >= since
      onDue(closed) == {placement(l.id, d, "due", Null, closed) :
                          d \in {e \in {l.dueOn} : inSpan(e)}}
  IN  IF recurrence = Null
      THEN {placement(l.id, d, "scheduled", Null, l.closed) :
              d \in {e \in {v[l.id].val["scheduledOn"]} : inSpan(e)}}
             \cup onDue(l.closed)
      ELSE {placement(l.id, d, "scheduled", d, stateOf(v, l.id, d) = "done") :
              d \in {e \in expand(recurrence.rule, recurrence.dtstart, from, to) :
                       CASE stateOf(v, l.id, e) = "skipped" -> FALSE
                         [] stateOf(v, l.id, e) = "done" -> doneRecently(e)
                         [] OTHER -> l.occurrence # Null /\ e >= l.occurrence}}
             \cup onDue(FALSE)

calendarTasks(v, today, view, from, to, closedDays) ==
  UNION {placementsOf(v, l, from, to, today - closedDays) :
           l \in ToSet(boardTasks(v, today, view, closedDays))}

----------------------------------------------------------------------------
(* The catalog: how many tasks each status and each navigation entry has.  *)

statusCount(v, s) ==
  Cardinality({t \in liveTasks(v) :
                 displayStatus(v, v[t].val["statusId"],
                               /\ recurrenceOf(v, t) = Null
                               /\ closedAt(v, t, Null)) = s})

navCount(v, today, key) ==
  Cardinality({l \in due(v, today, {}) :
                 matches(builtInView(v, key).filter, l, today)})
=============================================================================
