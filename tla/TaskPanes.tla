------------------------------ MODULE TaskPanes ------------------------------
(***************************************************************************)
(* What the terminal app holds and how a publication moves it: the two     *)
(* layouts of the view and the task under the cursor of each, the keys     *)
(* both share, and the writes the engine has not answered. A publication   *)
(* of the current view follows every change of the replica.                *)
(***************************************************************************)
EXTENDS OutlineTree

CONSTANTS
  Matching,   \* the tasks whose title contains the filter's text
  Listed,     \* the tasks a saved view lists; All lists every open one
  NewTasks    \* the ids that can be minted, in order

\* The ids are uuids: each is new (main.ts:45).
NewTasksAssumption ==
  /\ NewTasks \in Seq(ToSet(NewTasks))
  /\ \A j, k \in DOMAIN NewTasks : NewTasks[j] = NewTasks[k] => j = k
  /\ NoTask \notin ToSet(NewTasks)
ASSUME NewTasksAssumption

All == "all"
NoLayout == "no layout"

VARIABLES
  keyboard,  \* the keys this person uses and the width of the terminal
  topics,    \* tasks, the views as published, statuses, nav, layouts
  engine,    \* calls waiting for an answer, and what became of each operation
  ui         \* the process: outline, board, keys, root, details, statuses

vars == <<keyboard, topics, engine, ui>>

----------------------------------------------------------------------------
(* The engine as the screens see it: an operation applies at most once,    *)
(* whatever was answered; a refusal that is not retryable is final.        *)

\* The column of a closed task is the completing one, if there is one; an open
\* task of no status, or of one that is deleted or completing, shows in the
\* first that is not.
completingIn(statuses) == SelectSeq(statuses, LAMBDA s : s.completing)
firstIn(statuses, open) ==
  IF statuses = << >> THEN NoTask ELSE IF open = << >> THEN statuses[1].id ELSE open[1].id
openIn(statuses) == SelectSeq(statuses, LAMBDA s : ~s.completing)
columnOf(statuses, i) ==
  IF i.closed /\ completingIn(statuses) # << >> THEN completingIn(statuses)[1].id
  ELSE IF i.column \in idsIn(openIn(statuses)) THEN i.column
  ELSE firstIn(statuses, openIn(statuses))
inColumns(statuses, listed) ==
  [k \in DOMAIN listed |-> [listed[k] EXCEPT !.column = columnOf(statuses, listed[k])]]
\* A board lists the closed tasks of All open too. The engine goes by the
\* layout that is saved: the root's watch does not name the one of `b`.
kanban(t, key) == t.layout[key] = "kanban"
listed(t, key, board) ==
  SelectSeq(t.tasks, LAMBDA i : IF key = All THEN board \/ ~i.closed ELSE i.id \in Listed)
contents(t, key, board) == inColumns(t.statuses, listed(t, key, board))
\* The catalog comes first: a deleted view is left before it is published.
publish(t, u) ==
  IF u.current \notin ToSet(t.nav) THEN t
  ELSE [t EXCEPT !.views[u.current] = contents(t, u.current, kanban(t, u.current)),
                 !.seen = @ \cup {u.current}]

CanSend == engine.sent < keyboard.calls   \* bound: writes sent
\* A write and who waits for its answer.
request(kind, task, to, from) == [kind |-> kind, task |-> task, to |-> to, from |-> from]
numbered(e, r, op) ==
  [kind |-> r.kind, task |-> r.task, to |-> r.to, from |-> r.from, n |-> e.sent + 1, op |-> op]
under_op(e, r, op) ==
  [e EXCEPT !.calls = @ \cup {numbered(e, r, op)}, !.sent = @ + 1]
write(e, r) == under_op(e, r, e.sent + 1)

kidsOf(t, task) == {i \in ToSet(t.tasks) : i.parent = task}
\* What a drop may name: the cards of the column, or the tasks of the list.
\* (A person who writes stays in one view.)
container(t, task, column) ==
  {i.id : i \in {x \in ToSet(contents(t, ui.current, kanban(t, ui.current))) :
                  x.id # task /\ (kanban(t, ui.current) => x.column = column)}}
anchored(t, task, column, after) ==
  after \in {First, AtEnd} \cup container(t, task, column)
named(c) == c.from[1] = "status"
legal(t, c) ==
  CASE c.kind = "add" ->
         c.to # NoTask => /\ c.to \in idsIn(t.tasks)
                          /\ itemOf(t.tasks, c.to).parent = NoTask
    [] c.kind = "reparent" ->
         /\ c.task \in idsIn(t.tasks)
         /\ c.to # NoTask => /\ c.to \in idsIn(t.tasks) \ {c.task}
                             /\ itemOf(t.tasks, c.to).parent = NoTask
                             /\ kidsOf(t, c.task) = {}
    [] c.kind = "column" ->
         c.task \in idsIn(t.tasks) /\ (t.statuses # << >> => c.to \in idsIn(t.statuses))
    [] c.kind = "place" ->
         /\ c.task \in idsIn(t.tasks)
         /\ anchored(t, c.task, columnOf(t.statuses, itemOf(t.tasks, c.task)), c.to)
    [] c.kind = "card" ->
         /\ c.task \in idsIn(t.tasks)
         /\ c.to[1] # NoTask /\ t.statuses # << >> => c.to[1] \in idsIn(t.statuses)
         /\ anchored(t, c.task, IF c.to[1] # NoTask THEN c.to[1]
                                ELSE columnOf(t.statuses, itemOf(t.tasks, c.task)), c.to[2])
    [] c.kind = "saveStatus" ->
         /\ named(c) \/ c.task \in idsIn(t.statuses)
         /\ c.to \in {First, AtEnd} \cup (idsIn(t.statuses) \ {c.task})
    [] c.kind = "completing" -> c.task \in idsIn(t.statuses)
    [] c.kind = "deleteStatus" ->
         c.task \in idsIn(openIn(t.statuses)) /\ Len(openIn(t.statuses)) > 1
    [] OTHER -> c.task \in idsIn(t.tasks)

replaced(t, task, item) ==
  [t EXCEPT !.tasks = [k \in DOMAIN @ |-> IF @[k].id = task THEN item ELSE @[k]]]
without(t, gone) == [t EXCEPT !.tasks = SelectSeq(@, LAMBDA i : i.id \notin gone)]

\* Done puts a task in the completing status, and makes the three statuses of
\* an account that has none; an undo takes it out of its status.
Seeded == << [id |-> "inbox", completing |-> FALSE], [id |-> "doing", completing |-> FALSE],
             [id |-> "done", completing |-> TRUE] >>
seeded(t) == IF t.statuses = << >> THEN [t EXCEPT !.statuses = Seeded] ELSE t
done(t, item) ==
  replaced(t, item.id, [item EXCEPT !.closed = TRUE,
    !.column = IF completingIn(t.statuses) = << >> THEN @ ELSE completingIn(t.statuses)[1].id])
marked(t, item, closed) ==
  IF closed THEN done(seeded(t), item)
  ELSE replaced(t, item.id, [item EXCEPT !.closed = FALSE, !.column = NoTask])
\* A card put in the completing column is done, one taken out of it is not; a
\* task already closed stays as it is.
moved(t, item, status) ==
  IF t.statuses = << >> \/ status \in idsIn(completingIn(t.statuses))
  THEN IF item.closed THEN t ELSE marked(t, item, TRUE)
  ELSE replaced(t, item.id, [item EXCEPT !.closed = FALSE, !.column = status])
placedAfter(t, task, after) ==
  IF after = AtEnd THEN t ELSE [t EXCEPT !.tasks = dropped(@, itemOf(@, task), after)]

\* A status moved after another, or a new one there or last.
statusSaved(statuses, id, after) ==
  LET new == [id |-> id, completing |-> FALSE]
      status == IF id \in idsIn(statuses) THEN itemOf(statuses, id) ELSE new
  IN  IF after # AtEnd THEN dropped(statuses, status, after)
      ELSE IF id \in idsIn(statuses) THEN statuses ELSE Append(statuses, new)

\* What a legal write makes of the replica: the places a sorted view may give
\* a new task are all tried.
effects(t, c) ==
  LET item == itemOf(t.tasks, c.task)
  IN  CASE c.kind = "add" ->
             {[t EXCEPT !.tasks = InsertAt(@, k,
                [id |-> c.task, parent |-> c.to, closed |-> FALSE,
                 column |-> NoTask, title |-> "v1", rule |-> "v1"])] :
              k \in IF t.sort = "manual" THEN {1} ELSE 1 .. Len(t.tasks) + 1}
        [] c.kind = "place" -> {placedAfter(t, c.task, c.to)}
        [] c.kind = "card" ->
             {placedAfter(IF c.to[1] = NoTask THEN t ELSE moved(t, item, c.to[1]),
                          c.task, c.to[2])}
        [] c.kind = "column" -> {moved(t, item, c.to)}
        [] c.kind = "mark" -> {marked(t, item, c.to)}
        [] c.kind = "reparent" -> {replaced(t, c.task, [item EXCEPT !.parent = c.to])}
        [] c.kind = "title" -> {replaced(t, c.task, [item EXCEPT !.title = c.to])}
        [] c.kind = "rule" -> {replaced(t, c.task, [item EXCEPT !.rule = c.to])}
        [] c.kind = "delete" ->
             {without(t, {c.task} \cup {i.id : i \in kidsOf(t, c.task)})}
        [] c.kind = "saveStatus" -> {[t EXCEPT !.statuses = statusSaved(@, c.task, c.to)]}
        [] c.kind = "completing" ->
             {[t EXCEPT !.statuses =
                 [k \in DOMAIN @ |-> [@[k] EXCEPT !.completing = t.statuses[k].id = c.task]]]}
        [] c.kind = "deleteStatus" ->
             {[t EXCEPT !.statuses = SelectSeq(@, LAMBDA s : s.id # c.task),
                        !.tasks = [k \in DOMAIN @ |->
                          IF @[k].column = c.task THEN [@[k] EXCEPT !.column = NoTask]
                          ELSE @[k]]]}

----------------------------------------------------------------------------
(* The outline.                                                            *)

\* The task being added stands in its add's row until it is placed.
savingTask(u) == {a.draft : a \in {b \in u.outline.adding : b.saving}}
itemsShown(u, t) == SelectSeq(t.views[u.current], LAMBDA i : i.id \notin savingTask(u))
hits(u, items) == {i \in ToSet(items) : i.id \in Matching \cup u.outline.pinned}
withParents(found) == {i.id : i \in found} \cup {i.parent : i \in found}
filtered(items, kept) == SelectSeq(items, LAMBDA i : i.id \in kept)
queried(u, items) ==
  IF u.outline.filtered THEN filtered(items, withParents(hits(u, items))) ELSE items
rowsOf(u, t) == outline(queried(u, itemsShown(u, t)), u.outline.folded)

clamp(at, length) == IF length < at THEN IF length = 0 THEN 1 ELSE length
                     ELSE IF at < 1 THEN 1 ELSE at
\* On its task, else at the same place.
cursorAt(u, rows, found) == IF found > 0 THEN found ELSE clamp(u.outline.cursor.at, Len(rows))
resolve(u, rows) == cursorAt(u, rows, placeOf(rows, u.outline.cursor.id))
taskAt(rows, at) == IF rows = << >> THEN NoTask ELSE rows[at].id
cursorTask(u, rows) == taskAt(rows, resolve(u, rows))
outlineTask(u, t) == cursorTask(u, rowsOf(u, t))

\* The cursor pinned to the task under it.
cursorOn(at, id) == [at |-> at, id |-> id]
pinnedIn(u, rows) ==
  IF rows = << >> THEN u
  ELSE [u EXCEPT !.outline.cursor = cursorOn(resolve(u, rows), cursorTask(u, rows))]
pinned(u, t) == pinnedIn(u, rowsOf(u, t))

\* The row the add takes.
placeAmong(a, u, rows) ==
  insertRow(rows, IF placeOf(rows, a.anchor) > 0 THEN placeOf(rows, a.anchor)
                  ELSE resolve(u, rows), a.sub)
place(a, u, t) == placeAmong(a, u, rowsOf(u, t))

----------------------------------------------------------------------------
(* The board.                                                              *)

followed(u, cards) ==
  IF placeOf(cards, u.board.follow) > 0 THEN placeOf(cards, u.board.follow)
  ELSE clamp(u.board.row, Len(cards))
inCards(u, cols, c, cards) ==
  [cols |-> cols, c |-> c, cards |-> cards, r |-> followed(u, cards)]
inCols(u, cols, c) == inCards(u, cols, c, cols[c].items)
among(u, cols) == inCols(u, cols, clamp(u.board.col, Len(cols)))
where(u, t) == among(u, columns(t.views[u.current], t.statuses))
cardTask(w) == taskAt(w.cards, w.r)
boardTask(u, t) == cardTask(where(u, t))

\* The cursor on a task's card, if the board shows it.
revealIn(u, task, cols, at) ==
  IF at = {} THEN u ELSE [u EXCEPT !.board.col = CHOOSE c \in at : TRUE, !.board.follow = task]
columnsWith(cols, task) == {c \in DOMAIN cols : task \in idsIn(cols[c].items)}
revealAmong(u, task, cols) == revealIn(u, task, cols, columnsWith(cols, task))
reveal(u, t, task) == revealAmong(u, task, columns(t.views[u.current], t.statuses))

----------------------------------------------------------------------------
(* The root: which layout is drawn, and the task its details show.         *)

list(u, t) ==
  LET saved == IF u.current \in t.seen THEN t.layout[u.current] ELSE "list"
  IN  IF (IF u.layout = NoLayout THEN saved ELSE u.layout) = "kanban" THEN "board" ELSE "outline"
show(u, task) ==
  IF task = u.task THEN u ELSE [u EXCEPT !.task = task, !.detail.open = {}]
\* A focused detail pane stays on its task.
select(u, t) == IF u.focus = "detail" THEN u ELSE show(u, u.selected[list(u, t)])

\* Both panes look for their cursor; the details follow a change of either.
selected(u, t) == [outline |-> outlineTask(u, t), board |-> boardTask(u, t)]
seen(u, t, now) == IF now = u.selected THEN u ELSE select([u EXCEPT !.selected = now], t)
look(u, t) == seen(u, t, selected(u, t))
sync(u, t) == look(IF u.outline.cursor.id = NoTask THEN pinned(u, t) ELSE u, t)

\* Mutated: leaving the details does not look at the cursor.
setFocusOnly(u, t, next) == [u EXCEPT !.focus = next]
\* The board's cursor follows a card the details moved.
leftDetails(u, t) ==
  select(IF list(u, t) = "board" /\ u.task # NoTask THEN sync(reveal(u, t, u.task), t) ELSE u, t)
setFocus(u, t, next) ==
  IF u.focus = "detail" /\ next # "detail" THEN leftDetails([u EXCEPT !.focus = next], t)
  ELSE [u EXCEPT !.focus = next]

\* A focused sidebar, or the details, drawn over the list.
wide(u, t) == list(u, t) = "board" /\ keyboard.mode # "one"
overlay(u, t) ==
  \/ keyboard.mode # "three" /\ u.focus = "sidebar"
  \/ u.focus = "detail" /\ (keyboard.mode = "one" \/ wide(u, t))
closeOverlay(u, t) ==
  IF ~overlay(u, t) \/ u.detail.open # {} THEN u ELSE setFocus(u, t, "outline")

\* Another view: both panes start at its top.
start(u) == [u EXCEPT !.outline.filtered = FALSE, !.outline.pinned = {},
                      !.outline.cursor = [at |-> 1, id |-> NoTask],
                      !.board.col = 1, !.board.row = 1, !.board.follow = NoTask]
pick(u, t, key) ==
  closeOverlay(sync(start([u EXCEPT !.current = key, !.layout = NoLayout]), t), t)

\* What a publication does; a deleted view falls back to All open.
fallback(u, t) == IF u.current # All /\ u.current \notin ToSet(t.nav) THEN pick(u, t, All) ELSE u
published(u, t) == fallback(sync(u, t), t)

\* A line, a picker or a question is open in the focused pane.
keysHold(u, p) == u.keys[p].open # {} \/ u.keys[p].pending \/ u.keys[p].deleting
addHolds(u, p) == IF p = "outline" THEN u.outline.adding # {} ELSE u.board.adding # {}
holding(u, t) ==
  \/ u.focus = "outline" /\ (keysHold(u, list(u, t)) \/ addHolds(u, list(u, t)))
  \/ u.focus = "detail" /\ u.detail.open # {}

----------------------------------------------------------------------------
Press(key) == key \in keyboard.keys
Drawn == ui.screen = "none" /\ ~ui.search
ToPane(p) == Drawn /\ ui.focus = "outline" /\ list(ui, topics) = p
Free == Drawn /\ ~holding(ui, topics)
\* Enter goes to the details below 90 columns and on the board.
EnterIsDetails == keyboard.mode = "one" \/ list(ui, topics) = "board"

\* The pane's handler ends by looking for its cursor.
Shows(u) == ui' = sync(u, topics) /\ UNCHANGED <<keyboard, topics>>
Quietly == UNCHANGED engine
Writes(r) == CanSend /\ engine' = write(engine, r)
==============================================================================
