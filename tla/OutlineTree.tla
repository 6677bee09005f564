----------------------------- MODULE OutlineTree -----------------------------
(***************************************************************************)
(* The terminal's two layouts of a view: the outline nests the listed      *)
(* subtasks under their parents, the board puts one column per status. A   *)
(* view is the sequence of its items in the engine's order; a drop names   *)
(* the item it goes after.                                                 *)
(***************************************************************************)
EXTENDS Integers, Sequences, FiniteSets, SequencesExt

NoTask == "no task"     \* null, as a task
First == "first"        \* null, as an anchor: before every other item
AtEnd == "at the end"   \* undefined: already at that end

idsIn(items) == {items[k].id : k \in DOMAIN items}
placeOf(items, task) == SelectInSeq(items, LAMBDA i : i.id = task)
itemOf(items, task) == items[placeOf(items, task)]

\* The listed parent, if any.
parentOf(items, i) == IF i.parent \in idsIn(items) THEN i.parent ELSE NoTask
under(items, parent) == SelectSeq(items, LAMBDA i : parentOf(items, i) = parent)

\* Each top-level item with its listed subtasks, unless it is folded.
rowOf(i, depth, children) ==
  [id |-> i.id, parent |-> i.parent, closed |-> i.closed, depth |-> depth,
   children |-> children]
group(i, mine, folded) ==
  << rowOf(i, 0, Len(mine)) >> \o
    IF mine # << >> /\ i.id \in folded THEN << >>
    ELSE [k \in DOMAIN mine |-> rowOf(mine[k], 1, 0)]
groups(items, tops, folded) ==
  FlattenSeq([k \in DOMAIN tops |-> group(tops[k], under(items, tops[k].id), folded)])
outline(items, folded) == groups(items, under(items, NoTask), folded)

\* The nearest top-level row above, for a top-level row.
indentTarget(rows, at) ==
  LET above == {k \in 1 .. at - 1 : rows[k].depth = 0}
  IN  IF rows[at].depth # 0 \/ above = {} THEN NoTask
      ELSE rows[CHOOSE k \in above : \A j \in above : j <= k].id

\* The anchor of one place up or down a sequence of items.
beside(row, k, step) ==
  IF step = -1 THEN IF k <= 1 THEN AtEnd ELSE IF k = 2 THEN First ELSE row[k - 2].id
  ELSE IF k = Len(row) THEN AtEnd ELSE row[k + 1].id
moveAfterIn(column, task, step) ==
  IF task \notin idsIn(column) THEN AtEnd ELSE beside(column, placeOf(column, task), step)
moveAfter(items, task, step) ==
  IF task \notin idsIn(items) THEN AtEnd
  ELSE moveAfterIn(under(items, parentOf(items, itemOf(items, task))), task, step)

\* Where a new task, or a new subtask, goes when it is added from an item.
topOf(items, i) == IF parentOf(items, i) = NoTask THEN i.id ELSE parentOf(items, i)
lastOr(kids, top) == IF kids = << >> THEN top ELSE kids[Len(kids)].id
insertAfter(items, at, sub) ==
  LET top == topOf(items, itemOf(items, at))
  IN  IF ~sub THEN top ELSE IF top # at THEN at ELSE lastOr(under(items, top), top)

\* The row an added task takes, and the row shown for it while it is typed.
insertRow(rows, at, sub) ==
  IF rows = << >> THEN 1
  ELSE IF sub /\ rows[at].depth = 1 THEN at + 1
  ELSE LET tops == {k \in at + 1 .. Len(rows) : rows[k].depth = 0}
       IN  IF tops = {} THEN Len(rows) + 1 ELSE CHOOSE k \in tops : \A j \in tops : k <= j

\* One column per status, or one of everything.
columns(items, statuses) ==
  IF statuses = << >> THEN << [id |-> NoTask, items |-> items] >>
  ELSE [k \in DOMAIN statuses |->
         [id |-> statuses[k].id,
          items |-> SelectSeq(items, LAMBDA i : i.column = statuses[k].id)]]

\* The engine's drop: the item right after its anchor.
besidesItem(items, task) == SelectSeq(items, LAMBDA i : i.id # task)
putAfter(rest, item, after) ==
  IF after = First THEN << item >> \o rest ELSE InsertAt(rest, placeOf(rest, after) + 1, item)
dropped(items, item, after) == putAfter(besidesItem(items, item.id), item, after)
==============================================================================
