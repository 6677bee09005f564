------------------------------- MODULE Terminal -------------------------------
(***************************************************************************)
(* The terminal app under a person's keys, the engine's answers and what   *)
(* other devices change.                                                   *)
(***************************************************************************)
EXTENDS TaskPanes

CONSTANTS
  Cases,      \* where a behaviour starts: the keys, the width, the view, others
  NewStatus   \* the id a new status takes

None == << >>
Values == {"v1", "v2"}      \* what a field can be set to

NoKeys == [pending |-> FALSE, deleting |-> FALSE, open |-> {}]
Start(c) ==
  [current |-> c.view, layout |-> NoLayout, focus |-> c.focus, screen |-> c.screen,
   search |-> FALSE, task |-> NoTask, side |-> 1,
   asked |-> NoTask,
   selected |-> [outline |-> NoTask, board |-> NoTask],
   outline |-> [cursor |-> [at |-> 1, id |-> NoTask], filtered |-> FALSE, pinned |-> {},
                folded |-> {}, adding |-> {}, held |-> None, ids |-> {}, edits |-> 0],
   board |-> [col |-> 1, row |-> 1, follow |-> NoTask, adding |-> {}],
   keys |-> [outline |-> NoKeys, board |-> NoKeys],
   detail |-> [at |-> 1, open |-> {}, held |-> {}, refusals |-> {}, latest |-> {}, sent |-> {}],
   statuses |-> [at |-> 1, input |-> {}, pending |-> FALSE, deleting |-> FALSE]]

Init ==
  \E c \in Cases :
    /\ keyboard = [keys |-> c.keys, mode |-> c.mode, calls |-> c.calls, others |-> c.others]
    /\ LET t == [tasks |-> c.tasks, statuses |-> c.statuses, sort |-> c.sort,
                 layout |-> c.layout, nav |-> c.nav, seen |-> {}, views |-> [v \in ToSet(c.nav) |-> << >>]]
       IN  /\ topics = publish(t, Start(c))
           /\ ui = sync(Start(c), topics)
    /\ engine = [calls |-> {}, slow |-> {}, applied |-> {}, refused |-> {}, sent |-> 0,
                 minted |-> 0, created |-> {}, others |-> 0]

----------------------------------------------------------------------------
(* The keys the outline and the board share.                               *)

Item(p) == IF p = "outline" THEN outlineTask(ui, topics) ELSE boardTask(ui, topics)
\* The outline pins its cursor before the key acts.
Here(p) == IF p = "outline" THEN pinned(ui, topics) ELSE ui
Idle(p) == ToPane(p) /\ ~addHolds(ui, p) /\ ui.keys[p].open = {} /\ ~ui.keys[p].deleting
\* Any key but the second `d` forgets the first; on no task none is looked at.
Forgot(p) ==
  [Here(p) EXCEPT !.keys[p].pending = IF Item(p) = NoTask THEN @ ELSE FALSE]

AskDelete(p) ==
  /\ Press("d") /\ Idle(p) /\ Item(p) # NoTask
  /\ Shows(IF ui.keys[p].pending
           THEN [Here(p) EXCEPT !.keys[p].pending = FALSE, !.keys[p].deleting = TRUE,
                                !.asked = Item(p)]
           ELSE [Here(p) EXCEPT !.keys[p].pending = TRUE])
  /\ Quietly

AnswerDelete(p) ==
  /\ ToPane(p) /\ ~addHolds(ui, p) /\ ui.keys[p].deleting
  /\ Shows([Here(p) EXCEPT !.keys[p].deleting = FALSE, !.asked = NoTask])
  /\ \/ Press("n") /\ Quietly
     \/ Press("y") /\ IF Item(p) = NoTask THEN Quietly
                      ELSE Writes(request("delete", Item(p), NoTask, <<"none">>))

MarkTask(p) ==
  /\ Press("x") /\ Idle(p) /\ Item(p) # NoTask
  /\ Writes(request("mark", Item(p), ~itemOf(topics.tasks, Item(p)).closed, <<"none">>))
  /\ Shows(Forgot(p))

\* The line editor, or the picker of statuses.
OpenEditor(p) ==
  /\ Idle(p) /\ Item(p) # NoTask
  /\ \E key \in {"i", "m"} :
       /\ Press(key) /\ (key = "i" \/ topics.statuses # << >>)
       /\ Shows([Forgot(p) EXCEPT !.keys[p].open =
                   {[kind |-> key, task |-> Item(p), statuses |-> idsIn(topics.statuses)]}])
  /\ Quietly

\* A line stays open until its write is taken, a picker closes with its pick.
UseEditor(p) ==
  /\ ToPane(p) /\ ~addHolds(ui, p)
  /\ \E e \in ui.keys[p].open :
       \/ /\ Press("Escape") /\ Quietly
          /\ Shows([Here(p) EXCEPT !.keys[p].open = {}])
       \/ /\ Press("Enter") /\ e.kind = "i"
          /\ Writes(request("title", e.task, "v2", <<"edit", p>>))
          /\ Shows(Here(p))
       \/ /\ Press("Enter") /\ e.kind = "m"
          /\ \E s \in e.statuses : Writes(request("column", e.task, s, <<"none">>))
          /\ Shows([Here(p) EXCEPT !.keys[p].open = {}])

----------------------------------------------------------------------------
(* The outline's own keys.                                                 *)

OutlineRows == rowsOf(ui, topics)
OutlineAt == resolve(ui, OutlineRows)

\* With no row the cursor is on a task that does not exist.
Undefined == "undefined"
rowTask(rows, at) == IF rows = << >> THEN Undefined ELSE taskAt(rows, at)
GoOutline ==
  /\ Idle("outline")
  /\ \E by \in {k \in {-1, 1} : Press(IF k = 1 THEN "j" ELSE "k")} :
       LET at == clamp(OutlineAt + by, Len(OutlineRows))
       IN  Shows([Forgot("outline") EXCEPT
                    !.outline.cursor = [at |-> at, id |-> rowTask(OutlineRows, at)]])
  /\ Quietly

Fold ==
  /\ Idle("outline") /\ Item("outline") # NoTask
  /\ \/ /\ Press("h") /\ OutlineRows[OutlineAt].children > 0
        /\ Shows([Forgot("outline") EXCEPT !.outline.folded = @ \cup {Item("outline")}])
     \/ /\ Press("l")
        /\ Shows([Forgot("outline") EXCEPT !.outline.folded = @ \ {Item("outline")}])
  /\ Quietly

\* A subtask out, also one whose parent is not listed; a task under the one above.
Reparent ==
  /\ Idle("outline") /\ Item("outline") # NoTask
  /\ \/ /\ Press("<") /\ OutlineRows[OutlineAt].parent # NoTask
        /\ Writes(request("reparent", Item("outline"), NoTask, <<"none">>))
     \/ /\ Press(">") /\ indentTarget(OutlineRows, OutlineAt) # NoTask
        /\ Writes(request("reparent", Item("outline"), indentTarget(OutlineRows, OutlineAt),
                          <<"none">>))
  /\ Shows(Forgot("outline"))

\* One place among the siblings, in a view that does not sort itself.
MoveTask ==
  /\ Idle("outline") /\ Item("outline") # NoTask /\ topics.sort = "manual"
  /\ \E by \in {k \in {-1, 1} : Press(IF k = 1 THEN "J" ELSE "K")} :
       LET after == moveAfter(topics.views[ui.current], Item("outline"), by)
       IN  after # AtEnd /\ Writes(request("place", Item("outline"), after, <<"none">>))
  /\ Shows(Forgot("outline"))

\* `n` a task, `O` a subtask, on a row where it will appear.
OpenAdd ==
  /\ Idle("outline")
  /\ \E sub \in {b \in BOOLEAN : Press(IF b THEN "O" ELSE "n")} :
       LET task == Item("outline")
           row == OutlineRows[OutlineAt]
           parent == IF ~sub THEN NoTask ELSE IF row.depth = 0 THEN row.id ELSE row.parent
       IN  /\ sub => task # NoTask
           /\ Shows([Forgot("outline") EXCEPT
                !.outline.folded = @ \ {parent}, !.outline.ids = {}, !.outline.edits = 0,
                !.outline.adding = {[anchor |-> task, sub |-> sub, parent |-> parent,
                  after |-> IF task = NoTask \/ topics.sort # "manual" THEN AtEnd
                            ELSE insertAfter(topics.views[ui.current], task, sub),
                  text |-> "", typing |-> TRUE, saving |-> FALSE, draft |-> NoTask,
                  refusal |-> "none"]}])
  /\ Quietly

\* Mutated: every send is a new task.
sameDraftNever(a, text) == FALSE
\* The same text after a retryable refusal is the same task.
sameDraft(a, text) == a.draft # NoTask /\ a.text = text /\ a.refusal = "retry"

\* The intent holds a draft's operation until it is accepted or refused for good.
SendAdd(a, text) ==
  LET again == sameDraft(a, text)
      id == IF again THEN a.draft ELSE NewTasks[engine.minted + 1]
      draft == <<id, text, a.parent>>
      held == ui.outline.held # None /\ ui.outline.held[1] = draft
      op == IF held THEN ui.outline.held[2] ELSE engine.sent + 1
  IN  /\ CanSend /\ (again \/ engine.minted < Len(NewTasks))
      /\ engine' = [under_op(engine, request("add", id, a.parent, <<"add">>), op)
                      EXCEPT !.minted = IF again THEN @ ELSE @ + 1]
      /\ Shows([ui EXCEPT
           !.outline.held = <<draft, op>>,
           !.outline.ids = @ \cup {id},
           !.outline.edits = IF a.draft # NoTask /\ a.text # text THEN @ + 1 ELSE @,
           !.outline.adding = {[a EXCEPT !.draft = id, !.text = text, !.typing = FALSE,
                                         !.saving = TRUE]}])

\* The keys of the row: typed into, or refused.
TypeAdd ==
  /\ ToPane("outline")
  /\ \E a \in ui.outline.adding :
       /\ ~a.saving
       /\ \/ a.typing /\ Press("Enter") /\ \E text \in {"text", "other"} : SendAdd(a, text)
          \/ /\ a.typing /\ Press("Escape") /\ Quietly
             /\ Shows([ui EXCEPT !.outline.adding =
                         IF a.refusal = "none" THEN {} ELSE {[a EXCEPT !.typing = FALSE]}])
          \/ ~a.typing /\ Press("r") /\ a.refusal = "retry" /\ SendAdd(a, a.text)
          \/ /\ ~a.typing /\ Press("Enter") /\ Quietly
             /\ Shows([ui EXCEPT !.outline.adding = {[a EXCEPT !.typing = TRUE]}])
          \/ /\ ~a.typing /\ Press("Escape") /\ Quietly
             /\ Shows([ui EXCEPT !.outline.adding = {}])

----------------------------------------------------------------------------
(* The board's own keys.                                                   *)

Where == where(ui, topics)

CardAt(col, row) ==
  Shows([Forgot("board") EXCEPT !.board.col = col, !.board.row = row, !.board.follow = NoTask])
GoBoard ==
  /\ Idle("board") /\ Quietly
  /\ \/ \E by \in {k \in {-1, 1} : Press(IF k = 1 THEN "l" ELSE "h")} :
          CardAt(clamp(Where.c + by, Len(Where.cols)), 1)
     \/ \E by \in {k \in {-1, 1} : Press(IF k = 1 THEN "j" ELSE "k")} :
          CardAt(Where.c, clamp(Where.r + by, Len(Where.cards)))

\* To the next column; the cursor goes there before the card does.
ToColumn ==
  /\ Idle("board") /\ Item("board") # NoTask
  /\ LET w == Where IN
       \E c \in {w.c - 1, w.c + 1} \cap DOMAIN w.cols :
         /\ Press(IF c > w.c THEN "L" ELSE "H") /\ w.cols[c].id # NoTask
         /\ Writes(request("column", Item("board"), w.cols[c].id, <<"none">>))
         /\ Shows([Forgot("board") EXCEPT !.board.col = c, !.board.follow = Item("board")])

InColumn ==
  /\ Idle("board") /\ Item("board") # NoTask /\ topics.sort = "manual"
  /\ \E by \in {k \in {-1, 1} : Press(IF k = 1 THEN "J" ELSE "K")} :
       LET after == moveAfterIn(Where.cards, Item("board"), by)
       IN  after # AtEnd /\ Writes(request("place", Item("board"), after, <<"none">>))
  /\ Shows([Forgot("board") EXCEPT !.board.follow = Item("board")])

\* A card; the first column needs no status, a sorted view no place.
OpenCard ==
  /\ Idle("board") /\ Press("n")
  /\ LET w == Where IN
       Shows([Forgot("board") EXCEPT !.board.adding =
         {[status |-> IF w.c = 1 THEN NoTask ELSE w.cols[w.c].id, saving |-> FALSE,
           after |-> IF topics.sort = "manual" /\ w.cards # << >> THEN w.cards[w.r].id
                     ELSE AtEnd]}])
  /\ Quietly

\* Every send of a card is a new task.
TypeCard ==
  /\ ToPane("board")
  /\ \E a \in ui.board.adding :
       /\ ~a.saving
       /\ \/ /\ Press("Escape") /\ Quietly
             /\ Shows([ui EXCEPT !.board.adding = {}])
          \/ /\ Press("Enter") /\ CanSend /\ engine.minted < Len(NewTasks)
             /\ engine' = [write(engine, request("add", NewTasks[engine.minted + 1], NoTask,
                                                 <<"card">>)) EXCEPT !.minted = @ + 1]
             /\ Shows([ui EXCEPT !.board.adding = {[a EXCEPT !.saving = TRUE]}])

----------------------------------------------------------------------------
(* The details of a task: one held write per field.                        *)

Fields == << "title", "column", "rule" >>
DetailRows == Len(Fields) + Cardinality(kidsOf(topics, ui.task))
Gone == ui.task \notin idsIn(topics.tasks)
ToDetail == Drawn /\ ui.focus = "detail"
FieldKey == <<ui.task, Fields[ui.detail.at]>>
OnField == ui.detail.at \in DOMAIN Fields /\ ui.task # NoTask
Refused == {r \in ui.detail.refusals : OnField /\ r.key = FieldKey}
besidesKey(S, key) == {e \in S : e.key # key}

GoDetail ==
  /\ ToDetail /\ ui.detail.open = {} /\ Quietly
  /\ \E by \in {k \in {-1, 1} : Press(IF k = 1 THEN "j" ELSE "k")} :
       ui' = [ui EXCEPT !.detail.at = clamp(@ + by, DetailRows)]
  /\ UNCHANGED <<keyboard, topics>>

\* A subtask under the cursor is ticked.
Tick ==
  /\ ToDetail /\ ui.detail.open = {} /\ Press("x") /\ ~Gone
  /\ \E i \in kidsOf(topics, ui.task) :
       /\ ui.detail.at > Len(Fields)
       /\ Writes(request("mark", i.id, ~i.closed, <<"none">>))
  /\ UNCHANGED <<keyboard, topics, ui>>

\* A save is compared with the task as it was when the field opened.
OpenField ==
  /\ ToDetail /\ ui.detail.open = {} /\ Press("Enter") /\ OnField /\ ~Gone
  /\ LET item == itemOf(topics.tasks, ui.task)
         field == FieldKey[2]
     IN  /\ field = "column" => topics.statuses # << >>
         /\ field = "rule" => item.parent = NoTask
         /\ ui' = [ui EXCEPT !.detail.open =
              {[key |-> FieldKey, custom |-> FALSE,
                was |-> IF field = "column" THEN columnOf(topics.statuses, item) ELSE item[field],
                statuses |-> idsIn(topics.statuses)]}]
  /\ Quietly /\ UNCHANGED <<keyboard, topics>>

\* A draft goes as the field's held operation when it is the draft held, and
\* drops the refusal of another.
SendField(key, value, draft, open) ==
  LET held == {h \in ui.detail.held : h.key = key /\ h.value = value}
      op == IF held = {} THEN engine.sent + 1 ELSE (CHOOSE h \in held : TRUE).op
  IN  /\ CanSend
      /\ engine' = under_op(engine, request(key[2], key[1], value, <<"field", key, draft>>), op)
      /\ ui' = [ui EXCEPT
           !.detail.open = open,
           !.detail.held = besidesKey(@, key) \cup {[key |-> key, value |-> value, op |-> op]},
           !.detail.refusals = {r \in @ : r.key = key => r.draft = draft},
           !.detail.latest = besidesKey(@, key) \cup {[key |-> key, draft |-> draft]},
           !.detail.sent = besidesKey(@, key) \cup {[key |-> key, draft |-> draft, op |-> op]}]

\* Of a task that is gone nothing is sent, and the field stays open.
SaveField(e) ==
  \/ /\ e.key[2] = "rule" /\ ~e.custom /\ Quietly
     /\ ui' = [ui EXCEPT !.detail.open = {[e EXCEPT !.custom = TRUE]}]
  \/ /\ ~Gone
     /\ \E value \in IF e.key[2] = "column" THEN e.statuses ELSE Values :
          IF value = e.was /\ e.key[2] # "rule"
          THEN ui' = [ui EXCEPT !.detail.open = {}] /\ Quietly
          ELSE SendField(e.key, value, engine.sent + 1, {})

UseField ==
  /\ ToDetail
  /\ \E e \in ui.detail.open :
       \/ Press("Enter") /\ SaveField(e)
       \/ Press("Escape") /\ ui' = [ui EXCEPT !.detail.open = {}] /\ Quietly
  /\ UNCHANGED <<keyboard, topics>>

\* `r` on a refused field resends it.
Retry ==
  /\ ToDetail /\ ui.detail.open = {} /\ Press("r")
  /\ \E r \in Refused : r.retryable /\ SendField(r.key, r.value, r.draft, {})
  /\ UNCHANGED <<keyboard, topics>>

----------------------------------------------------------------------------
(* The root.                                                               *)

Cycle == [sidebar |-> "outline", outline |-> "detail", detail |-> "sidebar"]
Focused(next) == ui' = setFocus(ui, topics, next)
InDetail == ui.focus = "detail"

\* Esc closes the innermost thing first.
Escape ==
  /\ Free /\ Press("Escape")
  /\ IF InDetail /\ Refused # {}
     THEN ui' = [ui EXCEPT !.detail.refusals = @ \ Refused]
     ELSE IF overlay(ui, topics) \/ InDetail THEN Focused("outline")
     ELSE /\ ui.outline.filtered
          /\ ui' = sync([ui EXCEPT !.outline.filtered = FALSE, !.outline.pinned = {}], topics)

StepView(by) ==
  LET at == SelectInSeq(topics.nav, LAMBDA key : key = ui.current)
  IN  topics.nav[((at + by + Len(topics.nav) - 1) % Len(topics.nav)) + 1]

Global ==
  /\ Free
  /\ \/ Press("Tab") /\ Focused(Cycle[ui.focus])
     \/ Press("e") /\ Focused("detail")
     \/ Press("q") /\ InDetail /\ Focused("outline")
     \/ Press("]") /\ ui' = pick(ui, topics, StepView(1))
     \/ Press("[") /\ ui' = pick(ui, topics, StepView(-1))
     \/ Press("b") /\ LET v == [ui EXCEPT !.layout = IF list(ui, topics) = "board"
                                                   THEN "list" ELSE "kanban"]
                      IN  ui' = select(closeOverlay(v, topics), topics)
     \/ /\ Press("/") /\ list(ui, topics) = "outline"
        /\ ui' = [setFocus(ui, topics, "outline") EXCEPT !.search = TRUE]
     \/ \E screen \in {s \in {"views", "statuses"} : Press(IF s = "views" THEN "v" ELSE "S")} :
          ui' = [setFocus(ui, topics, "outline") EXCEPT !.screen = screen, !.statuses.at = 1]

EnterDetails ==
  Free /\ Press("Enter") /\ ui.focus = "outline" /\ EnterIsDetails /\ Focused("detail")

Sidebar ==
  /\ Free /\ ui.focus = "sidebar"
  /\ \/ \E by \in {k \in {-1, 1} : Press(IF k = 1 THEN "j" ELSE "k")} :
          ui' = [ui EXCEPT !.side = clamp(@ + by, Len(topics.nav))]
     \/ Press("Enter") /\ ui' = pick(ui, topics, topics.nav[clamp(ui.side, Len(topics.nav))])

\* Another text forgets the tasks pinned under the last one.
Search ==
  /\ ui.search
  /\ \/ Press("Enter") /\ ui' = [ui EXCEPT !.search = FALSE]
     \/ \E text \in BOOLEAN :
          /\ Press(IF text THEN "text" ELSE "Escape")
          /\ ui' = sync([ui EXCEPT !.search = text, !.outline.filtered = text,
               !.outline.pinned = IF text = ui.outline.filtered THEN @ ELSE {}], topics)

PickView ==
  /\ ui.screen = "views"
  /\ \/ Press("Escape") /\ ui' = [ui EXCEPT !.screen = "none"]
     \/ /\ Press("Enter")
        /\ \E key \in ToSet(topics.nav) : ui' = pick([ui EXCEPT !.screen = "none"], topics, key)

\* A frame: the outline's cursor is where it is drawn, should its task go.
Draw ==
  /\ ui.screen = "none" /\ list(ui, topics) = "outline" /\ ~overlay(ui, topics)
  /\ OutlineAt # ui.outline.cursor.at
  /\ ui' = [ui EXCEPT !.outline.cursor.at = OutlineAt]

RootKey ==
  /\ \/ Escape \/ Global \/ EnterDetails \/ Sidebar \/ Search \/ PickView \/ Draw
  /\ Quietly /\ UNCHANGED <<keyboard, topics>>

----------------------------------------------------------------------------
(* The screen of statuses.                                                 *)

StatusAt == clamp(ui.statuses.at, Len(topics.statuses))
Status == taskAt(topics.statuses, StatusAt)
InStatuses == ui.screen = "statuses" /\ UNCHANGED <<keyboard, topics>>
StatusIdle == InStatuses /\ ui.statuses.input = {} /\ ~ui.statuses.deleting
SaveStatus(id, to, from) == Writes(request("saveStatus", id, to, from))

AskDeleteStatus ==
  /\ StatusIdle /\ Press("d") /\ Quietly
  /\ ui' = IF ~ui.statuses.pending THEN [ui EXCEPT !.statuses.pending = TRUE]
           ELSE [ui EXCEPT !.statuses.pending = FALSE,
                           !.statuses.deleting = Status # NoTask, !.asked = Status]

AnswerDeleteStatus ==
  /\ InStatuses /\ ui.statuses.input = {} /\ ui.statuses.deleting
  /\ ui' = [ui EXCEPT !.statuses.deleting = FALSE, !.asked = NoTask]
  /\ \/ Press("n") /\ Quietly
     \/ Press("y") /\ IF Status = NoTask THEN Quietly
                      ELSE Writes(request("deleteStatus", Status, NoTask, <<"none">>))

StatusKey ==
  /\ StatusIdle
  /\ LET u == [ui EXCEPT !.statuses.pending = FALSE]
         first == IF Status = NoTask THEN First ELSE Status
     IN  \/ Press("Escape") /\ ui' = [u EXCEPT !.screen = "none"] /\ Quietly
         \/ \E by \in {k \in {-1, 1} : Press(IF k = 1 THEN "j" ELSE "k")} :
              /\ ui' = [u EXCEPT !.statuses.at = clamp(StatusAt + by, Len(topics.statuses))]
              /\ Quietly
         \/ /\ Press("a") /\ Quietly
            /\ ui' = [u EXCEPT !.statuses.input =
                 {[id |-> NewStatus, to |-> first, at |-> StatusAt + 1]}]
         \/ /\ Press("Enter") /\ Status # NoTask /\ Quietly
            /\ ui' = [u EXCEPT !.statuses.input =
                 {[id |-> Status, to |-> AtEnd, at |-> StatusAt]}]
         \/ /\ Press("c") /\ Status # NoTask /\ ui' = u
            /\ Writes(request("completing", Status, NoTask, <<"none">>))
         \/ \E by \in {k \in {-1, 1} : Press(IF k = 1 THEN "J" ELSE "K")} :
              /\ Status # NoTask /\ beside(topics.statuses, StatusAt, by) # AtEnd
              /\ SaveStatus(Status, beside(topics.statuses, StatusAt, by), <<"none">>)
              /\ ui' = [u EXCEPT !.statuses.at = StatusAt + by]

\* The name stays typed until its write is taken.
TypeStatus ==
  /\ InStatuses
  /\ \E i \in ui.statuses.input :
       \/ Press("Escape") /\ ui' = [ui EXCEPT !.statuses.input = {}] /\ Quietly
       \/ Press("Enter") /\ SaveStatus(i.id, i.to, <<"status", i.id, i.at>>) /\ UNCHANGED ui

----------------------------------------------------------------------------
(* The engine takes a write and publishes; its answer comes on its own.    *)

Publishes(t) ==
  topics' = publish(t, ui) /\ ui' = published(ui, topics') /\ UNCHANGED keyboard

Take ==
  \E c \in engine.calls \cup engine.slow :
    /\ c.op \notin engine.applied \cup engine.refused /\ legal(topics, c)
    /\ \E t \in effects(topics, c) : Publishes(t)
    /\ engine' = [engine EXCEPT !.applied = @ \cup {c.op},
                    !.slow = {s \in @ : s.op # c.op},
                    !.created = IF c.kind = "add" THEN @ \cup {c.task} ELSE @]

\* The view picked last, once the engine knows of it.
Watched ==
  /\ topics # publish(topics, ui)
  /\ Publishes(topics) /\ UNCHANGED engine

\* "no" is final; "retry" may still be applied; "usage" is not recorded, and
\* said of no operation the engine has taken up before.
Verdicts(c) ==
  IF c.op \in engine.applied THEN {"ok", "retry"}
  ELSE {"no", "retry"} \cup
         IF \E s \in engine.slow : s.op = c.op THEN {} ELSE {"usage"}
answered(c, r) ==
  [engine EXCEPT !.calls = @ \ {c},
     !.refused = IF r = "no" THEN @ \cup {c.op} ELSE @,
     !.slow = IF r = "retry" /\ c.op \notin engine.applied THEN @ \cup {c} ELSE @]
Settled(r) == r \in {"ok", "no"}
Waits(c, from) == c \in engine.calls /\ c.from[1] = from
Answered == UNCHANGED <<keyboard, topics>>

\* The new task stands where its row stood.
placedAt(at, u, task) ==
  sync([u EXCEPT !.outline.cursor = [at |-> at, id |-> task], !.outline.adding = {}], topics)
ready(a, u, task) == placedAt(place(a, u, topics), u, task)
placed(a, u, task) == ready(a, [u EXCEPT !.outline.adding = {[a EXCEPT !.saving = FALSE]}], task)

AnswerAdd ==
  \E c \in engine.calls : \E a \in ui.outline.adding : \E r \in Verdicts(c) :
    /\ Waits(c, "add") /\ Answered
    /\ LET u == IF Settled(r) THEN [ui EXCEPT !.outline.held = None] ELSE ui
           v == [u EXCEPT !.outline.pinned = IF u.outline.filtered THEN @ \cup {c.task} ELSE @]
       IN  IF r # "ok"
           THEN /\ engine' = answered(c, r)
                /\ ui' = [u EXCEPT !.outline.adding =
                     {[a EXCEPT !.saving = FALSE,
                                !.refusal = IF r = "retry" THEN "retry" ELSE "no"]}]
           ELSE IF a.after = AtEnd
           THEN engine' = answered(c, r) /\ ui' = placed(a, v, c.task)
           ELSE /\ CanSend /\ ui' = v
                /\ engine' = write(answered(c, r), request("place", c.task, a.after, <<"placed">>))

AnswerPlaced ==
  \E c \in engine.calls : \E a \in ui.outline.adding : \E r \in Verdicts(c) :
    /\ Waits(c, "placed") /\ Answered
    /\ engine' = answered(c, r) /\ ui' = placed(a, ui, c.task)

\* The cursor goes to the card, and the card to the cursor's column and place.
AnswerCard ==
  \E c \in engine.calls : \E a \in ui.board.adding : \E r \in Verdicts(c) :
    /\ Waits(c, "card") /\ Answered
    /\ IF r # "ok"
       THEN /\ engine' = answered(c, r)
            /\ ui' = [ui EXCEPT !.board.adding = {[a EXCEPT !.saving = FALSE]}]
       ELSE /\ ui' = [ui EXCEPT !.board.adding = {}, !.board.follow = c.task]
            /\ IF a.status = NoTask /\ a.after = AtEnd THEN engine' = answered(c, r)
               ELSE /\ CanSend
                    /\ engine' = write(answered(c, r),
                         request("card", c.task, <<a.status, a.after>>, <<"none">>))

\* An edit that is taken closes the editor open by then.
AnswerEdit ==
  \E c \in engine.calls : \E r \in Verdicts(c) :
    /\ Waits(c, "edit") /\ Answered /\ engine' = answered(c, r)
    /\ ui' = IF r = "ok" THEN [ui EXCEPT !.keys[c.from[2]].open = {}] ELSE ui

\* Mutated: any answer is the field's.
currentAny(key, draft) == \E l \in ui.detail.latest : l.key = key
\* Only the answer to the last draft of a field counts.
current(key, draft) == [key |-> key, draft |-> draft] \in ui.detail.latest

AnswerField ==
  \E c \in engine.calls : \E r \in Verdicts(c) : \E said \in BOOLEAN :
    /\ Waits(c, "field") /\ Answered /\ engine' = answered(c, r)
    /\ said => r = "retry"   \* signed out or unavailable: on the status line
    /\ LET key == c.from[2]
           u == [ui EXCEPT !.detail.held =
                  IF Settled(r) THEN {h \in @ : h.op # c.op} ELSE @]
           v == [u EXCEPT !.detail.latest = besidesKey(@, key)]
           refusal == [key |-> key, draft |-> c.from[3], value |-> c.to,
                       retryable |-> r = "retry"]
       IN  ui' = IF ~current(key, c.from[3]) THEN u
                 ELSE IF said THEN v
                 ELSE [v EXCEPT !.detail.refusals =
                        besidesKey(@, key) \cup (IF r = "ok" THEN {} ELSE {refusal})]

AnswerStatus ==
  \E c \in engine.calls : \E r \in Verdicts(c) :
    /\ Waits(c, "status") /\ Answered /\ engine' = answered(c, r)
    /\ ui' = IF r # "ok" THEN ui
             ELSE [ui EXCEPT !.statuses.input = {}, !.statuses.at =
                    IF c.from[2] = NewStatus THEN c.from[3] ELSE @]

AnswerRest ==
  \E c \in engine.calls : \E r \in Verdicts(c) :
    Waits(c, "none") /\ Answered /\ engine' = answered(c, r) /\ UNCHANGED ui

----------------------------------------------------------------------------
(* Other devices.                                                          *)

Others(t) ==
  /\ engine.others < keyboard.others /\ Publishes(t)
  /\ engine' = [engine EXCEPT !.others = @ + 1]

OtherChange ==
  \E t \in
    UNION {{without(topics, {i.id} \cup {k.id : k \in kidsOf(topics, i.id)}),
            replaced(topics, i.id, [i EXCEPT !.title = "v2"])}
             \cup {[topics EXCEPT !.tasks = dropped(@, i, to)] :
                     to \in {First} \cup (idsIn(topics.tasks) \ {i.id})} :
           i \in ToSet(topics.tasks)}
      \cup {[topics EXCEPT !.statuses = SelectSeq(@, LAMBDA q : q # s)] :
              s \in ToSet(topics.statuses)}
      \cup {[topics EXCEPT !.nav = SelectSeq(@, LAMBDA k : k # key)] :
              key \in ToSet(topics.nav) \ {All}} :
    Others(t)

----------------------------------------------------------------------------
PaneKey ==
  \/ \E p \in {"outline", "board"} : \/ AskDelete(p) \/ AnswerDelete(p) \/ MarkTask(p)
                                     \/ OpenEditor(p) \/ UseEditor(p)
  \/ GoOutline \/ Fold \/ Reparent \/ MoveTask \/ OpenAdd \/ TypeAdd
  \/ GoBoard \/ ToColumn \/ InColumn \/ OpenCard \/ TypeCard
DetailKey == GoDetail \/ Tick \/ OpenField \/ UseField \/ Retry
ScreenKey == AskDeleteStatus \/ AnswerDeleteStatus \/ StatusKey \/ TypeStatus
Answer ==
  \/ AnswerAdd \/ AnswerPlaced \/ AnswerCard \/ AnswerEdit \/ AnswerField
  \/ AnswerStatus \/ AnswerRest

Next == \/ PaneKey \/ DetailKey \/ RootKey \/ ScreenKey
        \/ Take \/ Watched \/ Answer \/ OtherChange

Spec == Init /\ [][Next]_vars

----------------------------------------------------------------------------
(* Properties.                                                             *)

\* A new task's row adds one task, and one more for each time its text was
\* changed after it was sent, whatever answers were lost (outline.ts:310-325,
\* intent.ts:36-51): a resend of the same text is the same operation.
AddsOnce == Cardinality(ui.outline.ids \cap engine.created) <= 1 + ui.outline.edits

\* A field is shown refused for the last draft sent for it, and what `r` would
\* resend is the operation the field holds, or one whose verdict is recorded
\* (detail-pane.ts:234-267, intent.ts:36-51): a late answer to an older draft
\* neither marks the field nor is resent over the newer one.
RefusalIsLatest ==
  \A r \in ui.detail.refusals : \E s \in ui.detail.sent :
    /\ s.key = r.key /\ s.draft = r.draft
    /\ r.retryable => \/ [key |-> r.key, value |-> r.value, op |-> s.op] \in ui.detail.held
                      \/ s.op \in engine.applied \cup engine.refused

\* "The details show the one the layout draws" (root.ts:104): the task on which
\* the list that is drawn last put its cursor, unless they have the focus.
DetailsShowTheDrawn == ui.focus = "detail" \/ ui.task = ui.selected[list(ui, topics)]

\* While the views are all lists, or all boards, the details show the task on
\* which the drawn list last put its cursor, whatever other devices publish and
\* from view to view, and a drawn outline's cursor is still on it
\* (root.ts:163-170, :181-194; outline.ts:199-212); a row being added is left
\* aside, its refusal looks for no cursor. (Where the layout changes it fails:
\* DetailsShowTheDrawn.)
OneLayout ==
  /\ "b" \notin keyboard.keys
  /\ \A v, w \in ToSet(topics.nav) : topics.layout[v] = topics.layout[w]
ShownIsSelected ==
  OneLayout =>
    /\ DetailsShowTheDrawn
    /\ list(ui, topics) = "outline" =>
         \/ ui.focus = "detail" \/ ui.outline.adding # {}
         \/ ui.task = outlineTask(ui, topics)

\* What the person is asked to confirm is what is deleted (task-keys.ts:53-77,
\* statuses.ts:76-101).
DeletesWhatItAsked ==
  [][\A c \in engine'.calls \ engine.calls :
       c.kind \in {"delete", "deleteStatus"} => c.task = ui.asked]_vars
==============================================================================
