------------------------------ MODULE MCTerminal ------------------------------
(***************************************************************************)
(* The terminal under a person's hands: one who edits the outline, one  *)
(* who adds a row, one at the board, one in the details, and one who goes  *)
(* from view to view.                                                      *)
(***************************************************************************)
EXTENDS Terminal

task(id, parent) ==
  [id |-> id, parent |-> parent, closed |-> FALSE, column |-> NoTask,
   title |-> "v1", rule |-> "v1"]
Minted == << "n1", "n2" >>
Tree == << task("a", NoTask), task("b", NoTask), task("c", "a") >>
status(id, completing) == [id |-> id, completing |-> completing]
OneColumn == << status("todo", FALSE) >>
TwoStatuses == << status("todo", FALSE), status("doing", FALSE) >>
WithDone == << status("todo", FALSE), status("done", TRUE) >>

person(keys) ==
  [keys |-> keys, mode |-> "three", sort |-> "manual", layout |-> [v \in {All, "v"} |-> "list"],
   focus |-> "outline", screen |-> "none", view |-> All, nav |-> << All >>,
   tasks |-> Tree, statuses |-> << >>, calls |-> 1, others |-> 0]

Persons == {
  \* The outline's tree.
  [person({"d", "y", "n", "j", "J", "K", ">", "<"}) EXCEPT !.calls = 2],
  [person({"d", "y", "j"}) EXCEPT !.others = 2],
  \* Folds, marks and lines.
  [person({"j", "h", "l", "x", "i", "m", "Enter", "Escape"}) EXCEPT !.statuses = TwoStatuses],
  \* A row to add, in a manual and in a sorted view, under a filter.
  [person({"j", "n", "O", "Enter", "Escape", "r", "/", "text"}) EXCEPT
     !.tasks = << task("a", NoTask), task("c", "a") >>, !.calls = 3],
  [person({"n", "Enter", "Escape", "r"}) EXCEPT !.sort = "due",
     !.tasks = << task("a", NoTask) >>, !.calls = 3],
  \* The board.
  [person({"h", "l", "j", "k", "H", "L", "J", "K"}) EXCEPT
     !.layout = [v \in {All} |-> "kanban"], !.statuses = WithDone],
  [person({"l", "n", "Enter", "Escape"}) EXCEPT !.layout = [v \in {All} |-> "kanban"],
     !.statuses = TwoStatuses, !.tasks = << [task("a", NoTask) EXCEPT !.column = "doing"] >>,
     !.calls = 2],
  \* The details.
  [person({"e", "Enter", "r", "q"}) EXCEPT !.tasks = << task("a", NoTask) >>, !.calls = 3],
  [person({"e", "j", "Enter", "Escape", "x"}) EXCEPT !.others = 1,
     !.tasks = << task("a", NoTask), task("c", "a") >>, !.statuses = OneColumn],
  \* From view to view, in lists and between a list and a board.
  [person({"Tab", "j", "]", "e", "q"}) EXCEPT !.others = 1, !.calls = 0,
     !.nav = << All, "v" >>],
  [person({"j", "/", "text", "Enter", "Escape", "]"}) EXCEPT !.others = 1, !.calls = 0,
     !.nav = << All, "v" >>],
  [person({"j", "[", "b", "e", "Escape"}) EXCEPT !.calls = 0, !.others = 1,
     !.nav = << All, "v" >>, !.layout = (All :> "list") @@ ("v" :> "kanban"),
     !.statuses = TwoStatuses,
     !.tasks = << [task("a", NoTask) EXCEPT !.column = "doing"], task("b", NoTask) >>],
  [person({"j", "l", "]", "e", "Escape"}) EXCEPT !.calls = 0, !.others = 1,
     !.nav = << All, "v" >>, !.layout = [v \in {All, "v"} |-> "kanban"],
     !.statuses = TwoStatuses,
     !.tasks = << [task("a", NoTask) EXCEPT !.column = "doing"], task("b", NoTask) >>],
  [person({"Tab", "j", "k", "v", "Enter", "Escape"}) EXCEPT !.calls = 0, !.mode = "one",
     !.nav = << All, "v" >>, !.tasks = << task("a", NoTask) >>],
  \* The statuses.
  [person({"S", "a", "Enter", "Escape", "d", "y", "n", "j", "k", "J", "K", "c"}) EXCEPT
     !.statuses = TwoStatuses, !.tasks = << task("a", NoTask) >>],
  [person({"S", "d", "y"}) EXCEPT
     !.statuses = OneColumn, !.tasks = << >>, !.others = 1] }
==============================================================================
