------------------------------ MODULE Filters ------------------------------
(***************************************************************************)
(* A view's filter: filter.ts.  A node is a record whose field `is' names  *)
(* its one key; `and', `or' and `not' hold nodes.  A bound of a date range *)
(* is <<"day", offset from today>>, <<"date", a date>> or << >> when it is *)
(* open; dates are day numbers and None is an absent one.                  *)
(***************************************************************************)
EXTENDS Integers, Sequences, SequencesExt, FiniteSetsExt

CONSTANTS
  None,                              \* null
  FILTER_MAX_DEPTH, FILTER_MAX_NODES

Branches == {"and", "or"}

----------------------------------------------------------------------------
(* The budget.  check walks the tree depth first, counting nodes as it     *)
(* goes, and stops at the first problem: what it knows is how many nodes   *)
(* it has met, or that it stopped.                                         *)

Stopped == FILTER_MAX_NODES + 1

RECURSIVE check(_, _, _)
check(node, depth, met) ==
  IF depth > FILTER_MAX_DEPTH \/ met + 1 > FILTER_MAX_NODES THEN Stopped
  ELSE CASE node.is \in Branches ->
              FoldLeft(LAMBDA n, child :
                         IF n = Stopped THEN n ELSE check(child, depth + 1, n),
                       met + 1, node.of)
         [] node.is = "not" -> check(node.of, depth + 1, met + 1)
         [] OTHER -> met + 1

filterProblem(filter) == check(filter, 1, 0) = Stopped

\* What a form shows of the budget: <<nodes, depth>>.
RECURSIVE walk(_, _)
walk(node, depth) ==
  LET children == CASE node.is \in Branches -> node.of
                    [] node.is = "not" -> << node.of >>
                    [] OTHER -> << >>
  IN  FoldLeft(LAMBDA size, child :
                 LET s == walk(child, depth + 1)
                 IN  << size[1] + s[1], Max({size[2], s[2]}) >>,
               << 1, depth >>, children)

filterSize(filter) == walk(filter, 1)

----------------------------------------------------------------------------

inRange(date, range, today) ==
  LET day(bound) == IF bound[1] = "date" THEN bound[2] ELSE today + bound[2]
  IN  /\ date # None
      /\ range.from = << >> \/ date >= day(range.from)
      /\ range.to = << >> \/ date <= day(range.to)

\* Whether a task with these facts is in the view.
RECURSIVE matches(_, _, _)
matches(filter, task, today) ==
  CASE filter.is = "and" -> \A k \in DOMAIN filter.of : matches(filter.of[k], task, today)
    [] filter.is = "or" -> \E k \in DOMAIN filter.of : matches(filter.of[k], task, today)
    [] filter.is = "not" -> ~matches(filter.of, task, today)
    [] filter.is = "tag" -> filter.id \in task.tagIds
    [] filter.is = "project" -> task.projectId = filter.id
    [] filter.is = "status" -> task.statusId = filter.id
    [] filter.is = "priority" -> task.priority \in filter.in
    [] filter.is = "scheduled" -> inRange(task.scheduledOn, filter.range, today)
    [] filter.is = "due" -> inRange(task.dueOn, filter.range, today)
    [] OTHER -> task.recurring = filter.value

\* The filter with every id in the domain of `ids' replaced by its value.
RECURSIVE replaceIds(_, _)
replaceIds(filter, ids) ==
  CASE filter.is \in Branches ->
         [filter EXCEPT !.of = [k \in DOMAIN @ |-> replaceIds(@[k], ids)]]
    [] filter.is = "not" -> [filter EXCEPT !.of = replaceIds(@, ids)]
    [] filter.is \in {"tag", "project", "status"} ->
         [filter EXCEPT !.id = IF @ \in DOMAIN ids THEN ids[@] ELSE @]
    [] OTHER -> filter
=============================================================================
