----------------------------- MODULE MCCommands -----------------------------
(***************************************************************************)
(* Two devices and ten sets of commands, one of which is drawn at the      *)
(* start: a tree of tasks, the board, a series, names made on both         *)
(* devices, drops among tied ranks, and marks before there is a status.    *)
(* Each command is given at most once, in every order, with exchanges in   *)
(* between.                                                                *)
(***************************************************************************)
EXTENDS Commands, RuleMeaning

MCDevices == {1, 2}
MCTables == {"task", "project", "tag", "task_tag", "task_occurrence",
             "status", "view"}

Links == (5 .. 7) \X {21, 22, 24}
Marks == ({4} \X {10, 11, 12, 13, 18, Null}) \cup ({1, 2} \X {Null})
LinkId(l) == 100 + 10 * l[1] + l[2] - 20
MarkId(m) == 200 + 10 * m[1] + IF m[2] = Null THEN 9 ELSE m[2] - 10
DerivedIds == {LinkId(l) : l \in Links} \cup {MarkId(m) : m \in Marks}
MCIds == (1 .. 7) \cup {11, 12} \cup {21, 22, 24} \cup (31 .. 39) \cup {41, 42}
           \cup DerivedIds
MCTableOf ==
  [i \in MCIds |-> CASE i < 10 -> "task"
                     [] i \in 10 .. 19 -> "project"
                     [] i \in 20 .. 29 -> "tag"
                     [] i \in 30 .. 39 -> "status"
                     [] i \in 40 .. 49 -> "view"
                     [] i \in 100 .. 199 -> "task_tag"
                     [] OTHER -> "task_occurrence"]
MCKeyOf ==
  [i \in DerivedIds |->
     IF i < 200
     THEN LET l == CHOOSE l \in Links : LinkId(l) = i
          IN  [taskId |-> l[1], tagId |-> l[2]]
     ELSE LET m == CHOOSE m \in Marks : MarkId(m) = i
          IN  [taskId |-> m[1], occurrence |-> m[2]]]
MCColumns ==
  [t \in MCTables |->
     CASE t = "task" -> {"title", "priority", "rank", "scheduledOn", "dueOn"}
       [] t = "project" -> {"name", "rank"}
       [] t = "tag" -> {"name"}
       [] t = "status" -> {"name", "rank", "completing"}
       [] t = "view" -> {"name", "layout", "sort", "filter", "rank"}
       [] t = "task_tag" -> {"attached"}
       [] t = "task_occurrence" -> {"state"}]
MCPool ==
  [d \in MCDevices |->
     [t \in MCTables |->
        CASE t = "task" -> IF d = 1 THEN << 5 >> ELSE << 6, 7 >>
          [] t = "project" -> IF d = 1 THEN << 11 >> ELSE << 12 >>
          [] t = "tag" -> IF d = 1 THEN << 22 >> ELSE << 21, 24 >>
          [] t = "status" -> IF d = 1 THEN << 31, 32, 33 >> ELSE << 34, 35, 36 >>
          [] t = "view" -> IF d = 1 THEN << 42 >> ELSE << >>
          [] OTHER -> << >>]]

MCToday == 12
MCDayOfTs(ts) == IF ts = 1 THEN 0 ELSE MCToday
MCa0 == << 2, 0 >>

(* Rows every replica holds at the start, written long ago.                *)
Held(fields) ==
  [NoRow EXCEPT
     !.version = 1,
     !.val = [f \in Fields |-> IF f \in DOMAIN fields THEN fields[f] ELSE Null],
     !.fieldTs = [f \in Fields |-> IF f \in DOMAIN fields THEN 1 ELSE 0]]
Rows(held) ==
  [i \in MCIds |-> IF i \in DOMAIN held THEN Held(held[i]) ELSE NoRow]
Task(rank) == "title" :> 0 @@ "priority" :> 4 @@ "rank" :> rank
Status(name, rank, last) ==
  "name" :> name @@ "rank" :> rank @@ "completing" :> last
Rule(freq, count) ==
  [freq |-> freq, interval |-> 1, byDay |-> {}, byMonthDay |-> {},
   byMonth |-> {}, bySetPos |-> {}, count |-> count, until |-> 0, wkst |-> 0]

Statuses == 37 :> Status(10, << 2 >>, FALSE) @@ 38 :> Status(20, << 3 >>, TRUE)
         @@ 39 :> Status(50, << 2 >>, FALSE)
Everything == [is |-> "and", of |-> << >>]

Boarded == Rows(1 :> ("statusId" :> 39 @@ Task(<< 2 >>))
                @@ 2 :> ("statusId" :> 39 @@ Task(<< 2 >>))
                @@ Statuses
                @@ 41 :> ("name" :> 60 @@ "layout" :> "kanban"
                          @@ "sort" :> "manual" @@ "filter" :> Everything
                          @@ "rank" :> << 2 >>))
Series == Rows(4 :> ("rrule" :> Rule("DAILY", 4) @@ "dtstart" :> 10
                     @@ Task(<< 2 >>)) @@ Statuses)

MCSynced ==
  [tree |-> Rows(1 :> Task(<< 2 >>) @@ 2 :> ("parentId" :> 1 @@ Task(<< 2 >>))
                 @@ 3 :> Task(<< 3 >>) @@ Statuses),
   columns |-> Boarded, views |-> Boarded,
   series |-> Series, rule |-> Series,
   names |-> Rows(Statuses), filters |-> Rows(Statuses),
   statuses |-> Rows(1 :> Task(<< 2 >>) @@ 2 :> Task(<< 3 >>) @@ Statuses),
   order |-> Rows(1 :> Task(<< 2 >>) @@ 2 :> Task(<< 2 >>) @@ 3 :> Task(<< 2 >>)
                  @@ 4 :> Task(<< 3 >>) @@ Statuses),
   seeds |-> Rows(1 :> Task(<< 2 >>) @@ 2 :> Task(<< 3 >>))]

(* The commands.                                                           *)
Add(title, parent, project, tags) ==
  [do |-> "add", title |-> title, priority |-> 4, parent |-> parent,
   project |-> project, tags |-> tags, rule |-> Null]
Mark(m, t, on) == [do |-> "mark", mark |-> m, task |-> t, on |-> on]
Drop(t, view, after) ==
  [do |-> "move", task |-> t, view |-> view, after |-> after]
DropIn(t, s, after) ==
  [do |-> "move", task |-> t, view |-> 41, status |-> s, after |-> after]
Relabel(t, project, tags) ==
  [do |-> "edit", task |-> t, fields |-> << << "dueOn", 13 >> >>,
   project |-> project, tags |-> tags]
On(command, t) == [do |-> command, task |-> t]
Under(t, p) == [do |-> "reparent", task |-> t, parent |-> p]
Repeat(t, rule) == [do |-> "setRecurrence", task |-> t, rule |-> rule]

MCMenu ==
  [tree |->
     << {Add(1, 1, Null, {}), On("deleteTask", 1), Under(3, 1)},
        {Under(1, 3), On("deleteTask", 2)} >>,
   columns |->
     << {[do |-> "setCompleting", status |-> 39], DropIn(1, 38, Null)},
        {[do |-> "deleteStatus", status |-> 39],
         [do |-> "saveStatus", status |-> 37, name |-> 71, after |-> 38]} >>,
   views |->
     << {[do |-> "saveView", view |-> 41, name |-> 60, layout |-> "list",
          sort |-> "due", filter |-> Everything],
         DropIn(2, 37, Null)},
        {[do |-> "saveView", view |-> 41, name |-> 61, layout |-> "kanban",
          sort |-> "manual", filter |-> [is |-> "status", id |-> 39]],
         [do |-> "deleteView", view |-> 41]} >>,
   series |->
     << {Mark("done", 4, Null), On("undoMove", 5),
         [do |-> "moveOccurrence", task |-> 4, occurrence |-> 11, to |-> 14]},
        {Mark("skip", 4, 11),
         [Add(2, Null, Null, {}) EXCEPT
            !.rule = [rule |-> Rule("WEEKLY", 0), dtstart |-> 11]]} >>,
   rule |->
     << {Repeat(4, Null), Mark("done", 4, Null), Mark("skip", 4, 12)},
        {Mark("undo", 4, Null),
         Repeat(4, [rule |-> Rule("WEEKLY", 0), dtstart |-> 11])} >>,
   names |->
     << {Add(1, Null, 80, {90})},
        {Add(2, Null, 81, {91}), Add(3, Null, 80, {})} >>,
   filters |->
     << {Add(1, Null, Null, {90}),
         [do |-> "saveView", view |-> Null, name |-> 60, layout |-> "list",
          sort |-> "manual", filter |-> [is |-> "tag", id |-> 22]]},
        {Add(2, Null, Null, {91}), Relabel(6, 80, {100})} >>,
   statuses |->
     << {[do |-> "saveStatus", status |-> Null, name |-> 70], Mark("done", 1, Null)},
        {[do |-> "saveStatus", status |-> Null, name |-> 71],
         Mark("undo", 1, Null)} >>,
   order |->
     << {Drop(1, Null, 3), Drop(4, Null, 1)},
        {Drop(3, Null, Null), Drop(2, Null, 4)} >>,
   seeds |->
     << {Mark("done", 1, Null)}, {Mark("done", 2, Null)} >>]

(* Rules compared with their meaning, over a leap year.                    *)
Of(freq, byDay) == [Rule(freq, 0) EXCEPT !.byDay = byDay]
Weekdays == {0} \X (0 .. 4)
MCRules ==
  {[Rule("DAILY", 0) EXCEPT !.interval = 3],
   [Rule("DAILY", 3) EXCEPT !.byMonthDay = {-1}],
   [Of("DAILY", {<< 0, 4 >>}) EXCEPT !.byMonth = {2}],
   [Of("WEEKLY", {<< 0, 0 >>, << 0, 6 >>}) EXCEPT !.interval = 2, !.wkst = 6],
   [Of("WEEKLY", {<< 0, 1 >>, << 0, 3 >>}) EXCEPT !.bySetPos = {-1}, !.count = 3],
   [Rule("WEEKLY", 0) EXCEPT !.byMonth = {3}],
   Rule("MONTHLY", 4),
   [Rule("MONTHLY", 0) EXCEPT !.byMonthDay = {29, -1}],
   Of("MONTHLY", {<< 2, 1 >>, << -1, 4 >>}),
   [Of("MONTHLY", Weekdays) EXCEPT !.bySetPos = {-1}, !.interval = 2],
   Rule("YEARLY", 0),
   [Rule("YEARLY", 0) EXCEPT !.byMonth = {2, 4}],
   Of("YEARLY", {<< 20, 0 >>, << -1, 6 >>}),
   [Of("YEARLY", {<< 1, 6 >>}) EXCEPT !.byMonth = {3, 11}, !.until = dayOf(1972, 11, 30)],
   [Rule("YEARLY", 3) EXCEPT !.byMonthDay = {1}, !.bySetPos = {2, -1}]}
Starts == {dayOf(1972, 1, 31), dayOf(1972, 2, 29), dayOf(1972, 3, 2)}

\* The occurrences expand.ts finds by walking the periods of a rule are those
\* the rule means, wherever the window starts (expand.ts:96-215): COUNT counts
\* from dtstart, weeks start on WKST, a short month is skipped.
ExpandIsRule ==
  menu = "seeds" /\ clock = 2 /\ todo = Menu[menu] =>
    \A rule \in MCRules, start \in Starts, ahead \in {0, 40} :
      expand(rule, start, start + ahead, start + 400)
        = Meant(rule, start, start + ahead, start + 400)
=============================================================================
