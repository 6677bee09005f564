---------------------------- MODULE TerminalProofs ----------------------------
(***************************************************************************)
(* What the terminal app promises of a resend, for every list of tasks,    *)
(* every view and every order of keys, answers and publications:           *)
(* Terminal's AddsOnce and RefusalIsLatest.                                *)
(*                                                                         *)
(* Few steps touch what the two are about.  Kept says of the interface     *)
(* that a step leaves the row being added and the fields' writes alone,    *)
(* EngineStep of the engine that a step sends nothing of theirs; a lemma   *)
(* for each handler says so of it, and the frames RowFrame and FieldFrame  *)
(* carry the invariant over such a step.  The steps of the row and of the  *)
(* fields are then proved one by one.                                      *)
(*                                                                         *)
(* The invariant, Inv, has a part for each promise.  RowInv: the row waits *)
(* for one answer at a time, the draft whose add can still be sent again   *)
(* has one operation, the one that is held, a refusal that cannot be sent  *)
(* again is final, and each draft but the last cost an edit.  FieldInv:    *)
(* the number of a draft names one value, and the operation last sent for  *)
(* a draft that waits or stands refused is held or has its verdict.        *)
(***************************************************************************)
EXTENDS Terminal, FiniteSetTheorems, TLAPS

----------------------------------------------------------------------------
(* What most steps leave alone: the row being added and the fields' writes. *)

\* The parts of the interface that count, each with its fields.
UiShape(u) ==
  /\ {"outline", "detail"} \subseteq DOMAIN u
  /\ {"adding", "held", "ids", "edits"} \subseteq DOMAIN u.outline
  /\ {"open", "held", "refusals", "latest", "sent"} \subseteq DOMAIN u.detail

SameRow(u, v) ==
  /\ v.outline.adding = u.outline.adding /\ v.outline.held = u.outline.held
  /\ v.outline.ids = u.outline.ids /\ v.outline.edits = u.outline.edits
SameFields(u, v) ==
  /\ v.detail.held = u.detail.held /\ v.detail.refusals \subseteq u.detail.refusals
  /\ v.detail.latest = u.detail.latest /\ v.detail.sent = u.detail.sent
  /\ v.detail.open \subseteq u.detail.open
Kept(u, v) == UiShape(v) /\ SameRow(u, v) /\ SameFields(u, v)

LEMMA KeptSame ==
  ASSUME NEW u, UiShape(u)
  PROVE  Kept(u, u)
BY DEF Kept, SameRow, SameFields

LEMMA KeptTwice ==
  ASSUME NEW u, NEW v, NEW w, Kept(u, v), Kept(v, w)
  PROVE  Kept(u, w)
BY DEF Kept, SameRow, SameFields

\* Another part of the process, and the rest of the two that count.
LEMMA KeptPart ==
  ASSUME NEW u, UiShape(u), NEW x, NEW k, k \notin {"outline", "detail"}
  PROVE  Kept(u, [u EXCEPT ![k] = x])
BY DEF Kept, SameRow, SameFields, UiShape

LEMMA KeptOutline ==
  ASSUME NEW u, UiShape(u), NEW x, NEW k, k \notin {"adding", "held", "ids", "edits"}
  PROVE  Kept(u, [u EXCEPT !.outline[k] = x])
BY DEF Kept, SameRow, SameFields, UiShape

LEMMA KeptPinned ==
  ASSUME NEW u, UiShape(u), NEW t
  PROVE  Kept(u, pinned(u, t))
BY KeptSame, KeptOutline DEF pinned, pinnedIn

LEMMA KeptShow ==
  ASSUME NEW u, UiShape(u), NEW task
  PROVE  Kept(u, show(u, task))
<1>1. Kept(u, [u EXCEPT !.task = task, !.detail.open = {}])
  BY DEF Kept, SameRow, SameFields, UiShape
<1> QED
  BY <1>1, KeptSame DEF show

LEMMA KeptSelect ==
  ASSUME NEW u, UiShape(u), NEW t
  PROVE  Kept(u, select(u, t))
BY KeptSame, KeptShow DEF select

LEMMA KeptLook ==
  ASSUME NEW u, UiShape(u), NEW t
  PROVE  Kept(u, look(u, t))
<1> DEFINE now == selected(u, t)
           v == [u EXCEPT !.selected = now]
<1>1. Kept(u, v) /\ UiShape(v)
  BY KeptPart DEF Kept
<1>2. Kept(v, select(v, t))
  BY <1>1, KeptSelect
<1>3. Kept(u, select(v, t))
  BY <1>1, <1>2, KeptTwice
<1> QED
  BY <1>3, KeptSame DEF look, seen

LEMMA KeptSync ==
  ASSUME NEW u, UiShape(u), NEW t
  PROVE  Kept(u, sync(u, t))
<1>1. Kept(u, pinned(u, t)) /\ UiShape(pinned(u, t))
  BY KeptPinned DEF Kept
<1>2. Kept(pinned(u, t), look(pinned(u, t), t))
  BY <1>1, KeptLook
<1>3. Kept(u, look(pinned(u, t), t))
  BY <1>1, <1>2, KeptTwice
<1> QED
  BY <1>3, KeptLook DEF sync

LEMMA KeptReveal ==
  ASSUME NEW u, UiShape(u), NEW t, NEW task
  PROVE  Kept(u, reveal(u, t, task))
<1>1. \A c : Kept(u, [u EXCEPT !.board.col = c, !.board.follow = task])
  BY DEF Kept, SameRow, SameFields, UiShape
<1> QED
  BY <1>1, KeptSame DEF reveal, revealAmong, revealIn

LEMMA KeptFocus ==
  ASSUME NEW u, UiShape(u), NEW t, NEW next
  PROVE  Kept(u, setFocus(u, t, next))
<1> DEFINE f == [u EXCEPT !.focus = next]
           r == reveal(f, t, f.task)
           s == IF list(f, t) = "board" /\ f.task # NoTask THEN sync(r, t) ELSE f
<1>1. Kept(u, f) /\ UiShape(f)
  BY KeptPart DEF Kept
<1>2. Kept(f, r) /\ UiShape(r)
  BY <1>1, KeptReveal DEF Kept
<1>3. Kept(r, sync(r, t))
  BY <1>2, KeptSync
<1>4. Kept(f, sync(r, t))
  BY <1>2, <1>3, KeptTwice
<1>5. Kept(f, s) /\ UiShape(s)
  BY <1>1, <1>4, KeptSame DEF Kept
<1>6. Kept(s, select(s, t))
  BY <1>5, KeptSelect
<1>7. Kept(u, select(s, t))
  BY <1>1, <1>5, <1>6, KeptTwice
<1> QED
  BY <1>1, <1>7 DEF setFocus, leftDetails

LEMMA KeptClose ==
  ASSUME NEW u, UiShape(u), NEW t
  PROVE  Kept(u, closeOverlay(u, t))
BY KeptSame, KeptFocus DEF closeOverlay

LEMMA KeptPick ==
  ASSUME NEW u, UiShape(u), NEW t, NEW key
  PROVE  Kept(u, pick(u, t, key))
<1> DEFINE v == [u EXCEPT !.current = key, !.layout = NoLayout]
           w == start(v)
           s == sync(w, t)
<1>1. Kept(u, v) /\ UiShape(v)
  BY DEF Kept, SameRow, SameFields, UiShape
<1>2. Kept(v, w) /\ UiShape(w)
  BY <1>1 DEF Kept, SameRow, SameFields, UiShape, start
<1>3. Kept(w, s) /\ UiShape(s)
  BY <1>2, KeptSync DEF Kept
<1>4. Kept(s, closeOverlay(s, t))
  BY <1>3, KeptClose
<1> QED
  BY <1>1, <1>2, <1>3, <1>4, KeptTwice DEF pick

LEMMA KeptPublished ==
  ASSUME NEW u, UiShape(u), NEW t
  PROVE  Kept(u, published(u, t))
<1>1. Kept(u, sync(u, t)) /\ UiShape(sync(u, t))
  BY KeptSync DEF Kept
<1>2. Kept(sync(u, t), pick(sync(u, t), t, All))
  BY <1>1, KeptPick
<1>3. Kept(u, pick(sync(u, t), t, All))
  BY <1>1, <1>2, KeptTwice
<1> QED
  BY <1>1, <1>3 DEF published, fallback

----------------------------------------------------------------------------
(* The engine.                                                             *)

EngineShape(e) ==
  {"calls", "slow", "applied", "refused", "sent", "minted", "created", "others"}
    \subseteq DOMAIN e

Minting(e) == {NewTasks[k] : k \in 1 .. e.minted}
adds(e) == {c \in e.calls \cup e.slow : c.kind = "add"}
rowCalls(e) == {c \in e.calls : c.from[1] \in {"add", "placed"}}
fieldCalls(e) == {c \in e.calls : c.from[1] = "field"}
Said(e) == e.applied \cup e.refused

Counts(e) == e.sent \in Nat /\ e.minted \in 0 .. Len(NewTasks)

\* What every step but a send of the row leaves true of its writes, and every
\* step but a send of a field of the fields'.
AddStep(e, f) ==
  /\ f.minted \in e.minted .. Len(NewTasks)
  /\ \A c \in rowCalls(f) : c.from[1] = "add" => c \in rowCalls(e)
  /\ \A c \in adds(f) : c \in adds(e) \/ c.task \in Minting(f) \ Minting(e)
  /\ \A c \in f.calls : c \in e.calls \/ c.kind # "add" \/ c.task \notin Minting(e)
  /\ e.refused \subseteq f.refused /\ e.applied \subseteq f.applied
  /\ \A i \in f.created : \/ i \in e.created
                           \/ \E c \in adds(e) : /\ c.task = i /\ c.op \notin e.refused
                                                 /\ c.op \in f.applied
RowStep(e, f) == AddStep(e, f) /\ rowCalls(f) \subseteq rowCalls(e)
FieldStep(e, f) ==
  /\ f.sent \in Nat /\ e.sent <= f.sent
  /\ fieldCalls(f) \subseteq fieldCalls(e)
  /\ Said(e) \subseteq Said(f)
EngineStep(e, f) == EngineShape(f) /\ Counts(f) /\ RowStep(e, f) /\ FieldStep(e, f)

LEMMA NewTasksApart ==
  /\ Len(NewTasks) \in Nat /\ DOMAIN NewTasks = 1 .. Len(NewTasks)
  /\ \A k \in 1 .. Len(NewTasks) : NewTasks[k] \in ToSet(NewTasks) /\ NewTasks[k] # NoTask
BY NewTasksAssumption DEF NewTasksAssumption, ToSet

LEMMA MintedNext ==
  ASSUME NEW e, Counts(e), e.minted < Len(NewTasks)
  PROVE  /\ NewTasks[e.minted + 1] \notin Minting(e)
         /\ \A f : f.minted = e.minted + 1 =>
              /\ f.minted \in e.minted .. Len(NewTasks) /\ f.minted \in 0 .. Len(NewTasks)
              /\ Minting(f) = Minting(e) \cup {NewTasks[e.minted + 1]}
<1>1. e.minted \in Nat /\ e.minted + 1 \in 1 .. Len(NewTasks)
  BY NewTasksApart DEF Counts
<1>2. ASSUME NEW k \in 1 .. e.minted
      PROVE  NewTasks[k] # NewTasks[e.minted + 1]
  <2>1. k \in DOMAIN NewTasks /\ e.minted + 1 \in DOMAIN NewTasks /\ k # e.minted + 1
    BY <1>1, <1>2, NewTasksApart
  <2> QED
    BY <2>1, NewTasksAssumption DEF NewTasksAssumption
<1>3. ASSUME NEW f, f.minted = e.minted + 1
      PROVE  /\ f.minted \in e.minted .. Len(NewTasks) /\ f.minted \in 0 .. Len(NewTasks)
             /\ Minting(f) = Minting(e) \cup {NewTasks[e.minted + 1]}
  <2>1. 1 .. e.minted + 1 = 1 .. e.minted \cup {e.minted + 1}
    BY <1>1
  <2> QED
    BY <1>1, <1>3, <2>1, NewTasksApart DEF Minting
<1> QED
  BY <1>2, <1>3 DEF Minting

LEMMA EngineStays ==
  ASSUME NEW e, EngineShape(e), Counts(e)
  PROVE  EngineStep(e, e)
BY NewTasksApart DEF EngineStep, RowStep, AddStep, FieldStep, Counts

LEMMA WriteStep ==
  ASSUME NEW e, EngineShape(e), Counts(e), NEW r, NEW op,
         r.kind # "add", r.from[1] \notin {"add", "placed", "field"}
  PROVE  EngineStep(e, under_op(e, r, op))
<1> DEFINE f == under_op(e, r, op)
           c == numbered(e, r, op)
<1>1. /\ f.calls = e.calls \cup {c} /\ f.slow = e.slow /\ f.sent = e.sent + 1
      /\ f.minted = e.minted /\ f.applied = e.applied /\ f.refused = e.refused
      /\ f.created = e.created /\ EngineShape(f)
  BY DEF under_op, EngineShape
<1>2. c.kind # "add" /\ c.from[1] \notin {"add", "placed", "field"}
  BY DEF numbered
<1> HIDE DEF f, c
<1>3. adds(f) = adds(e) /\ rowCalls(f) = rowCalls(e) /\ fieldCalls(f) = fieldCalls(e)
  BY <1>1, <1>2 DEF adds, rowCalls, fieldCalls
<1>4. EngineStep(e, f)
  BY <1>1, <1>2, <1>3, NewTasksApart DEF EngineStep, RowStep, AddStep, FieldStep, Counts, Said
<1> QED
  BY <1>4 DEF f

LEMMA CardStep ==
  ASSUME NEW e, EngineShape(e), Counts(e), e.minted < Len(NewTasks)
  PROVE  EngineStep(e, [write(e, request("add", NewTasks[e.minted + 1], NoTask, <<"card">>))
                          EXCEPT !.minted = @ + 1])
<1> DEFINE r == request("add", NewTasks[e.minted + 1], NoTask, <<"card">>)
           c == numbered(e, r, e.sent + 1)
           f == [write(e, r) EXCEPT !.minted = @ + 1]
<1>1. /\ f.calls = e.calls \cup {c} /\ f.slow = e.slow /\ f.sent = e.sent + 1
      /\ f.minted = e.minted + 1 /\ f.applied = e.applied /\ f.refused = e.refused
      /\ f.created = e.created /\ EngineShape(f)
  BY DEF write, under_op, EngineShape
<1>2. c.task = NewTasks[e.minted + 1] /\ c.from = <<"card">>
  BY DEF numbered, request
<1> HIDE DEF f, c
<1>3. adds(f) \subseteq adds(e) \cup {c}
  BY <1>1 DEF adds
<1>4. rowCalls(f) = rowCalls(e) /\ fieldCalls(f) = fieldCalls(e)
  BY <1>1, <1>2 DEF rowCalls, fieldCalls
<1>5. /\ f.minted \in e.minted .. Len(NewTasks) /\ f.minted \in 0 .. Len(NewTasks)
      /\ c.task \in Minting(f) \ Minting(e)
  BY <1>1, <1>2, MintedNext
<1>6. EngineStep(e, f)
  BY <1>1, <1>3, <1>4, <1>5 DEF EngineStep, RowStep, AddStep, FieldStep, Counts, Said
<1> QED
  BY <1>6 DEF f

LEMMA TakeStep ==
  ASSUME EngineShape(engine), Counts(engine), Take
  PROVE  EngineStep(engine, engine')
<1>1. PICK c \in engine.calls \cup engine.slow :
        /\ c.op \notin engine.applied \cup engine.refused
        /\ engine' = [engine EXCEPT !.applied = @ \cup {c.op},
                        !.slow = {s \in @ : s.op # c.op},
                        !.created = IF c.kind = "add" THEN @ \cup {c.task} ELSE @]
  BY DEF Take
<1>2. /\ engine'.calls = engine.calls /\ engine'.slow \subseteq engine.slow
      /\ engine'.applied = engine.applied \cup {c.op} /\ engine'.refused = engine.refused
      /\ engine'.sent = engine.sent /\ engine'.minted = engine.minted
      /\ engine'.created = IF c.kind = "add" THEN engine.created \cup {c.task}
                           ELSE engine.created
      /\ EngineShape(engine')
  BY <1>1 DEF EngineShape
<1>3. /\ adds(engine') \subseteq adds(engine) /\ rowCalls(engine') = rowCalls(engine)
      /\ fieldCalls(engine') = fieldCalls(engine)
      /\ c.kind = "add" => c \in adds(engine)
  BY <1>2 DEF adds, rowCalls, fieldCalls
<1>4. \A i \in engine'.created :
        \/ i \in engine.created
        \/ \E a \in adds(engine) : /\ a.task = i /\ a.op \notin engine.refused
                                 /\ a.op \in engine'.applied
  <2>1. c.op \notin engine.refused
    BY <1>1
  <2>2. CASE c.kind = "add"
    BY <1>2, <1>3, <2>1, <2>2
  <2>3. CASE c.kind # "add"
    BY <1>2, <2>3
  <2> QED
    BY <2>2, <2>3
<1>5. RowStep(engine, engine')
  BY <1>2, <1>3, <1>4, NewTasksApart DEF RowStep, AddStep, Counts
<1> QED
  BY <1>2, <1>3, <1>5 DEF EngineStep, FieldStep, Counts, Said

\* An answer takes the call from those that wait, and may leave it to be
\* applied later.
LEMMA AnsweredStep ==
  ASSUME EngineShape(engine), Counts(engine), NEW c \in engine.calls, NEW r
  PROVE  LET f == answered(c, r)
         IN  /\ EngineShape(f) /\ Counts(f) /\ FieldStep(engine, f)
             /\ f.calls = engine.calls \ {c}
             /\ f.slow = IF r = "retry" /\ c.op \notin engine.applied
                         THEN engine.slow \cup {c} ELSE engine.slow
             /\ f.refused = IF r = "no" THEN engine.refused \cup {c.op} ELSE engine.refused
             /\ f.applied = engine.applied /\ f.created = engine.created
             /\ f.sent = engine.sent /\ f.minted = engine.minted
             /\ adds(f) \subseteq adds(engine)
             /\ rowCalls(f) = rowCalls(engine) \ {c}
             /\ RowStep(engine, f)
<1> DEFINE f == answered(c, r)
<1>1. /\ EngineShape(f) /\ f.calls = engine.calls \ {c}
      /\ f.slow = IF r = "retry" /\ c.op \notin engine.applied
                  THEN engine.slow \cup {c} ELSE engine.slow
      /\ f.refused = IF r = "no" THEN engine.refused \cup {c.op} ELSE engine.refused
      /\ f.applied = engine.applied /\ f.created = engine.created
      /\ f.sent = engine.sent /\ f.minted = engine.minted
  BY DEF answered, EngineShape
<1> HIDE DEF f
<1>2. adds(f) \subseteq adds(engine) /\ fieldCalls(f) \subseteq fieldCalls(engine)
  BY <1>1 DEF adds, fieldCalls
<1>3. Counts(f) /\ FieldStep(engine, f)
  BY <1>1, <1>2 DEF Counts, FieldStep, Said
<1>4. rowCalls(f) = rowCalls(engine) \ {c}
  BY <1>1 DEF rowCalls
<1>5. RowStep(engine, f)
  BY <1>1, <1>2, <1>4, NewTasksApart DEF RowStep, AddStep, Counts
<1> QED
  BY <1>1, <1>2, <1>3, <1>4, <1>5 DEF f

\* A write that follows an answer.
LEMMA StepsCompose ==
  ASSUME NEW e, NEW f, NEW g, Counts(e), EngineStep(e, f), EngineStep(f, g),
         f.created \subseteq e.created, g.created \subseteq f.created
  PROVE  EngineStep(e, g)
<1>1. Minting(e) \subseteq Minting(f) /\ Minting(f) \subseteq Minting(g)
  BY NewTasksApart DEF EngineStep, RowStep, AddStep, Counts, Minting
<1>2. RowStep(e, g)
  BY <1>1, NewTasksApart DEF EngineStep, RowStep, AddStep, Counts
<1> QED
  BY <1>2 DEF EngineStep, FieldStep, Counts

----------------------------------------------------------------------------
(* The invariants.                                                         *)

\* The tasks the row can have added, or can yet add.
Possible(u, e) ==
  {i \in u.outline.ids : \/ i \in e.created
                         \/ \E c \in adds(e) : c.task = i /\ c.op \notin e.refused}

\* What was sent was minted before.
SentMinted(u, e) ==
  /\ e.created \cup u.outline.ids \cup {c.task : c \in adds(e)} \subseteq Minting(e)
  /\ u.outline.held # None => u.outline.held[1][1] \in Minting(e)
  /\ IsFiniteSet(u.outline.ids) /\ u.outline.edits \in Nat

\* The row waits for one answer at a time.
OneRow(u, e) ==
  /\ \A a, b \in u.outline.adding : a = b
  /\ \A a \in u.outline.adding :
       {"draft", "text", "parent", "saving", "refusal"} \subseteq DOMAIN a
  /\ \A c, d \in rowCalls(e) : c = d
  /\ \A c \in rowCalls(e) : \E a \in u.outline.adding :
       a.saving /\ (c.from[1] = "add" => c.kind = "add" /\ c.task = a.draft)
  /\ \A c \in e.calls : c.kind = "add" /\ c.task \in u.outline.ids => c \in rowCalls(e)

\* While an add can be sent again its draft has one operation, the one held.
Asked(a, e) ==
  IF a.saving THEN \E c \in rowCalls(e) : c.from[1] = "add" ELSE a.refusal = "retry"
HeldIsSent(u, e) ==
  \A a \in u.outline.adding : Asked(a, e) =>
    /\ u.outline.held # None /\ u.outline.held[1] = <<a.draft, a.text, a.parent>>
    /\ a.draft \in e.created => u.outline.held[2] \in e.applied
    /\ \A c \in adds(e) : c.task = a.draft => c.op = u.outline.held[2]

\* A refusal that cannot be sent again is final.
Final(u, e) ==
  \A a \in u.outline.adding : ~a.saving /\ a.refusal # "retry" => a.draft \notin Possible(u, e)

\* An edit accounts for each draft but the last.
Counted(u, e) ==
  /\ Cardinality(Possible(u, e)) <= 1 + u.outline.edits
  /\ \A a \in u.outline.adding :
       /\ a.draft \notin u.outline.ids => u.outline.ids = {} /\ a.draft = NoTask
       /\ Cardinality(Possible(u, e) \ {a.draft}) <= u.outline.edits

RowInv(u, e) ==
  SentMinted(u, e) /\ OneRow(u, e) /\ HeldIsSent(u, e) /\ Final(u, e) /\ Counted(u, e)

\* The drafts that wait or stand refused: key, number and value.
Drafts(u, e) ==
  {<<c.from[2], c.from[3], c.to>> : c \in fieldCalls(e)}
    \cup {<<r.key, r.draft, r.value>> : r \in u.detail.refusals}
DraftsApart(u, e) ==
  \A x, y \in Drafts(u, e) : x[1] = y[1] /\ x[2] = y[2] => x[3] = y[3]
DraftsPast(u, e) == \A x \in Drafts(u, e) : x[2] \in 1 .. e.sent

\* The operation last sent for a draft is held, or has its verdict.
Backed(u, e, s, key, value) ==
  \/ [key |-> key, value |-> value, op |-> s.op] \in u.detail.held
  \/ s.op \in Said(e)
LatestBacked(u, e) ==
  \A c \in fieldCalls(e) : [key |-> c.from[2], draft |-> c.from[3]] \in u.detail.latest =>
    \E s \in u.detail.sent : /\ s.key = c.from[2] /\ s.draft = c.from[3]
                            /\ Backed(u, e, s, c.from[2], c.to)
RefusedBacked(u, e) ==
  \A r \in u.detail.refusals : \E s \in u.detail.sent :
    /\ s.key = r.key /\ s.draft = r.draft
    /\ r.retryable => Backed(u, e, s, r.key, r.value)

\* The editors open are fields'.
AreFields(S) == \A o \in S : "key" \in DOMAIN o /\ o.key[2] \in {"title", "column", "rule"}

FieldInv(u, e) ==
  /\ AreFields(u.detail.open)
  /\ DraftsApart(u, e) /\ DraftsPast(u, e) /\ LatestBacked(u, e) /\ RefusedBacked(u, e)

LEMMA FieldFrame ==
  ASSUME NEW u, NEW v, NEW e, NEW f, Counts(e),
         FieldInv(u, e), SameFields(u, v), FieldStep(e, f)
  PROVE  FieldInv(v, f)
<1>1. Drafts(v, f) \subseteq Drafts(u, e)
  BY DEF Drafts, SameFields, FieldStep
<1>2. \A n \in 1 .. e.sent : n \in 1 .. f.sent
  BY DEF Counts, FieldStep
<1>3. DraftsApart(v, f) /\ DraftsPast(v, f)
  BY <1>1, <1>2 DEF FieldInv, DraftsApart, DraftsPast
<1>4. \A s, key, value : Backed(u, e, s, key, value) => Backed(v, f, s, key, value)
  BY DEF Backed, SameFields, FieldStep
<1>5. LatestBacked(v, f)
  BY <1>4 DEF FieldInv, LatestBacked, SameFields, FieldStep
<1>6. RefusedBacked(v, f)
  BY <1>4 DEF FieldInv, RefusedBacked, SameFields
<1>7. AreFields(v.detail.open)
  BY DEF FieldInv, AreFields, SameFields
<1> QED
  BY <1>3, <1>5, <1>6, <1>7 DEF FieldInv

LEMMA PossibleFinite ==
  ASSUME NEW u, NEW e, SentMinted(u, e)
  PROVE  /\ IsFiniteSet(Possible(u, e)) /\ Cardinality(Possible(u, e)) \in Nat
         /\ \A P : P \subseteq Possible(u, e) =>
              /\ IsFiniteSet(P) /\ Cardinality(P) \in Nat
              /\ Cardinality(P) <= Cardinality(Possible(u, e))
              /\ \A Q : Q \subseteq P => IsFiniteSet(Q) /\ Cardinality(Q) <= Cardinality(P)
<1>1. IsFiniteSet(Possible(u, e))
  BY FS_Subset DEF Possible, SentMinted
<1> QED
  BY <1>1, FS_Subset, FS_CardinalityType

LEMMA AddFrame ==
  ASSUME NEW u, NEW v, NEW e, NEW f, Counts(e), Counts(f),
         RowInv(u, e), SameRow(u, v), AddStep(e, f)
  PROVE  /\ SentMinted(v, f) /\ HeldIsSent(v, f) /\ Final(v, f) /\ Counted(v, f)
         /\ Possible(v, f) \subseteq Possible(u, e)
<1> USE DEF SameRow
<1>1. Minting(e) \subseteq Minting(f) /\ NoTask \notin Minting(f)
  BY NewTasksApart DEF AddStep, AddStep, Counts, Minting
<1>2. SentMinted(v, f)
  BY <1>1 DEF RowInv, SentMinted, AddStep
<1>3. ASSUME NEW i \in u.outline.ids
      PROVE  i \in Possible(v, f) => i \in Possible(u, e)
  <2>1. i \in Minting(e)
    BY DEF RowInv, SentMinted
  <2>2. \A c \in adds(f) : c.task = i => c \in adds(e)
    BY <2>1 DEF AddStep
  <2> QED
    BY <2>2 DEF Possible, AddStep
<1>4. Possible(v, f) \subseteq Possible(u, e)
  BY <1>3 DEF Possible
<1>5. HeldIsSent(v, f)
  <2> SUFFICES ASSUME NEW a \in u.outline.adding, Asked(a, f)
               PROVE  /\ u.outline.held # None
                      /\ u.outline.held[1] = <<a.draft, a.text, a.parent>>
                      /\ a.draft \in f.created => u.outline.held[2] \in f.applied
                      /\ \A c \in adds(f) : c.task = a.draft => c.op = u.outline.held[2]
    BY DEF HeldIsSent
  <2>1. Asked(a, e)
    BY DEF Asked, AddStep
  <2>2. /\ u.outline.held # None /\ u.outline.held[1] = <<a.draft, a.text, a.parent>>
        /\ a.draft \in e.created => u.outline.held[2] \in e.applied
        /\ \A c \in adds(e) : c.task = a.draft => c.op = u.outline.held[2]
    BY <2>1 DEF RowInv, HeldIsSent
  <2>3. a.draft \in Minting(e)
    BY <2>2 DEF RowInv, SentMinted
  <2>4. a.draft \in f.created => u.outline.held[2] \in f.applied
    BY <2>2 DEF AddStep
  <2>5. \A c \in adds(f) : c.task = a.draft => c.op = u.outline.held[2]
    BY <2>2, <2>3 DEF AddStep
  <2> QED
    BY <2>2, <2>4, <2>5
<1>6. Final(v, f)
  BY <1>4 DEF RowInv, Final
<1>7. Counted(v, f)
  <2>1. SentMinted(u, e) /\ Counted(u, e) /\ u.outline.edits \in Nat
    BY DEF RowInv, SentMinted
  <2>2. Cardinality(Possible(v, f)) <= Cardinality(Possible(u, e))
        /\ Cardinality(Possible(v, f)) \in Nat /\ Cardinality(Possible(u, e)) \in Nat
    BY <1>4, <2>1, PossibleFinite
  <2>3. ASSUME NEW a \in u.outline.adding
        PROVE  Cardinality(Possible(v, f) \ {a.draft}) <= u.outline.edits
    <3>1. Possible(v, f) \ {a.draft} \subseteq Possible(u, e) \ {a.draft}
          /\ Possible(u, e) \ {a.draft} \subseteq Possible(u, e)
      BY <1>4
    <3>2. /\ Cardinality(Possible(v, f) \ {a.draft}) \in Nat
          /\ Cardinality(Possible(u, e) \ {a.draft}) \in Nat
          /\ Cardinality(Possible(v, f) \ {a.draft}) <= Cardinality(Possible(u, e) \ {a.draft})
      BY <1>4, <2>1, <3>1, PossibleFinite
    <3> QED
      BY <2>1, <3>2 DEF Counted
  <2>4. Cardinality(Possible(v, f)) <= 1 + v.outline.edits
    <3>1. Cardinality(Possible(u, e)) <= 1 + u.outline.edits
      BY <2>1 DEF Counted
    <3> QED
      BY <2>1, <2>2, <3>1
  <2>5. \A a \in v.outline.adding :
          a.draft \notin v.outline.ids => v.outline.ids = {} /\ a.draft = NoTask
    BY <2>1 DEF Counted
  <2>6. \A a \in v.outline.adding : Cardinality(Possible(v, f) \ {a.draft}) <= v.outline.edits
    BY <2>3
  <2> HIDE DEF SameRow
  <2> QED
    BY <2>4, <2>5, <2>6 DEF Counted
<1> QED
  BY <1>2, <1>4, <1>5, <1>6, <1>7

LEMMA RowFrame ==
  ASSUME NEW u, NEW v, NEW e, NEW f, Counts(e), Counts(f),
         RowInv(u, e), SameRow(u, v), RowStep(e, f)
  PROVE  RowInv(v, f)
<1>1. ASSUME NEW c \in f.calls, c.kind = "add", c.task \in v.outline.ids
      PROVE  c \in rowCalls(f)
  <2>1. c.task \in Minting(e) /\ c.task \in u.outline.ids
    BY <1>1 DEF RowInv, SentMinted, SameRow
  <2>2. c \in e.calls
    BY <1>1, <2>1 DEF RowStep, AddStep
  <2> QED
    BY <1>1, <2>1, <2>2 DEF RowInv, OneRow, rowCalls
<1>2. OneRow(v, f)
  BY <1>1 DEF RowInv, OneRow, RowStep, SameRow
<1> QED
  BY <1>2, AddFrame DEF RowInv, RowStep

----------------------------------------------------------------------------
(* The row: opened, typed into, closed.                                    *)

LEMMA RowOpened ==
  ASSUME NEW u, NEW v, NEW e, NEW a, RowInv(u, e), rowCalls(e) = {},
         v.outline.adding = {a}, v.outline.held = u.outline.held,
         v.outline.ids = {}, v.outline.edits = 0,
         {"draft", "text", "parent", "saving", "refusal"} \subseteq DOMAIN a,
         a.draft = NoTask, ~a.saving, a.refusal = "none"
  PROVE  RowInv(v, e)
<1>1. Possible(v, e) = {}
  BY DEF Possible
<1>2. Cardinality({}) = 0 /\ IsFiniteSet({})
  BY FS_EmptySet
<1>3. SentMinted(v, e)
  BY <1>2 DEF RowInv, SentMinted
<1>4. OneRow(v, e)
  BY DEF OneRow
<1>5. HeldIsSent(v, e) /\ Final(v, e)
  BY <1>1 DEF HeldIsSent, Final, Asked
<1>6. Possible(v, e) \ {a.draft} = {}
  BY <1>1
<1>7. Counted(v, e)
  BY <1>1, <1>2, <1>6 DEF Counted
<1> QED
  BY <1>3, <1>4, <1>5, <1>7 DEF RowInv

LEMMA RowClosed ==
  ASSUME NEW u, NEW v, NEW e, RowInv(u, e), rowCalls(e) = {},
         v.outline.adding = {}, v.outline.held \in {u.outline.held, None},
         v.outline.ids = u.outline.ids, v.outline.edits = u.outline.edits
  PROVE  RowInv(v, e)
<1>1. Possible(v, e) = Possible(u, e)
  BY DEF Possible
<1>2. SentMinted(v, e) /\ OneRow(v, e)
  BY DEF RowInv, SentMinted, OneRow
<1>3. HeldIsSent(v, e) /\ Final(v, e) /\ Counted(v, e)
  BY <1>1 DEF RowInv, HeldIsSent, Final, Counted
<1> QED
  BY <1>2, <1>3 DEF RowInv

\* The row as it is, or with the answer to its add.
LEMMA RowChanged ==
  ASSUME NEW u, NEW v, NEW e, NEW a \in u.outline.adding, NEW b,
         RowInv(u, e), rowCalls(e) = {},
         v.outline.adding = {b}, v.outline.held \in {u.outline.held, None},
         v.outline.ids = u.outline.ids, v.outline.edits = u.outline.edits,
         {"draft", "text", "parent", "saving", "refusal"} \subseteq DOMAIN b,
         b.draft = a.draft, ~b.saving,
         b.refusal = "retry" =>
           /\ v.outline.held # None
           /\ v.outline.held[1] = <<b.draft, b.text, b.parent>>
           /\ b.draft \in e.created => v.outline.held[2] \in e.applied
           /\ \A c \in adds(e) : c.task = b.draft => c.op = v.outline.held[2],
         b.refusal # "retry" => a.draft \notin Possible(u, e)
  PROVE  RowInv(v, e)
<1>1. Possible(v, e) = Possible(u, e)
  BY DEF Possible
<1>2. SentMinted(v, e)
  BY DEF RowInv, SentMinted
<1>3. OneRow(v, e)
  BY DEF RowInv, OneRow
<1>4. HeldIsSent(v, e)
  BY DEF HeldIsSent, Asked
<1>5. Final(v, e)
  BY <1>1 DEF Final
<1>6. Counted(v, e)
  BY <1>1 DEF RowInv, Counted
<1> QED
  BY <1>2, <1>3, <1>4, <1>5, <1>6 DEF RowInv

LEMMA RowTyped ==
  ASSUME NEW u, NEW v, NEW e, NEW a \in u.outline.adding, NEW b,
         RowInv(u, e), rowCalls(e) = {}, ~a.saving,
         v.outline.adding = {b}, v.outline.held = u.outline.held,
         v.outline.ids = u.outline.ids, v.outline.edits = u.outline.edits,
         {"draft", "text", "parent", "saving", "refusal"} \subseteq DOMAIN b,
         b.draft = a.draft, b.text = a.text, b.parent = a.parent, b.saving = a.saving,
         b.refusal = a.refusal
  PROVE  RowInv(v, e)
<1>1. b.refusal = "retry" =>
        /\ v.outline.held # None
        /\ v.outline.held[1] = <<b.draft, b.text, b.parent>>
        /\ b.draft \in e.created => v.outline.held[2] \in e.applied
        /\ \A c \in adds(e) : c.task = b.draft => c.op = v.outline.held[2]
  BY DEF RowInv, HeldIsSent, Asked
<1>2. b.refusal # "retry" => a.draft \notin Possible(u, e)
  BY DEF RowInv, Final
<1> QED
  BY <1>1, <1>2, RowChanged

\* The add is done and its place is asked for.
LEMMA RowPlaces ==
  ASSUME NEW u, NEW v, NEW e, NEW r, EngineShape(e), Counts(e),
         RowInv(u, e), rowCalls(e) = {}, u.outline.adding # {},
         \A a \in u.outline.adding : a.saving,
         v.outline.adding = u.outline.adding, v.outline.held = None,
         v.outline.ids = u.outline.ids, v.outline.edits = u.outline.edits,
         r.kind = "place", r.from = <<"placed">>
  PROVE  /\ RowInv(v, write(e, r)) /\ EngineShape(write(e, r)) /\ Counts(write(e, r))
         /\ FieldStep(e, write(e, r))
<1> DEFINE f == write(e, r)
           c == numbered(e, r, e.sent + 1)
<1>1. /\ f.calls = e.calls \cup {c} /\ f.slow = e.slow /\ f.sent = e.sent + 1
      /\ f.minted = e.minted /\ f.applied = e.applied /\ f.refused = e.refused
      /\ f.created = e.created /\ EngineShape(f)
  BY DEF write, under_op, EngineShape
<1>2. c.kind = "place" /\ c.from = <<"placed">>
  BY DEF numbered
<1> HIDE DEF f, c
<1>3. adds(f) = adds(e) /\ rowCalls(f) = {c} /\ fieldCalls(f) = fieldCalls(e)
  BY <1>1, <1>2 DEF adds, rowCalls, fieldCalls
<1>4. Counts(f) /\ FieldStep(e, f)
  BY <1>1, <1>3 DEF Counts, FieldStep, Said
<1>5. Minting(f) = Minting(e) /\ Possible(v, f) = Possible(u, e)
  BY <1>1, <1>3 DEF Minting, Possible
<1>6. SentMinted(v, f)
  BY <1>1, <1>3, <1>5 DEF RowInv, SentMinted
<1>7. OneRow(v, f)
  BY <1>1, <1>2, <1>3 DEF RowInv, OneRow
<1>8. HeldIsSent(v, f) /\ Final(v, f)
  BY <1>2, <1>3 DEF HeldIsSent, Final, Asked
<1>9. Counted(v, f)
  BY <1>5 DEF RowInv, Counted
<1> QED
  BY <1>1, <1>4, <1>6, <1>7, <1>8, <1>9 DEF f, RowInv

----------------------------------------------------------------------------
(* The row's text is sent.                                                 *)

LEMMA OneOut ==
  ASSUME NEW S, IsFiniteSet(S), NEW x
  PROVE  /\ IsFiniteSet(S \ {x}) /\ Cardinality(S) \in Nat /\ Cardinality(S \ {x}) \in Nat
         /\ Cardinality(S) <= 1 + Cardinality(S \ {x})
         /\ x \notin S => Cardinality(S) = Cardinality(S \ {x})
<1>1. IsFiniteSet(S \ {x})
  BY FS_Subset
<1>2. Cardinality(S) \in Nat /\ Cardinality(S \ {x}) \in Nat
  BY <1>1, FS_CardinalityType
<1>3. CASE x \in S
  <2>1. Cardinality(S \ {x}) = Cardinality(S) - 1
    BY <1>3, FS_RemoveElement
  <2> QED
    BY <1>1, <1>2, <1>3, <2>1
<1>4. CASE x \notin S
  <2>1. S \ {x} = S
    BY <1>4
  <2> QED
    BY <1>1, <1>2, <1>4, <2>1
<1> QED
  BY <1>3, <1>4

\* A draft of the row sent: from u and e to v and f, as the call c.
Sends(u, v, e, f, a, b, c, id, text, op, again) ==
  /\ again \in BOOLEAN /\ again = sameDraft(a, text)
  /\ id = IF again THEN a.draft ELSE NewTasks[e.minted + 1]
  /\ op = IF u.outline.held # None /\ u.outline.held[1] = <<id, text, a.parent>>
          THEN u.outline.held[2] ELSE e.sent + 1
  /\ again \/ e.minted < Len(NewTasks)
  /\ f.calls = e.calls \cup {c} /\ f.slow = e.slow /\ f.applied = e.applied
  /\ f.refused = e.refused /\ f.created = e.created
  /\ f.minted = IF again THEN e.minted ELSE e.minted + 1
  /\ c.kind = "add" /\ c.task = id /\ c.op = op /\ c.from = <<"add">>
  /\ v.outline.held = << <<id, text, a.parent>>, op>>
  /\ v.outline.ids = u.outline.ids \cup {id}
  /\ v.outline.edits = IF a.draft # NoTask /\ a.text # text THEN u.outline.edits + 1
                       ELSE u.outline.edits
  /\ v.outline.adding = {b}
  /\ {"draft", "text", "parent", "saving", "refusal"} \subseteq DOMAIN b
  /\ b.draft = id /\ b.text = text /\ b.parent = a.parent /\ b.saving = TRUE

LEMMA SentStep ==
  ASSUME NEW u, NEW v, NEW e, NEW f, NEW a \in u.outline.adding, NEW b, NEW c, NEW id, NEW text,
         NEW op, NEW again,
         Counts(e), RowInv(u, e), ~a.saving,
         Sends(u, v, e, f, a, b, c, id, text, op, again)
  PROVE  RowInv(v, f)
<1> USE DEF Sends
<1>1. rowCalls(e) = {}
  BY DEF RowInv, OneRow
<1>2. rowCalls(f) = {c} /\ adds(f) = adds(e) \cup {c}
  BY <1>1 DEF rowCalls, adds
<1>3. SentMinted(u, e) /\ u.outline.edits \in Nat
  BY DEF RowInv, SentMinted
<1>4. NoTask \notin Minting(e)
  BY NewTasksApart DEF Minting, Counts
<1>5. Minting(f) = Minting(e) \cup {id} /\ id # NoTask
  <2>1. CASE again
    <3>1. a.draft # NoTask /\ a.draft \in u.outline.ids
      BY <2>1 DEF sameDraft, RowInv, Counted
    <3>2. a.draft \in Minting(e)
      BY <1>3, <3>1 DEF SentMinted
    <3> QED
      BY <2>1, <3>1, <3>2 DEF Minting
  <2>2. CASE ~again
    <3>1. e.minted + 1 \in 1 .. Len(NewTasks)
      BY <2>2, NewTasksApart DEF Counts
    <3> QED
      BY <2>2, <3>1, MintedNext, NewTasksApart
  <2> QED
    BY <2>1, <2>2
<1>6. SentMinted(v, f)
  <2>1. IsFiniteSet(u.outline.ids \cup {id})
    BY <1>3, FS_AddElement DEF SentMinted
  <2> QED
    BY <1>2, <1>3, <1>5, <2>1 DEF SentMinted
<1>7. ~again => /\ id \notin e.created /\ id \notin u.outline.ids
                /\ \A d \in adds(e) : d.task # id
  BY <1>3, MintedNext DEF SentMinted
<1>8. OneRow(v, f)
  <2>1. ASSUME NEW d \in e.calls, d.kind = "add", d.task \in v.outline.ids
        PROVE  FALSE
    <3>1. d \in adds(e)
      BY <2>1 DEF adds
    <3>2. again => id \in u.outline.ids
      BY DEF sameDraft, RowInv, Counted
    <3>3. d.task \in u.outline.ids
      BY <1>7, <2>1, <3>1, <3>2
    <3> QED
      BY <1>1, <2>1, <3>3 DEF RowInv, OneRow
  <2> QED
    BY <1>2, <2>1 DEF OneRow
<1>9. again => /\ a.text = text /\ u.outline.held # None
               /\ u.outline.held[1] = <<id, text, a.parent>>
               /\ id \in e.created => op \in e.applied
               /\ \A d \in adds(e) : d.task = id => d.op = op
  BY DEF sameDraft, RowInv, HeldIsSent, Asked
<1>10. HeldIsSent(v, f)
  <2>1. id \in f.created => op \in f.applied
    BY <1>7, <1>9
  <2>2. \A d \in adds(f) : d.task = id => d.op = op
    BY <1>2, <1>7, <1>9
  <2>3. /\ v.outline.held # None /\ v.outline.held[1] = <<b.draft, b.text, b.parent>>
        /\ v.outline.held[2] = op
    BY DEF None
  <2> QED
    BY <2>1, <2>2, <2>3 DEF HeldIsSent
<1>11. Final(v, f)
  BY DEF Final
<1> DEFINE P == Possible(u, e)
           Q == Possible(v, f)
<1>12. Q \ {id} \subseteq P \ {id}
  BY <1>2 DEF Possible
<1>13. IsFiniteSet(P) /\ IsFiniteSet(Q) /\ Cardinality(P) <= 1 + u.outline.edits
       /\ Cardinality(P \ {a.draft}) <= u.outline.edits
  BY <1>3, <1>6, PossibleFinite DEF RowInv, Counted
<1>14. id \notin P \/ again
  BY <1>7 DEF Possible
<1> HIDE DEF P, Q
<1>15. Cardinality(Q \ {id}) <= Cardinality(P \ {id})
  BY <1>12, <1>13, FS_Subset, OneOut
<1>16. Cardinality(P \ {id}) <= v.outline.edits
  <2>1. CASE again
    BY <1>3, <1>9, <1>13, <2>1
  <2>2. CASE ~again /\ a.draft # NoTask /\ a.text # text
    <3>1. P \ {id} = P
      BY <1>14, <2>2
    <3>2. v.outline.edits = u.outline.edits + 1
      BY <2>2
    <3> QED
      <4>1. Cardinality(P \ {id}) = Cardinality(P) /\ Cardinality(P) \in Nat
        BY <1>13, <3>1, FS_CardinalityType
      <4> QED
        BY <1>3, <1>13, <3>2, <4>1
  <2>3. CASE ~again /\ a.draft # NoTask /\ a.text = text
    <3>1. a.refusal # "retry"
      BY <2>3 DEF sameDraft
    <3>2. a.draft \notin P
      BY <3>1 DEF RowInv, Final, P
    <3>3. P \ {id} = P /\ P \ {a.draft} = P
      BY <1>14, <2>3, <3>2
    <3> QED
      BY <1>3, <1>13, <2>3, <3>3
  <2>4. CASE ~again /\ a.draft = NoTask
    <3>1. NoTask \notin u.outline.ids
      BY <1>3, <1>4 DEF SentMinted
    <3>2. P \ {id} = P \ {a.draft}
      BY <1>14, <2>4, <3>1 DEF P, Possible
    <3> QED
      BY <1>3, <1>13, <2>4, <3>2
  <2> QED
    BY <2>1, <2>2, <2>3, <2>4
<1>17. Cardinality(Q \ {id}) <= v.outline.edits /\ Cardinality(Q) <= 1 + v.outline.edits
  <2>1. v.outline.edits \in Nat
    BY <1>6 DEF SentMinted
  <2>2. Cardinality(Q \ {id}) \in Nat /\ Cardinality(P \ {id}) \in Nat
        /\ Cardinality(Q) \in Nat /\ Cardinality(Q) <= 1 + Cardinality(Q \ {id})
    BY <1>13, OneOut
  <2> QED
    BY <1>15, <1>16, <2>1, <2>2
<1>18. Counted(v, f)
  BY <1>17 DEF Counted, Q
<1> QED
  BY <1>6, <1>8, <1>10, <1>11, <1>18 DEF RowInv

----------------------------------------------------------------------------
(* A field's draft is sent, and answered.                                  *)

\* A draft of a field sent: from u and e to v and f, as the call c.
SendsField(u, v, e, f, key, value, draft, c, op) ==
  /\ f.calls = e.calls \cup {c} /\ f.sent = e.sent + 1 /\ Said(f) = Said(e)
  /\ c.from = <<"field", key, draft>> /\ c.to = value
  /\ draft = e.sent + 1 \/ <<key, draft, value>> \in Drafts(u, e)
  /\ v.detail.open = {}
  /\ v.detail.held = besidesKey(u.detail.held, key)
                       \cup {[key |-> key, value |-> value, op |-> op]}
  /\ v.detail.refusals = {r \in u.detail.refusals : r.key = key => r.draft = draft}
  /\ v.detail.latest = besidesKey(u.detail.latest, key)
                         \cup {[key |-> key, draft |-> draft]}
  /\ v.detail.sent = besidesKey(u.detail.sent, key)
                       \cup {[key |-> key, draft |-> draft, op |-> op]}

LEMMA FieldSent ==
  ASSUME NEW u, NEW v, NEW e, NEW f, NEW key, NEW value, NEW draft, NEW c, NEW op,
         Counts(e), FieldInv(u, e), SendsField(u, v, e, f, key, value, draft, c, op)
  PROVE  FieldInv(v, f)
<1> USE DEF SendsField
<1> DEFINE this == [key |-> key, draft |-> draft, op |-> op]
<1>1. fieldCalls(f) = fieldCalls(e) \cup {c} /\ e.sent \in Nat
  BY DEF fieldCalls, Counts
<1>2. Drafts(v, f) \subseteq Drafts(u, e) \cup {<<key, draft, value>>}
  BY <1>1 DEF Drafts
<1>3. \A x \in Drafts(u, e) : x[2] \in 1 .. e.sent
  BY DEF FieldInv, DraftsPast
<1>4. draft \in 1 .. f.sent /\ \A n \in 1 .. e.sent : n \in 1 .. f.sent
  BY <1>1, <1>3
<1>5. DraftsPast(v, f)
  BY <1>2, <1>3, <1>4 DEF DraftsPast
<1>6. \A x \in Drafts(u, e) : x[1] = key /\ x[2] = draft => x[3] = value
  BY <1>1, <1>3 DEF FieldInv, DraftsApart
<1>7. DraftsApart(v, f)
  BY <1>2, <1>6 DEF FieldInv, DraftsApart
<1>8. \A s, k, w : k # key /\ Backed(u, e, s, k, w) => Backed(v, f, s, k, w)
  BY DEF Backed, besidesKey
<1>9. \A s \in u.detail.sent : s.key # key => s \in v.detail.sent
  BY DEF besidesKey
<1>10. /\ this \in v.detail.sent /\ this.key = key /\ this.draft = draft
       /\ Backed(v, f, this, key, value)
  BY DEF Backed
<1> HIDE DEF this
<1>11. LatestBacked(v, f)
  <2> SUFFICES ASSUME NEW d \in fieldCalls(f),
                      [key |-> d.from[2], draft |-> d.from[3]] \in v.detail.latest
               PROVE  \E s \in v.detail.sent : /\ s.key = d.from[2] /\ s.draft = d.from[3]
                                             /\ Backed(v, f, s, d.from[2], d.to)
    BY DEF LatestBacked
  <2>1. CASE d.from[2] = key
    <3>1. d.from[3] = draft
      BY <2>1 DEF besidesKey
    <3>2. d = c \/ <<d.from[2], d.from[3], d.to>> \in Drafts(u, e)
      BY <1>1 DEF Drafts
    <3>3. d.to = value
      BY <1>6, <2>1, <3>1, <3>2
    <3> QED
      BY <1>10, <2>1, <3>1, <3>3
  <2>2. CASE d.from[2] # key
    <3>1. d \in fieldCalls(e) /\ [key |-> d.from[2], draft |-> d.from[3]] \in u.detail.latest
      BY <1>1, <2>2 DEF besidesKey
    <3>2. PICK s \in u.detail.sent : /\ s.key = d.from[2] /\ s.draft = d.from[3]
                                     /\ Backed(u, e, s, d.from[2], d.to)
      BY <3>1 DEF FieldInv, LatestBacked
    <3> QED
      BY <1>8, <1>9, <2>2, <3>2
  <2> QED
    BY <2>1, <2>2
<1>12. RefusedBacked(v, f)
  <2> SUFFICES ASSUME NEW r \in v.detail.refusals
               PROVE  \E s \in v.detail.sent :
                        /\ s.key = r.key /\ s.draft = r.draft
                        /\ r.retryable => Backed(v, f, s, r.key, r.value)
    BY DEF RefusedBacked
  <2>1. r \in u.detail.refusals
    OBVIOUS
  <2>2. CASE r.key = key
    <3>1. r.draft = draft /\ <<r.key, r.draft, r.value>> \in Drafts(u, e)
      BY <2>1, <2>2 DEF Drafts
    <3>2. r.value = value
      BY <1>6, <2>2, <3>1
    <3> QED
      BY <1>10, <2>2, <3>1, <3>2
  <2>3. CASE r.key # key
    <3>1. PICK s \in u.detail.sent : /\ s.key = r.key /\ s.draft = r.draft
                                     /\ r.retryable => Backed(u, e, s, r.key, r.value)
      BY <2>1 DEF FieldInv, RefusedBacked
    <3> QED
      BY <1>8, <1>9, <2>3, <3>1
  <2> QED
    BY <2>2, <2>3
<1>13. AreFields(v.detail.open)
  BY DEF AreFields
<1> QED
  BY <1>5, <1>7, <1>11, <1>12, <1>13 DEF FieldInv

\* The answer to the call c of a field, to its last draft or an older one.
AnsweredField(u, v, c, settled, r) ==
  /\ v.detail.held = IF settled THEN {h \in u.detail.held : h.op # c.op} ELSE u.detail.held
  /\ v.detail.sent = u.detail.sent /\ v.detail.open \subseteq u.detail.open
  /\ v.detail.latest \subseteq u.detail.latest
  /\ \/ v.detail.refusals \subseteq u.detail.refusals
     \/ /\ [key |-> c.from[2], draft |-> c.from[3]] \in u.detail.latest
        /\ v.detail.refusals \subseteq u.detail.refusals \cup {r}
        /\ r.key = c.from[2] /\ r.draft = c.from[3] /\ r.value = c.to

LEMMA FieldAnswered ==
  ASSUME NEW u, NEW v, NEW e, NEW f, NEW c \in fieldCalls(e), NEW settled \in BOOLEAN, NEW r,
         Counts(e), FieldInv(u, e), FieldStep(e, f),
         settled => c.op \in Said(f), AnsweredField(u, v, c, settled, r)
  PROVE  FieldInv(v, f)
<1> USE DEF AnsweredField
<1>1. \A s, k, w : Backed(u, e, s, k, w) => Backed(v, f, s, k, w)
  BY DEF Backed, FieldStep
<1>2. fieldCalls(f) \subseteq fieldCalls(e) /\ \A n \in 1 .. e.sent : n \in 1 .. f.sent
  BY DEF FieldStep, Counts
<1>3. Drafts(v, f) \subseteq Drafts(u, e)
  BY <1>2 DEF Drafts
<1>4. DraftsApart(v, f) /\ DraftsPast(v, f)
  BY <1>2, <1>3 DEF FieldInv, DraftsApart, DraftsPast
<1>5. LatestBacked(v, f)
  BY <1>1, <1>2 DEF FieldInv, LatestBacked
<1>6. RefusedBacked(v, f)
  <2> SUFFICES ASSUME NEW q \in v.detail.refusals
               PROVE  \E s \in v.detail.sent :
                        /\ s.key = q.key /\ s.draft = q.draft
                        /\ q.retryable => Backed(v, f, s, q.key, q.value)
    BY DEF RefusedBacked
  <2>1. CASE q \in u.detail.refusals
    BY <1>1, <2>1 DEF FieldInv, RefusedBacked
  <2>2. CASE q \notin u.detail.refusals
    <3>1. /\ q.key = c.from[2] /\ q.draft = c.from[3] /\ q.value = c.to
          /\ [key |-> c.from[2], draft |-> c.from[3]] \in u.detail.latest
      BY <2>2
    <3> QED
      BY <1>1, <3>1 DEF FieldInv, LatestBacked
  <2> QED
    BY <2>1, <2>2
<1>7. AreFields(v.detail.open)
  BY DEF FieldInv, AreFields
<1> QED
  BY <1>4, <1>5, <1>6, <1>7 DEF FieldInv

----------------------------------------------------------------------------
(* The keys that leave both alone.                                         *)

Shapes == UiShape(ui) /\ EngineShape(engine) /\ Counts(engine)
Apart == Kept(ui, ui') /\ EngineStep(engine, engine')

LEMMA RequestFields ==
  ASSUME NEW kind, NEW task, NEW to, NEW from
  PROVE  /\ request(kind, task, to, from).kind = kind
         /\ request(kind, task, to, from).task = task
         /\ request(kind, task, to, from).to = to
         /\ request(kind, task, to, from).from = from
BY DEF request

LEMMA ShowsKept ==
  ASSUME NEW u, Kept(ui, u), Shows(u)
  PROVE  Kept(ui, ui')
<1>1. UiShape(u)
  BY DEF Kept
<1> QED
  BY <1>1, KeptSync, KeptTwice DEF Shows

LEMMA QuietlyStep ==
  ASSUME Shapes, Quietly
  PROVE  EngineStep(engine, engine')
BY EngineStays DEF Shapes, Quietly

LEMMA WritesStep ==
  ASSUME Shapes, NEW kind, NEW task, NEW to, NEW from,
         Writes(request(kind, task, to, from)),
         kind # "add", from[1] \notin {"add", "placed", "field"}
  PROVE  EngineStep(engine, engine')
BY RequestFields, WriteStep DEF Shapes, Writes, write

LEMMA KeptHere ==
  ASSUME Shapes, NEW p
  PROVE  /\ Kept(ui, Here(p)) /\ UiShape(Here(p))
         /\ Kept(ui, Forgot(p)) /\ UiShape(Forgot(p))
<1>1. Kept(ui, Here(p)) /\ UiShape(Here(p))
  BY KeptSame, KeptPinned DEF Shapes, Here, Kept
<1>2. Kept(Here(p), Forgot(p)) /\ UiShape(Forgot(p))
  BY <1>1 DEF Forgot, Kept, SameRow, SameFields, UiShape
<1> QED
  BY <1>1, <1>2, KeptTwice

LEMMA SharedKeys ==
  ASSUME Shapes, NEW p \in {"outline", "board"},
         \/ AskDelete(p) \/ AnswerDelete(p) \/ MarkTask(p) \/ OpenEditor(p) \/ UseEditor(p)
  PROVE  Apart
<1> DEFINE h == Here(p)
<1>1. Kept(ui, h) /\ UiShape(h) /\ Kept(ui, Forgot(p)) /\ UiShape(Forgot(p))
  BY KeptHere
<1>2. ASSUME NEW x, NEW y
      PROVE  /\ Kept(ui, [h EXCEPT !.keys[p].open = x])
             /\ Kept(ui, [h EXCEPT !.keys[p].pending = x])
             /\ Kept(ui, [h EXCEPT !.keys[p].deleting = x, !.asked = y])
             /\ Kept(ui, [Forgot(p) EXCEPT !.keys[p].open = x])
  BY <1>1 DEF Kept, SameRow, SameFields, UiShape
<1>3. ASSUME NEW x, NEW y, NEW z
      PROVE  Kept(ui, [h EXCEPT !.keys[p].pending = x, !.keys[p].deleting = y, !.asked = z])
  BY <1>1 DEF Kept, SameRow, SameFields, UiShape
<1>4. CASE AskDelete(p)
  BY <1>2, <1>3, <1>4, ShowsKept, QuietlyStep DEF AskDelete, Apart
<1>5. CASE AnswerDelete(p)
  <2>1. Kept(ui, ui')
    BY <1>2, <1>5, ShowsKept DEF AnswerDelete
  <2>2. Quietly \/ Writes(request("delete", Item(p), NoTask, <<"none">>))
    BY <1>5 DEF AnswerDelete
  <2> QED
    BY <2>1, <2>2, QuietlyStep, WritesStep DEF Apart
<1>6. CASE MarkTask(p)
  <2>1. Kept(ui, ui')
    BY <1>1, <1>6, ShowsKept DEF MarkTask
  <2> QED
    BY <1>6, <2>1, WritesStep DEF MarkTask, Apart
<1>7. CASE OpenEditor(p)
  BY <1>2, <1>7, ShowsKept, QuietlyStep DEF OpenEditor, Apart
<1>8. CASE UseEditor(p)
  <2>1. Kept(ui, ui')
    BY <1>1, <1>2, <1>8, ShowsKept DEF UseEditor
  <2>2. PICK e \in ui.keys[p].open :
          \/ Quietly
          \/ Writes(request("title", e.task, "v2", <<"edit", p>>))
          \/ \E s \in e.statuses : Writes(request("column", e.task, s, <<"none">>))
    BY <1>8 DEF UseEditor
  <2> QED
    BY <2>1, <2>2, QuietlyStep, WritesStep DEF Apart
<1> QED
  BY <1>4, <1>5, <1>6, <1>7, <1>8

LEMMA OutlineKeys ==
  ASSUME Shapes, GoOutline \/ Fold \/ Reparent \/ MoveTask
  PROVE  Apart
<1> DEFINE g == Forgot("outline")
<1>1. Kept(ui, g) /\ UiShape(g)
  BY KeptHere
<1>2. ASSUME NEW x
      PROVE  /\ Kept(ui, [g EXCEPT !.outline.cursor = x])
             /\ Kept(ui, [g EXCEPT !.outline.folded = x])
  BY <1>1, KeptOutline, KeptTwice
<1> HIDE DEF g
<1>3. CASE GoOutline
  BY <1>2, <1>3, ShowsKept, QuietlyStep DEF GoOutline, Apart, g
<1>4. CASE Fold
  BY <1>2, <1>4, ShowsKept, QuietlyStep DEF Fold, Apart, g
<1>5. CASE Reparent
  <2>1. Kept(ui, ui')
    BY <1>1, <1>5, ShowsKept DEF Reparent, g
  <2> QED
    BY <1>5, <2>1, WritesStep DEF Reparent, Apart
<1>6. CASE MoveTask
  <2>1. Kept(ui, ui')
    BY <1>1, <1>6, ShowsKept DEF MoveTask, g
  <2> QED
    BY <1>6, <2>1, WritesStep DEF MoveTask, Apart
<1> QED
  BY <1>3, <1>4, <1>5, <1>6

LEMMA BoardKeys ==
  ASSUME Shapes, GoBoard \/ ToColumn \/ InColumn \/ OpenCard \/ TypeCard
  PROVE  Apart
<1> DEFINE g == Forgot("board")
<1>1. Kept(ui, g) /\ UiShape(g)
  BY KeptHere
<1>2. ASSUME NEW x, NEW y, NEW z
      PROVE  /\ Kept(ui, [g EXCEPT !.board.col = x, !.board.row = y, !.board.follow = z])
             /\ Kept(ui, [g EXCEPT !.board.col = x, !.board.follow = y])
             /\ Kept(ui, [g EXCEPT !.board.follow = x])
             /\ Kept(ui, [g EXCEPT !.board.adding = x])
             /\ Kept(ui, [ui EXCEPT !.board.adding = x])
  BY <1>1 DEF Kept, SameRow, SameFields, UiShape, Shapes
<1> HIDE DEF g
<1>3. CASE GoBoard
  <2>1. \E x, y : CardAt(x, y)
    BY <1>3 DEF GoBoard
  <2> QED
    BY <1>2, <1>3, <2>1, ShowsKept, QuietlyStep DEF GoBoard, CardAt, Apart, g
<1>4. CASE ToColumn
  <2>1. Kept(ui, ui')
    BY <1>2, <1>4, ShowsKept DEF ToColumn, g
  <2>2. \E to : Writes(request("column", Item("board"), to, <<"none">>))
    BY <1>4 DEF ToColumn
  <2> QED
    BY <2>1, <2>2, WritesStep DEF Apart
<1>5. CASE InColumn
  <2>1. Kept(ui, ui')
    BY <1>2, <1>5, ShowsKept DEF InColumn, g
  <2> QED
    BY <1>5, <2>1, WritesStep DEF InColumn, Apart
<1>6. CASE OpenCard
  BY <1>2, <1>6, ShowsKept, QuietlyStep DEF OpenCard, Apart, g
<1>7. CASE TypeCard
  <2>1. Kept(ui, ui')
    BY <1>2, <1>7, ShowsKept DEF TypeCard
  <2> QED
    BY <1>7, <2>1, QuietlyStep, CardStep DEF TypeCard, Apart, Shapes
<1> QED
  BY <1>3, <1>4, <1>5, <1>6, <1>7

LEMMA RootKeys ==
  ASSUME Shapes, Global \/ EnterDetails \/ Sidebar \/ Search \/ PickView \/ Draw, Quietly
  PROVE  Apart
<1>1. EngineStep(engine, engine')
  BY QuietlyStep
<1>2. UiShape(ui)
  BY DEF Shapes
<1>3. \A next : Kept(ui, setFocus(ui, topics, next)) /\ UiShape(setFocus(ui, topics, next))
  BY <1>2, KeptFocus DEF Kept
<1>4. CASE Global
  <2>1. \A key : Kept(ui, pick(ui, topics, key))
    BY <1>2, KeptPick
  <2>2. ASSUME NEW x
        PROVE  LET v == [ui EXCEPT !.layout = x]
               IN  Kept(ui, select(closeOverlay(v, topics), topics))
    <3> DEFINE v == [ui EXCEPT !.layout = x]
               w == closeOverlay(v, topics)
    <3>1. Kept(ui, v) /\ UiShape(v)
      BY <1>2, KeptPart DEF Kept
    <3>2. Kept(v, w) /\ UiShape(w)
      BY <3>1, KeptClose DEF Kept
    <3>3. Kept(w, select(w, topics))
      BY <3>2, KeptSelect
    <3> QED
      BY <3>1, <3>2, <3>3, KeptTwice
  <2> DEFINE f == setFocus(ui, topics, "outline")
  <2>3. ASSUME NEW x
        PROVE  /\ Kept(ui, [f EXCEPT !.search = TRUE])
               /\ Kept(ui, [f EXCEPT !.screen = x, !.statuses.at = 1])
    <3>1. Kept(ui, f) /\ UiShape(f)
      BY <1>3
    <3> QED
      BY <3>1 DEF Kept, SameRow, SameFields, UiShape
  <2>4. Kept(ui, ui')
    BY <1>3, <1>4, <2>1, <2>2, <2>3 DEF Global, Focused
  <2> QED
    BY <1>1, <2>4 DEF Apart
<1>5. CASE EnterDetails
  BY <1>1, <1>3, <1>5 DEF EnterDetails, Focused, Apart
<1>6. CASE Sidebar
  <2>1. \A x, key : Kept(ui, [ui EXCEPT !.side = x]) /\ Kept(ui, pick(ui, topics, key))
    BY <1>2, KeptPick, KeptPart
  <2>2. \E x, key : ui' \in {[ui EXCEPT !.side = x], pick(ui, topics, key)}
    BY <1>6 DEF Sidebar
  <2>3. Kept(ui, ui')
    BY <2>1, <2>2
  <2> QED
    BY <1>1, <2>3 DEF Apart
<1>7. CASE Search
  <2>1. ASSUME NEW text, NEW x
        PROVE  Kept(ui, sync([ui EXCEPT !.search = text, !.outline.filtered = text,
                                        !.outline.pinned = x], topics))
    <3> DEFINE v == [ui EXCEPT !.search = text, !.outline.filtered = text,
                               !.outline.pinned = x]
    <3>1. Kept(ui, v) /\ UiShape(v)
      BY <1>2 DEF Kept, SameRow, SameFields, UiShape
    <3> QED
      BY <3>1, KeptSync, KeptTwice
  <2>2. Kept(ui, [ui EXCEPT !.search = FALSE])
    BY <1>2, KeptPart
  <2>3. \/ ui' = [ui EXCEPT !.search = FALSE]
        \/ \E text, x : ui' = sync([ui EXCEPT !.search = text, !.outline.filtered = text,
                                             !.outline.pinned = x], topics)
    BY <1>7 DEF Search
  <2>4. Kept(ui, ui')
    BY <2>1, <2>2, <2>3
  <2> QED
    BY <1>1, <2>4 DEF Apart
<1>8. CASE PickView
  <2> DEFINE v == [ui EXCEPT !.screen = "none"]
  <2>1. Kept(ui, v) /\ UiShape(v)
    BY <1>2, KeptPart DEF Kept
  <2>2. \A key : Kept(ui, pick(v, topics, key))
    BY <2>1, KeptPick, KeptTwice
  <2>3. Kept(ui, ui')
    BY <1>8, <2>1, <2>2 DEF PickView
  <2> QED
    BY <1>1, <2>3 DEF Apart
<1>9. CASE Draw
  <2>1. Kept(ui, [ui EXCEPT !.outline.cursor.at = OutlineAt])
    BY <1>2 DEF Kept, SameRow, SameFields, UiShape
  <2> QED
    BY <1>1, <1>9, <2>1 DEF Draw, Apart
<1> QED
  BY <1>4, <1>5, <1>6, <1>7, <1>8, <1>9

LEMMA StatusKeys ==
  ASSUME Shapes, AskDeleteStatus \/ AnswerDeleteStatus \/ StatusKey \/ TypeStatus
  PROVE  Apart
<1>1. UiShape(ui)
  BY DEF Shapes
<1>2. ASSUME NEW x, NEW y
      PROVE  /\ Kept(ui, ui)
             /\ Kept(ui, [ui EXCEPT !.statuses.pending = x])
             /\ Kept(ui, [ui EXCEPT !.statuses.pending = FALSE, !.statuses.deleting = x,
                                    !.asked = y])
             /\ Kept(ui, [ui EXCEPT !.statuses.deleting = FALSE, !.asked = NoTask])
             /\ Kept(ui, [ui EXCEPT !.statuses.input = x])
  BY <1>1 DEF Kept, SameRow, SameFields, UiShape
<1> DEFINE u == [ui EXCEPT !.statuses.pending = FALSE]
<1>3. Kept(ui, u) /\ UiShape(u)
  BY <1>1 DEF Kept, SameRow, SameFields, UiShape
<1>4. ASSUME NEW x
      PROVE  /\ Kept(ui, [u EXCEPT !.screen = x])
             /\ Kept(ui, [u EXCEPT !.statuses.at = x])
             /\ Kept(ui, [u EXCEPT !.statuses.input = x])
  BY <1>3 DEF Kept, SameRow, SameFields, UiShape
<1>5. CASE AskDeleteStatus
  <2>1. Kept(ui, ui')
    BY <1>2, <1>5 DEF AskDeleteStatus
  <2> QED
    BY <1>5, <2>1, QuietlyStep DEF AskDeleteStatus, Apart
<1>6. CASE AnswerDeleteStatus
  <2>1. Kept(ui, ui')
    BY <1>2, <1>6 DEF AnswerDeleteStatus
  <2>2. Quietly \/ Writes(request("deleteStatus", Status, NoTask, <<"none">>))
    BY <1>6 DEF AnswerDeleteStatus
  <2> QED
    BY <2>1, <2>2, QuietlyStep, WritesStep DEF Apart
<1>7. CASE StatusKey
  <2>1. Kept(ui, ui')
    <3>1. \/ ui' = u
          \/ \E x : \/ ui' = [u EXCEPT !.screen = x] \/ ui' = [u EXCEPT !.statuses.at = x]
                   \/ ui' = [u EXCEPT !.statuses.input = x]
      BY <1>7 DEF StatusKey
    <3> HIDE DEF u
    <3> QED
      BY <1>3, <1>4, <3>1
  <2>2. \/ Quietly
        \/ Writes(request("completing", Status, NoTask, <<"none">>))
        \/ \E to : SaveStatus(Status, to, <<"none">>)
    BY <1>7 DEF StatusKey
  <2> QED
    BY <2>1, <2>2, QuietlyStep, WritesStep DEF SaveStatus, Apart
<1>8. CASE TypeStatus
  <2>1. Kept(ui, ui')
    BY <1>2, <1>8 DEF TypeStatus
  <2>2. Quietly \/ \E id, to, at : SaveStatus(id, to, <<"status", id, at>>)
    BY <1>8 DEF TypeStatus
  <2> QED
    BY <2>1, <2>2, QuietlyStep, WritesStep DEF SaveStatus, Apart
<1> QED
  BY <1>5, <1>6, <1>7, <1>8

\* Publications move the cursors and the view, of their own and with a write
\* that is taken or another device's.
LEMMA PublishesKept ==
  ASSUME Shapes, NEW t, Publishes(t)
  PROVE  Kept(ui, ui')
BY KeptPublished DEF Publishes, Shapes

LEMMA EngineMoves ==
  ASSUME Shapes, Take \/ Watched \/ OtherChange
  PROVE  Apart
<1>1. CASE Take
  <2>1. \E t : Publishes(t)
    BY <1>1 DEF Take
  <2> QED
    BY <1>1, <2>1, PublishesKept, TakeStep DEF Apart, Shapes
<1>2. CASE Watched
  BY <1>2, PublishesKept, EngineStays DEF Watched, Apart, Shapes
<1>3. CASE OtherChange
  <2>1. \E t : Others(t)
    BY <1>3 DEF OtherChange
  <2>2. engine' = [engine EXCEPT !.others = @ + 1] /\ Kept(ui, ui')
    BY <2>1, PublishesKept DEF Others
  <2>3. /\ engine'.calls = engine.calls /\ engine'.slow = engine.slow
        /\ engine'.applied = engine.applied /\ engine'.refused = engine.refused
        /\ engine'.sent = engine.sent /\ engine'.minted = engine.minted
        /\ engine'.created = engine.created /\ EngineShape(engine')
    BY <2>2 DEF Shapes, EngineShape
  <2>4. /\ adds(engine') = adds(engine) /\ rowCalls(engine') = rowCalls(engine)
        /\ fieldCalls(engine') = fieldCalls(engine)
    BY <2>3 DEF adds, rowCalls, fieldCalls
  <2>5. EngineStep(engine, engine')
    BY <2>3, <2>4, NewTasksApart
       DEF Shapes, EngineStep, RowStep, AddStep, FieldStep, Counts, Said
  <2> QED
    BY <2>2, <2>5 DEF Apart
<1> QED
  BY <1>1, <1>2, <1>3

\* The answers that are not the row's and not a field's.
LEMMA OtherAnswers ==
  ASSUME Shapes, AnswerCard \/ AnswerEdit \/ AnswerStatus \/ AnswerRest
  PROVE  Apart
<1>1. UiShape(ui) /\ EngineShape(engine) /\ Counts(engine)
  BY DEF Shapes
<1>2. ASSUME NEW c \in engine.calls, NEW r
      PROVE  /\ EngineStep(engine, answered(c, r))
             /\ answered(c, r).created = engine.created
  BY <1>1, AnsweredStep DEF EngineStep
<1>3. CASE AnswerCard
  <2>1. ASSUME NEW x, NEW y
        PROVE  /\ Kept(ui, [ui EXCEPT !.board.adding = x])
               /\ Kept(ui, [ui EXCEPT !.board.adding = x, !.board.follow = y])
    BY <1>1 DEF Kept, SameRow, SameFields, UiShape
  <2>2. Kept(ui, ui')
    <3>1. PICK x, y : \/ ui' = [ui EXCEPT !.board.adding = x]
                      \/ ui' = [ui EXCEPT !.board.adding = x, !.board.follow = y]
      BY <1>3 DEF AnswerCard
    <3>2. /\ Kept(ui, [ui EXCEPT !.board.adding = x])
          /\ Kept(ui, [ui EXCEPT !.board.adding = x, !.board.follow = y])
      BY <2>1
    <3> QED
      BY <3>1, <3>2, Zenon
  <2>3. PICK c, r, to :
          /\ c \in engine.calls
          /\ \/ engine' = answered(c, r)
             \/ engine' = write(answered(c, r), request("card", c.task, to, <<"none">>))
    BY <1>3 DEF AnswerCard
  <2> DEFINE f == answered(c, r)
             g == write(f, request("card", c.task, to, <<"none">>))
  <2>4. EngineStep(engine, f) /\ f.created = engine.created /\ EngineShape(f) /\ Counts(f)
    BY <1>2, <2>3 DEF EngineStep
  <2> HIDE DEF f
  <2>5. EngineStep(f, g) /\ g.created = f.created
    <3> DEFINE q == request("card", c.task, to, <<"none">>)
    <3>1. q.kind = "card" /\ q.from = <<"none">>
      BY RequestFields
    <3> HIDE DEF q
    <3>2. EngineStep(f, under_op(f, q, f.sent + 1))
      BY <2>4, <3>1, WriteStep
    <3>3. under_op(f, q, f.sent + 1).created = f.created
      BY <2>4 DEF under_op, EngineShape
    <3> QED
      BY <3>2, <3>3 DEF write, q
  <2>6. EngineStep(engine, g)
    BY <1>1, <2>4, <2>5, StepsCompose
  <2>7. EngineStep(engine, engine')
    BY <2>3, <2>4, <2>6 DEF f
  <2> QED
    BY <2>2, <2>7 DEF Apart
<1>4. CASE AnswerEdit
  <2>1. \A p : Kept(ui, [ui EXCEPT !.keys[p].open = {}])
    BY <1>1 DEF Kept, SameRow, SameFields, UiShape
  <2>2. Kept(ui, ui')
    BY <1>1, <1>4, <2>1, KeptSame DEF AnswerEdit
  <2> QED
    BY <1>2, <1>4, <2>2 DEF AnswerEdit, Apart
<1>5. CASE AnswerStatus
  <2>1. ASSUME NEW x
        PROVE  Kept(ui, [ui EXCEPT !.statuses.input = {}, !.statuses.at = x])
    BY <1>1 DEF Kept, SameRow, SameFields, UiShape
  <2>2. Kept(ui, ui')
    BY <1>1, <1>5, <2>1, KeptSame DEF AnswerStatus
  <2> QED
    BY <1>2, <1>5, <2>2 DEF AnswerStatus, Apart
<1>6. CASE AnswerRest
  <2>1. Kept(ui, ui')
    BY <1>1, <1>6, KeptSame DEF AnswerRest
  <2> QED
    BY <1>2, <1>6, <2>1 DEF AnswerRest, Apart
<1> QED
  BY <1>3, <1>4, <1>5, <1>6

----------------------------------------------------------------------------
(* The keys and answers of the row.                                        *)

Inv == Shapes /\ RowInv(ui, engine) /\ FieldInv(ui, engine)

LEMMA ApartKeeps ==
  ASSUME Inv, Apart
  PROVE  Inv'
<1>1. /\ UiShape(ui') /\ SameRow(ui, ui') /\ SameFields(ui, ui')
      /\ EngineShape(engine') /\ Counts(engine') /\ RowStep(engine, engine')
      /\ FieldStep(engine, engine') /\ Counts(engine)
  BY DEF Inv, Shapes, Apart, Kept, EngineStep
<1>2. RowInv(ui', engine') /\ FieldInv(ui', engine')
  BY <1>1, RowFrame, FieldFrame DEF Inv
<1> QED
  BY <1>1, <1>2 DEF Inv, Shapes

\* A step drawn by a look at the cursors.
LEMMA ThenShown ==
  ASSUME NEW w, RowInv(w, engine'), FieldInv(w, engine'), EngineShape(engine'),
         Counts(engine'), Kept(w, ui')
  PROVE  Inv'
<1>1. EngineStep(engine', engine')
  BY EngineStays
<1>2. RowInv(ui', engine') /\ FieldInv(ui', engine')
  BY <1>1, RowFrame, FieldFrame DEF EngineStep, Kept
<1> QED
  BY <1>2 DEF Inv, Shapes, Kept

LEMMA OpenAddKeeps ==
  ASSUME Inv, OpenAdd
  PROVE  Inv'
<1> DEFINE g == Forgot("outline")
<1>1. Kept(ui, g) /\ UiShape(g)
  BY KeptHere DEF Inv
<1>2. ui.outline.adding = {} /\ engine' = engine
  BY DEF OpenAdd, Idle, addHolds, Quietly
<1>3. rowCalls(engine) = {}
  BY <1>2 DEF Inv, RowInv, OneRow
<1>4. PICK a, folded :
        /\ Shows([g EXCEPT !.outline.folded = folded, !.outline.ids = {}, !.outline.edits = 0,
                           !.outline.adding = {a}])
        /\ {"draft", "text", "parent", "saving", "refusal"} \subseteq DOMAIN a
        /\ a.draft = NoTask /\ a.saving = FALSE /\ a.refusal = "none"
  <2>1. PICK sub \in BOOLEAN :
          LET task == Item("outline")
              row == OutlineRows[OutlineAt]
              parent == IF ~sub THEN NoTask ELSE IF row.depth = 0 THEN row.id ELSE row.parent
          IN  Shows([g EXCEPT
                !.outline.folded = @ \ {parent}, !.outline.ids = {}, !.outline.edits = 0,
                !.outline.adding = {[anchor |-> task, sub |-> sub, parent |-> parent,
                  after |-> IF task = NoTask \/ topics.sort # "manual" THEN AtEnd
                            ELSE insertAfter(topics.views[ui.current], task, sub),
                  text |-> "", typing |-> TRUE, saving |-> FALSE, draft |-> NoTask,
                  refusal |-> "none"]}])
    BY DEF OpenAdd
  <2> DEFINE task == Item("outline")
             row == OutlineRows[OutlineAt]
             parent == IF ~sub THEN NoTask ELSE IF row.depth = 0 THEN row.id ELSE row.parent
             after == IF task = NoTask \/ topics.sort # "manual" THEN AtEnd
                      ELSE insertAfter(topics.views[ui.current], task, sub)
             a == [anchor |-> task, sub |-> sub, parent |-> parent, after |-> after,
                   text |-> "", typing |-> TRUE, saving |-> FALSE, draft |-> NoTask,
                   refusal |-> "none"]
             folded == g.outline.folded \ {parent}
  <2>2. Shows([g EXCEPT !.outline.folded = folded, !.outline.ids = {}, !.outline.edits = 0,
                        !.outline.adding = {a}])
    BY <2>1
  <2> HIDE DEF task, row, parent, after
  <2>3. /\ {"draft", "text", "parent", "saving", "refusal"} \subseteq DOMAIN a
        /\ a.draft = NoTask /\ a.saving = FALSE /\ a.refusal = "none"
    OBVIOUS
  <2> QED
    BY <2>2, <2>3
<1> HIDE DEF g
<1> DEFINE w == [g EXCEPT !.outline.folded = folded, !.outline.ids = {}, !.outline.edits = 0,
                          !.outline.adding = {a}]
<1>5. /\ UiShape(w) /\ SameFields(ui, w) /\ w.outline.adding = {a}
      /\ w.outline.held = ui.outline.held /\ w.outline.ids = {} /\ w.outline.edits = 0
  BY <1>1 DEF UiShape, Kept, SameRow, SameFields
<1> HIDE DEF w
<1>6. RowInv(w, engine)
  BY <1>3, <1>4, <1>5, RowOpened DEF Inv
<1>7. FieldInv(w, engine)
  BY <1>5, FieldFrame, EngineStays DEF Inv, Shapes, EngineStep
<1>8. Kept(w, ui')
  BY <1>4, <1>5, KeptSync DEF Shows, w
<1> QED
  BY <1>2, <1>6, <1>7, <1>8, ThenShown DEF Inv, Shapes

LEMMA SendAddKeeps ==
  ASSUME Inv, NEW a \in ui.outline.adding, ~a.saving, NEW text, SendAdd(a, text)
  PROVE  Inv'
<1> DEFINE again == sameDraft(a, text)
           id == IF again THEN a.draft ELSE NewTasks[engine.minted + 1]
           draft == <<id, text, a.parent>>
           held == ui.outline.held # None /\ ui.outline.held[1] = draft
           op == IF held THEN ui.outline.held[2] ELSE engine.sent + 1
           r == request("add", id, a.parent, <<"add">>)
           c == numbered(engine, r, op)
           b == [a EXCEPT !.draft = id, !.text = text, !.typing = FALSE, !.saving = TRUE]
           edits == IF a.draft # NoTask /\ a.text # text THEN ui.outline.edits + 1
                    ELSE ui.outline.edits
           w == [ui EXCEPT !.outline.held = <<draft, op>>,
                           !.outline.ids = ui.outline.ids \cup {id},
                           !.outline.edits = edits, !.outline.adding = {b}]
<1>1. /\ again \/ engine.minted < Len(NewTasks)
      /\ engine' = [under_op(engine, r, op)
                      EXCEPT !.minted = IF again THEN @ ELSE @ + 1]
      /\ Shows(w)
  BY DEF SendAdd
<1>2. UiShape(ui) /\ EngineShape(engine) /\ Counts(engine)
  BY DEF Inv, Shapes
<1>3. /\ UiShape(w) /\ SameFields(ui, w) /\ w.outline.adding = {b}
      /\ w.outline.held = <<draft, op>> /\ w.outline.ids = ui.outline.ids \cup {id}
      /\ w.outline.edits = edits
  BY <1>2 DEF UiShape, SameFields
<1>4. /\ engine'.calls = engine.calls \cup {c} /\ engine'.slow = engine.slow
      /\ engine'.sent = engine.sent + 1 /\ engine'.applied = engine.applied
      /\ engine'.refused = engine.refused /\ engine'.created = engine.created
      /\ engine'.minted = (IF again THEN engine.minted ELSE engine.minted + 1)
      /\ EngineShape(engine')
  BY <1>1, <1>2 DEF EngineShape, under_op
<1>5. c.kind = "add" /\ c.task = id /\ c.op = op /\ c.from = <<"add">>
  BY DEF numbered, request
<1>6. {"draft", "text", "parent", "saving", "refusal"} \subseteq DOMAIN a
  BY DEF Inv, RowInv, OneRow
<1>7. /\ {"draft", "text", "parent", "saving", "refusal"} \subseteq DOMAIN b
      /\ b.draft = id /\ b.text = text /\ b.parent = a.parent /\ b.saving = TRUE
  BY <1>6
<1>8. again \in BOOLEAN
  BY DEF sameDraft
<1>9. /\ again = sameDraft(a, text)
      /\ id = IF again THEN a.draft ELSE NewTasks[engine.minted + 1]
      /\ op = IF ui.outline.held # None /\ ui.outline.held[1] = <<id, text, a.parent>>
              THEN ui.outline.held[2] ELSE engine.sent + 1
      /\ w.outline.held = << <<id, text, a.parent>>, op>>
      /\ w.outline.edits = IF a.draft # NoTask /\ a.text # text THEN ui.outline.edits + 1
                           ELSE ui.outline.edits
  BY <1>3
<1>10. Shows(w)
  BY <1>1
<1>11. again \/ engine.minted < Len(NewTasks)
  BY <1>1
<1> HIDE DEF again, id, op, held, draft, r, c, b, edits, w
<1>12. RowInv(w, engine')
  <2>1. RowInv(ui, engine)
    BY DEF Inv
  <2>2. Sends(ui, w, engine, engine', a, b, c, id, text, op, again)
    BY <1>3, <1>4, <1>5, <1>7, <1>8, <1>9, <1>11 DEF Sends
  <2> QED
    BY <1>2, <2>1, <2>2, SentStep
<1>13. fieldCalls(engine') = fieldCalls(engine)
  BY <1>4, <1>5 DEF fieldCalls
<1>14. Counts(engine') /\ FieldStep(engine, engine')
  <2>1. engine'.minted \in 0 .. Len(NewTasks)
    BY <1>2, <1>4, <1>11, NewTasksApart DEF Counts
  <2> QED
    BY <1>2, <1>4, <1>13, <2>1 DEF Counts, FieldStep, Said
<1>15. FieldInv(w, engine')
  BY <1>2, <1>3, <1>14, FieldFrame DEF Inv
<1>16. Kept(w, ui')
  BY <1>3, <1>10, KeptSync DEF Shows
<1> QED
  BY <1>4, <1>14, <1>15, <1>16, <1>12, ThenShown

LEMMA TypeAddKeeps ==
  ASSUME Inv, TypeAdd
  PROVE  Inv'
<1>1. UiShape(ui) /\ EngineShape(engine) /\ Counts(engine)
  BY DEF Inv, Shapes
<1>2. PICK a \in ui.outline.adding :
        /\ ~a.saving
        /\ \/ \E text : SendAdd(a, text)
           \/ /\ Quietly
              /\ Shows([ui EXCEPT !.outline.adding =
                          IF a.refusal = "none" THEN {} ELSE {[a EXCEPT !.typing = FALSE]}])
           \/ Quietly /\ Shows([ui EXCEPT !.outline.adding = {[a EXCEPT !.typing = TRUE]}])
           \/ Quietly /\ Shows([ui EXCEPT !.outline.adding = {}])
  BY DEF TypeAdd
<1>3. rowCalls(engine) = {}
  BY <1>2 DEF Inv, RowInv, OneRow
<1>4. ASSUME NEW next, Quietly, Shows([ui EXCEPT !.outline.adding = next]),
             next = {} \/ \E x : next = {[a EXCEPT !.typing = x]}
      PROVE  Inv'
  <2> DEFINE w == [ui EXCEPT !.outline.adding = next]
  <2>1. /\ UiShape(w) /\ SameFields(ui, w) /\ w.outline.adding = next
        /\ w.outline.held = ui.outline.held /\ w.outline.ids = ui.outline.ids
        /\ w.outline.edits = ui.outline.edits
    BY <1>1 DEF UiShape, SameFields
  <2>2. Kept(w, ui')
    BY <1>4, <2>1, KeptSync DEF Shows
  <2> HIDE DEF w
  <2>3. RowInv(w, engine)
    <3>1. CASE next = {}
      BY <1>3, <2>1, <3>1, RowClosed DEF Inv
    <3>2. ASSUME NEW x, next = {[a EXCEPT !.typing = x]}
          PROVE  RowInv(w, engine)
      <4> DEFINE b == [a EXCEPT !.typing = x]
      <4>1. {"draft", "text", "parent", "saving", "refusal"} \subseteq DOMAIN a
        BY DEF Inv, RowInv, OneRow
      <4>2. /\ {"draft", "text", "parent", "saving", "refusal"} \subseteq DOMAIN b
            /\ b.draft = a.draft /\ b.text = a.text /\ b.parent = a.parent
            /\ b.saving = a.saving /\ b.refusal = a.refusal
        BY <4>1
      <4>3. next = {b}
        BY <3>2
      <4> HIDE DEF b
      <4> QED
        BY <1>2, <1>3, <2>1, <4>2, <4>3, RowTyped DEF Inv
    <3> QED
      BY <1>4, <3>1, <3>2
  <2>4. FieldInv(w, engine)
    BY <1>1, <2>1, FieldFrame, EngineStays DEF Inv, EngineStep
  <2> QED
    BY <1>1, <1>4, <2>2, <2>3, <2>4, ThenShown DEF Quietly
<1>5. CASE \E text : SendAdd(a, text)
  BY <1>2, <1>5, SendAddKeeps
<1>6. CASE /\ Quietly
           /\ Shows([ui EXCEPT !.outline.adding =
                       IF a.refusal = "none" THEN {} ELSE {[a EXCEPT !.typing = FALSE]}])
  BY <1>4, <1>6
<1>7. CASE Quietly /\ Shows([ui EXCEPT !.outline.adding = {[a EXCEPT !.typing = TRUE]}])
  BY <1>4, <1>7
<1>8. CASE Quietly /\ Shows([ui EXCEPT !.outline.adding = {}])
  BY <1>4, <1>8
<1> QED
  BY <1>2, <1>5, <1>6, <1>7, <1>8

\* The answer to the row's call finds the row waiting for it, and nothing else.
LEMMA RowAnswered ==
  ASSUME Inv, NEW c \in rowCalls(engine), NEW a \in ui.outline.adding, NEW r
  PROVE  /\ a.saving /\ (c.from[1] = "add" => c.kind = "add" /\ c.task = a.draft)
         /\ rowCalls(answered(c, r)) = {}
         /\ RowInv(ui, answered(c, r)) /\ FieldInv(ui, answered(c, r))
         /\ EngineShape(answered(c, r)) /\ Counts(answered(c, r))
<1>1. c \in engine.calls /\ EngineShape(engine) /\ Counts(engine)
  BY DEF rowCalls, Inv, Shapes
<1> DEFINE f == answered(c, r)
<1>2. /\ EngineShape(f) /\ Counts(f) /\ FieldStep(engine, f) /\ RowStep(engine, f)
      /\ rowCalls(f) = rowCalls(engine) \ {c}
  BY <1>1, AnsweredStep
<1> HIDE DEF f
<1>3. RowInv(ui, f) /\ FieldInv(ui, f)
  BY <1>1, <1>2, RowFrame, FieldFrame DEF Inv, SameRow, SameFields
<1>4. rowCalls(f) = {}
  BY <1>2 DEF Inv, RowInv, OneRow
<1>5. a.saving /\ (c.from[1] = "add" => c.kind = "add" /\ c.task = a.draft)
  BY DEF Inv, RowInv, OneRow
<1> QED
  BY <1>2, <1>3, <1>4, <1>5 DEF f

\* The row goes, and its task is under the cursor.
LEMMA PlacedKeeps ==
  ASSUME NEW u, NEW e, NEW a, NEW task, UiShape(ui), UiShape(u), RowInv(ui, e), FieldInv(ui, e),
         EngineShape(e), Counts(e), rowCalls(e) = {},
         SameFields(ui, u), u.outline.held \in {ui.outline.held, None},
         u.outline.ids = ui.outline.ids, u.outline.edits = ui.outline.edits,
         engine' = e, ui' = placed(a, u, task)
  PROVE  Inv'
<1> DEFINE u1 == [u EXCEPT !.outline.adding = {[a EXCEPT !.saving = FALSE]}]
<1>1. PICK x, y : ui' = sync([u1 EXCEPT !.outline.cursor = x, !.outline.adding = {}], topics)
  BY DEF placed, ready, placedAt
<1> DEFINE w == [u1 EXCEPT !.outline.cursor = x, !.outline.adding = {}]
<1>2. /\ UiShape(u1) /\ u1.outline.held = u.outline.held /\ u1.outline.ids = u.outline.ids
      /\ u1.outline.edits = u.outline.edits /\ SameFields(u, u1)
  BY DEF UiShape, SameFields
<1> HIDE DEF u1
<1>3. /\ UiShape(w) /\ w.outline.held = u.outline.held /\ w.outline.ids = u.outline.ids
      /\ w.outline.edits = u.outline.edits /\ w.outline.adding = {} /\ SameFields(ui, w)
  BY <1>2 DEF UiShape, SameFields
<1>4. Kept(w, ui')
  BY <1>1, <1>3, KeptSync
<1> HIDE DEF w
<1>5. RowInv(w, e)
  BY <1>3, RowClosed
<1>6. FieldInv(w, e)
  BY <1>3, FieldFrame, EngineStays DEF EngineStep
<1> QED
  BY <1>4, <1>5, <1>6, ThenShown

LEMMA AnswerPlacedKeeps ==
  ASSUME Inv, AnswerPlaced
  PROVE  Inv'
<1>1. PICK c \in engine.calls, a \in ui.outline.adding : \E r \in Verdicts(c) :
        Waits(c, "placed") /\ engine' = answered(c, r) /\ ui' = placed(a, ui, c.task)
  BY DEF AnswerPlaced
<1>2. PICK r \in Verdicts(c) :
        Waits(c, "placed") /\ engine' = answered(c, r) /\ ui' = placed(a, ui, c.task)
  BY <1>1
<1>3. c \in rowCalls(engine)
  BY <1>2 DEF rowCalls, Waits
<1>4. /\ RowInv(ui, answered(c, r)) /\ FieldInv(ui, answered(c, r))
      /\ EngineShape(answered(c, r)) /\ Counts(answered(c, r)) /\ rowCalls(answered(c, r)) = {}
  BY <1>3, RowAnswered
<1>5. UiShape(ui) /\ SameFields(ui, ui)
  BY DEF Inv, Shapes, SameFields
<1> QED
  BY <1>4, <1>5, <1>2, PlacedKeeps

\* An add that is refused for good, or was never taken up, adds no task.
LEMMA RefusedAddsNone ==
  ASSUME Inv, NEW c \in rowCalls(engine), c.from[1] = "add", NEW a \in ui.outline.adding,
         NEW r \in Verdicts(c), r # "ok", r # "retry"
  PROVE  a.draft \notin Possible(ui, answered(c, r))
<1> DEFINE f == answered(c, r)
<1>1. /\ c \in engine.calls /\ c.kind = "add" /\ c.task = a.draft /\ a.saving
  BY RowAnswered DEF rowCalls
<1>2. c \in adds(engine) /\ Asked(a, engine)
  BY <1>1 DEF adds, Asked
<1>3. /\ a.draft \in engine.created => ui.outline.held[2] \in engine.applied
      /\ \A d \in adds(engine) : d.task = a.draft => d.op = c.op
      /\ ui.outline.held[2] = c.op
  BY <1>1, <1>2 DEF Inv, RowInv, HeldIsSent
<1>4. /\ c.op \notin engine.applied /\ r \in {"no", "usage"}
      /\ r = "usage" => \A s \in engine.slow : s.op # c.op
  BY DEF Verdicts
<1>5. /\ f.created = engine.created /\ f.calls = engine.calls \ {c} /\ f.slow = engine.slow
      /\ f.refused = IF r = "no" THEN engine.refused \cup {c.op} ELSE engine.refused
  BY <1>1, <1>4, AnsweredStep DEF Inv, Shapes
<1> HIDE DEF f
<1>6. a.draft \notin f.created
  BY <1>3, <1>4, <1>5
<1>7. ASSUME NEW d \in adds(f), d.task = a.draft, a.draft \in ui.outline.ids
      PROVE  d.op \in f.refused
  <2>1. d \in adds(engine) /\ d.op = c.op
    BY <1>3, <1>5, <1>7 DEF adds
  <2>2. CASE r = "no"
    BY <1>5, <2>1, <2>2
  <2>3. CASE r = "usage"
    <3>1. d \in engine.calls /\ d # c /\ d.kind = "add"
      BY <1>4, <1>5, <1>7, <2>1, <2>3 DEF adds
    <3>2. d \in rowCalls(engine)
      BY <1>7, <3>1 DEF Inv, RowInv, OneRow
    <3> QED
      BY <3>1, <3>2 DEF Inv, RowInv, OneRow
  <2> QED
    BY <1>4, <2>2, <2>3
<1>8. a.draft \notin Possible(ui, f)
  BY <1>6, <1>7 DEF Possible
<1> QED
  BY <1>8 DEF f

LEMMA AddAnswered ==
  ASSUME Inv, NEW c \in engine.calls, NEW a \in ui.outline.adding, NEW r \in Verdicts(c),
         Waits(c, "add"),
         LET u == IF Settled(r) THEN [ui EXCEPT !.outline.held = None] ELSE ui
             v == [u EXCEPT !.outline.pinned =
                     IF u.outline.filtered THEN @ \cup {c.task} ELSE @]
         IN  IF r # "ok"
             THEN /\ engine' = answered(c, r)
                  /\ ui' = [u EXCEPT !.outline.adding =
                       {[a EXCEPT !.saving = FALSE,
                                  !.refusal = IF r = "retry" THEN "retry" ELSE "no"]}]
             ELSE IF a.after = AtEnd
             THEN engine' = answered(c, r) /\ ui' = placed(a, v, c.task)
             ELSE /\ ui' = v
                  /\ engine' = write(answered(c, r),
                                    request("place", c.task, a.after, <<"placed">>))
  PROVE  Inv'
<1> DEFINE f == answered(c, r)
           u == IF Settled(r) THEN [ui EXCEPT !.outline.held = None] ELSE ui
           v == [u EXCEPT !.outline.pinned = IF u.outline.filtered THEN @ \cup {c.task} ELSE @]
           refusal == IF r = "retry" THEN "retry" ELSE "no"
           b == [a EXCEPT !.saving = FALSE, !.refusal = refusal]
           w == [u EXCEPT !.outline.adding = {b}]
           q == request("place", c.task, a.after, <<"placed">>)
<1>1. \/ r # "ok" /\ engine' = f /\ ui' = w
      \/ r = "ok" /\ engine' = f /\ ui' = placed(a, v, c.task)
      \/ r = "ok" /\ engine' = write(f, q) /\ ui' = v
  OBVIOUS
<1>2. c \in rowCalls(engine) /\ c.from[1] = "add"
  BY DEF rowCalls, Waits
<1>3. /\ a.saving /\ c.kind = "add" /\ c.task = a.draft /\ rowCalls(f) = {}
      /\ RowInv(ui, f) /\ FieldInv(ui, f) /\ EngineShape(f) /\ Counts(f)
  BY <1>2, RowAnswered
<1>4. UiShape(ui) /\ EngineShape(engine) /\ Counts(engine)
  BY DEF Inv, Shapes
<1>5. /\ UiShape(u) /\ SameFields(ui, u) /\ u.outline.adding = ui.outline.adding
      /\ u.outline.ids = ui.outline.ids /\ u.outline.edits = ui.outline.edits
      /\ u.outline.held = IF Settled(r) THEN None ELSE ui.outline.held
  BY <1>4 DEF UiShape, SameFields
<1>6. /\ UiShape(v) /\ SameFields(ui, v) /\ v.outline.adding = ui.outline.adding
      /\ v.outline.ids = ui.outline.ids /\ v.outline.edits = ui.outline.edits
      /\ v.outline.held = IF Settled(r) THEN None ELSE ui.outline.held
  <2> HIDE DEF u
  <2> QED
    BY <1>5 DEF UiShape, SameFields
<1>7. /\ UiShape(w) /\ SameFields(ui, w) /\ w.outline.adding = {b}
      /\ w.outline.ids = ui.outline.ids /\ w.outline.edits = ui.outline.edits
      /\ w.outline.held = IF Settled(r) THEN None ELSE ui.outline.held
  <2> HIDE DEF u, b
  <2> QED
    BY <1>5 DEF UiShape, SameFields
<1>8. /\ {"draft", "text", "parent", "saving", "refusal"} \subseteq DOMAIN b
      /\ b.draft = a.draft /\ b.text = a.text /\ b.parent = a.parent /\ b.saving = FALSE
      /\ b.refusal = refusal
  <2>1. {"draft", "text", "parent", "saving", "refusal"} \subseteq DOMAIN a
    BY DEF Inv, RowInv, OneRow
  <2> QED
    BY <2>1
<1>9. refusal = "retry" => r = "retry" /\ ~Settled(r)
  BY DEF Settled
<1>10. refusal # "retry" => r # "retry"
  OBVIOUS
<1> HIDE DEF f, u, v, b, w, q, refusal
<1>11. \A x : SameFields(ui, x) => FieldInv(x, f)
  BY <1>3, FieldFrame, EngineStays DEF EngineStep
<1>12. CASE r # "ok" /\ engine' = f /\ ui' = w
  <2>1. b.refusal = "retry" =>
          /\ w.outline.held # None
          /\ w.outline.held[1] = <<b.draft, b.text, b.parent>>
          /\ b.draft \in f.created => w.outline.held[2] \in f.applied
          /\ \A d \in adds(f) : d.task = b.draft => d.op = w.outline.held[2]
    <3> SUFFICES ASSUME refusal = "retry"
                 PROVE  /\ w.outline.held # None
                        /\ w.outline.held[1] = <<b.draft, b.text, b.parent>>
                        /\ b.draft \in f.created => w.outline.held[2] \in f.applied
                        /\ \A d \in adds(f) : d.task = b.draft => d.op = w.outline.held[2]
      BY <1>8
    <3>1. w.outline.held = ui.outline.held
      BY <1>7, <1>9
    <3>2. Asked(a, engine)
      BY <1>2, <1>3 DEF Asked
    <3>3. /\ ui.outline.held # None /\ ui.outline.held[1] = <<a.draft, a.text, a.parent>>
          /\ a.draft \in engine.created => ui.outline.held[2] \in engine.applied
          /\ \A d \in adds(engine) : d.task = a.draft => d.op = ui.outline.held[2]
      BY <3>2 DEF Inv, RowInv, HeldIsSent
    <3>4. f.created = engine.created /\ f.applied = engine.applied
          /\ adds(f) \subseteq adds(engine)
      BY <1>4, AnsweredStep DEF f
    <3> QED
      BY <1>8, <3>1, <3>3, <3>4
  <2>2. b.refusal # "retry" => a.draft \notin Possible(ui, f)
    BY <1>2, <1>8, <1>10, <1>12, RefusedAddsNone DEF f
  <2>3. w.outline.held \in {ui.outline.held, None}
    BY <1>7
  <2>4. RowInv(w, f)
    BY <1>3, <1>7, <1>8, <2>1, <2>2, <2>3, RowChanged
  <2> QED
    BY <1>3, <1>7, <1>11, <1>12, <2>4 DEF Inv, Shapes
<1>13. CASE r = "ok" /\ engine' = f /\ ui' = placed(a, v, c.task)
  <2>1. v.outline.held \in {ui.outline.held, None}
    BY <1>6
  <2> QED
    BY <1>3, <1>4, <1>6, <1>13, <2>1, PlacedKeeps
<1>14. CASE r = "ok" /\ engine' = write(f, q) /\ ui' = v
  <2>1. q.kind = "place" /\ q.from = <<"placed">>
    BY RequestFields DEF q
  <2>2. v.outline.held = None
    BY <1>6, <1>14 DEF Settled
  <2>3. \A x \in ui.outline.adding : x.saving
    BY <1>3 DEF Inv, RowInv, OneRow
  <2>4. /\ RowInv(v, write(f, q)) /\ EngineShape(write(f, q)) /\ Counts(write(f, q))
        /\ FieldStep(f, write(f, q))
    BY <1>3, <1>6, <2>1, <2>2, <2>3, RowPlaces
  <2>5. FieldInv(v, write(f, q))
    BY <1>3, <1>6, <2>4, FieldFrame
  <2> QED
    BY <1>6, <1>14, <2>4, <2>5 DEF Inv, Shapes
<1> QED
  BY <1>1, <1>12, <1>13, <1>14

LEMMA AnswerAddKeeps ==
  ASSUME Inv, AnswerAdd
  PROVE  Inv'
BY AddAnswered DEF AnswerAdd

----------------------------------------------------------------------------
(* The keys and answers of the fields.                                     *)

LEMMA SendFieldKeeps ==
  ASSUME Inv, NEW key, NEW value, NEW draft, SendField(key, value, draft, {}),
         key[2] \in {"title", "column", "rule"},
         draft = engine.sent + 1 \/ <<key, draft, value>> \in Drafts(ui, engine)
  PROVE  Inv'
<1> DEFINE held == {h \in ui.detail.held : h.key = key /\ h.value = value}
           op == IF held = {} THEN engine.sent + 1 ELSE (CHOOSE h \in held : TRUE).op
           r == request(key[2], key[1], value, <<"field", key, draft>>)
           c == numbered(engine, r, op)
<1>1. UiShape(ui) /\ EngineShape(engine) /\ Counts(engine)
  BY DEF Inv, Shapes
<1>2. /\ engine' = under_op(engine, r, op)
      /\ ui' = [ui EXCEPT
           !.detail.open = {},
           !.detail.held = besidesKey(@, key) \cup {[key |-> key, value |-> value, op |-> op]},
           !.detail.refusals = {q \in @ : q.key = key => q.draft = draft},
           !.detail.latest = besidesKey(@, key) \cup {[key |-> key, draft |-> draft]},
           !.detail.sent = besidesKey(@, key) \cup {[key |-> key, draft |-> draft, op |-> op]}]
  BY DEF SendField
<1>3. c.from = <<"field", key, draft>> /\ c.to = value
  BY DEF numbered, request
<1> HIDE DEF held, op, r, c
<1>4. /\ engine'.calls = engine.calls \cup {c} /\ engine'.slow = engine.slow
      /\ engine'.sent = engine.sent + 1 /\ engine'.applied = engine.applied
      /\ engine'.refused = engine.refused /\ engine'.created = engine.created
      /\ engine'.minted = engine.minted /\ EngineShape(engine')
  BY <1>1, <1>2 DEF EngineShape, under_op, c
<1>5. /\ UiShape(ui') /\ SameRow(ui, ui') /\ ui'.detail.open = {}
      /\ ui'.detail.held = besidesKey(ui.detail.held, key)
                             \cup {[key |-> key, value |-> value, op |-> op]}
      /\ ui'.detail.refusals = {q \in ui.detail.refusals : q.key = key => q.draft = draft}
      /\ ui'.detail.latest = besidesKey(ui.detail.latest, key)
                               \cup {[key |-> key, draft |-> draft]}
      /\ ui'.detail.sent = besidesKey(ui.detail.sent, key)
                             \cup {[key |-> key, draft |-> draft, op |-> op]}
  BY <1>1, <1>2 DEF UiShape, SameRow
<1>6. FieldInv(ui', engine')
  <2>1. Said(engine') = Said(engine) /\ FieldInv(ui, engine)
    BY <1>4 DEF Said, Inv
  <2>2. SendsField(ui, ui', engine, engine', key, value, draft, c, op)
    BY <1>3, <1>4, <1>5, <2>1 DEF SendsField
  <2> QED
    BY <1>1, <2>1, <2>2, FieldSent
<1>7. c.kind # "add"
  BY DEF c, r, numbered, request
<1>8. RowInv(ui', engine')
  <2>1. adds(engine') = adds(engine) /\ rowCalls(engine') = rowCalls(engine)
    BY <1>3, <1>4, <1>7 DEF adds, rowCalls
  <2>2. Counts(engine') /\ RowStep(engine, engine')
    BY <1>1, <1>4, <1>7, <2>1, NewTasksApart DEF Counts, RowStep, AddStep
  <2> QED
    BY <1>1, <1>5, <2>2, RowFrame DEF Inv
<1> QED
  BY <1>1, <1>4, <1>5, <1>6, <1>8 DEF Inv, Shapes, Counts

\* A save is a draft of a new number, a resend the draft that was refused.
LEMMA FieldKeys ==
  ASSUME Inv, GoDetail \/ Tick \/ OpenField \/ UseField \/ Retry
  PROVE  Inv'
<1>1. UiShape(ui) /\ EngineShape(engine) /\ Counts(engine) /\ FieldInv(ui, engine)
  BY DEF Inv, Shapes
<1>2. CASE GoDetail
  <2>1. \A x : Kept(ui, [ui EXCEPT !.detail.at = x])
    BY <1>1 DEF Kept, SameRow, SameFields, UiShape
  <2> QED
    BY <1>2, <2>1, QuietlyStep, ApartKeeps DEF GoDetail, Apart, Inv
<1>3. CASE Tick
  <2>1. \E i : Writes(request("mark", i.id, ~i.closed, <<"none">>))
    BY <1>3 DEF Tick
  <2>2. EngineStep(engine, engine')
    BY <2>1, WritesStep DEF Inv
  <2> QED
    BY <1>1, <1>3, <2>2, KeptSame, ApartKeeps DEF Tick, Apart
<1>4. ASSUME NEW o, ui' = [ui EXCEPT !.detail.open = o], engine' = engine, AreFields(o)
      PROVE  Inv'
  <2>1. /\ UiShape(ui') /\ SameRow(ui, ui') /\ ui'.detail.open = o
        /\ ui'.detail.held = ui.detail.held /\ ui'.detail.refusals = ui.detail.refusals
        /\ ui'.detail.latest = ui.detail.latest /\ ui'.detail.sent = ui.detail.sent
    BY <1>1, <1>4 DEF UiShape, SameRow
  <2>2. AreFields(ui'.detail.open) /\ Drafts(ui', engine) = Drafts(ui, engine)
    BY <1>4, <2>1 DEF AreFields, Drafts
  <2>3. FieldInv(ui', engine)
    BY <1>1, <2>1, <2>2 DEF FieldInv, DraftsApart, DraftsPast, LatestBacked, RefusedBacked,
                            Backed
  <2>4. RowInv(ui', engine)
    BY <1>1, <2>1, RowFrame, EngineStays DEF EngineStep, Inv
  <2> QED
    BY <1>1, <1>4, <2>1, <2>3, <2>4 DEF Inv, Shapes
<1>5. CASE OpenField
  <2>1. PICK x, y : ui' = [ui EXCEPT !.detail.open =
                            {[key |-> FieldKey, custom |-> FALSE, was |-> x, statuses |-> y]}]
    BY <1>5 DEF OpenField
  <2>2. FieldKey[2] \in {"title", "column", "rule"}
    BY <1>5 DEF OpenField, OnField, FieldKey, Fields
  <2> DEFINE o == {[key |-> FieldKey, custom |-> FALSE, was |-> x, statuses |-> y]}
  <2>3. AreFields(o)
    BY <2>2 DEF AreFields
  <2>4. ui' = [ui EXCEPT !.detail.open = o] /\ engine' = engine
    BY <1>5, <2>1 DEF OpenField, Quietly
  <2> HIDE DEF o
  <2> QED
    BY <1>4, <2>3, <2>4
<1>6. CASE UseField
  <2>1. PICK e \in ui.detail.open :
          \/ SaveField(e)
          \/ ui' = [ui EXCEPT !.detail.open = {}] /\ Quietly
    BY <1>6 DEF UseField
  <2>2. "key" \in DOMAIN e /\ e.key[2] \in {"title", "column", "rule"}
    BY <1>1 DEF FieldInv, AreFields
  <2>3. CASE ui' = [ui EXCEPT !.detail.open = {}] /\ Quietly
    <3>1. AreFields({})
      BY DEF AreFields
    <3> QED
      BY <1>4, <2>3, <3>1 DEF Quietly
  <2>4. CASE Quietly /\ ui' = [ui EXCEPT !.detail.open = {[e EXCEPT !.custom = TRUE]}]
    <3> DEFINE d == [e EXCEPT !.custom = TRUE]
    <3>1. AreFields({d})
      BY <2>2 DEF AreFields
    <3>2. ui' = [ui EXCEPT !.detail.open = {d}] /\ engine' = engine
      BY <2>4 DEF Quietly
    <3> HIDE DEF d
    <3> QED
      BY <1>4, <3>1, <3>2
  <2>5. ASSUME NEW value, SendField(e.key, value, engine.sent + 1, {})
        PROVE  Inv'
    BY <2>2, <2>5, SendFieldKeeps
  <2> QED
    BY <2>1, <2>3, <2>4, <2>5 DEF SaveField
<1>7. CASE Retry
  <2>1. PICK r \in Refused : SendField(r.key, r.value, r.draft, {})
    BY <1>7 DEF Retry
  <2>2. r.key[2] \in {"title", "column", "rule"}
    BY DEF Refused, OnField, FieldKey, Fields
  <2>3. <<r.key, r.draft, r.value>> \in Drafts(ui, engine)
    BY DEF Refused, Drafts
  <2> QED
    BY <2>1, <2>2, <2>3, SendFieldKeeps
<1> QED
  BY <1>2, <1>3, <1>5, <1>6, <1>7

LEMMA EscapeKeeps ==
  ASSUME Inv, Escape, Quietly
  PROVE  Inv'
<1>1. UiShape(ui)
  BY DEF Inv, Shapes
<1>2. \A x \in SUBSET ui.detail.refusals : Kept(ui, [ui EXCEPT !.detail.refusals = x])
  BY <1>1 DEF Kept, SameRow, SameFields, UiShape
<1>3. Kept(ui, setFocus(ui, topics, "outline"))
  BY <1>1, KeptFocus
<1> DEFINE w == [ui EXCEPT !.outline.filtered = FALSE, !.outline.pinned = {}]
<1>4. Kept(ui, w) /\ UiShape(w)
  BY <1>1 DEF Kept, SameRow, SameFields, UiShape
<1>5. Kept(ui, sync(w, topics))
  BY <1>4, KeptSync, KeptTwice
<1>6. \/ ui' = [ui EXCEPT !.detail.refusals = @ \ Refused]
      \/ ui' = setFocus(ui, topics, "outline")
      \/ ui' = sync(w, topics)
  BY DEF Escape, Focused
<1>7. Kept(ui, ui')
  BY <1>2, <1>3, <1>5, <1>6
<1> QED
  BY <1>7, QuietlyStep, ApartKeeps DEF Apart, Inv

AnswersField(c, r, said) ==
  /\ Waits(c, "field") /\ engine' = answered(c, r)
  /\ LET key == c.from[2]
         u == [ui EXCEPT !.detail.held =
                IF Settled(r) THEN {h \in @ : h.op # c.op} ELSE @]
         v == [u EXCEPT !.detail.latest = besidesKey(@, key)]
         refusal == [key |-> key, draft |-> c.from[3], value |-> c.to,
                     retryable |-> r = "retry"]
     IN  ui' = IF ~current(key, c.from[3]) THEN u
               ELSE IF said THEN v
               ELSE [v EXCEPT !.detail.refusals =
                      besidesKey(@, key) \cup (IF r = "ok" THEN {} ELSE {refusal})]

LEMMA FieldAnswerKeeps ==
  ASSUME Inv, NEW c \in engine.calls, NEW r \in Verdicts(c), NEW said \in BOOLEAN,
         AnswersField(c, r, said)
  PROVE  Inv'
<1>1. UiShape(ui) /\ EngineShape(engine) /\ Counts(engine)
  BY DEF Inv, Shapes
<1>2. c.from[1] = "field"
  BY DEF Waits, AnswersField
<1> DEFINE key == c.from[2]
           held == IF Settled(r) THEN {h \in ui.detail.held : h.op # c.op} ELSE ui.detail.held
           u == [ui EXCEPT !.detail.held = IF Settled(r) THEN {h \in @ : h.op # c.op} ELSE @]
           v == [u EXCEPT !.detail.latest = besidesKey(@, key)]
           refusal == [key |-> key, draft |-> c.from[3], value |-> c.to,
                       retryable |-> r = "retry"]
           w == [v EXCEPT !.detail.refusals =
                  besidesKey(@, key) \cup (IF r = "ok" THEN {} ELSE {refusal})]
<1>3. ui' = u \/ ui' = v \/ (current(key, c.from[3]) /\ ui' = w)
  BY DEF AnswersField
<1>4. /\ EngineShape(engine') /\ Counts(engine') /\ FieldStep(engine, engine')
      /\ RowStep(engine, engine') /\ engine'.applied = engine.applied
      /\ engine'.refused = IF r = "no" THEN engine.refused \cup {c.op} ELSE engine.refused
  BY <1>1, AnsweredStep DEF AnswersField
<1>5. Settled(r) \in BOOLEAN /\ (Settled(r) => c.op \in Said(engine'))
  BY <1>4 DEF Settled, Verdicts, Said
<1> DEFINE rest == besidesKey(ui.detail.refusals, key) \cup {refusal}
<1>6. /\ UiShape(ui') /\ SameRow(ui, ui')
      /\ ui'.detail.held = IF Settled(r) THEN {h \in ui.detail.held : h.op # c.op}
                           ELSE ui.detail.held
      /\ ui'.detail.sent = ui.detail.sent /\ ui'.detail.open = ui.detail.open
      /\ ui'.detail.latest \in {ui.detail.latest, besidesKey(ui.detail.latest, key)}
      /\ \/ ui'.detail.refusals = ui.detail.refusals
         \/ current(key, c.from[3]) /\ ui'.detail.refusals \subseteq rest
  <2>1. /\ UiShape(u) /\ SameRow(ui, u) /\ u.detail.held = held
        /\ u.detail.sent = ui.detail.sent /\ u.detail.open = ui.detail.open
        /\ u.detail.latest = ui.detail.latest /\ u.detail.refusals = ui.detail.refusals
    BY <1>1 DEF UiShape, SameRow
  <2> HIDE DEF u, refusal, held
  <2>2. /\ UiShape(v) /\ SameRow(ui, v) /\ v.detail.held = held
        /\ v.detail.sent = ui.detail.sent /\ v.detail.open = ui.detail.open
        /\ v.detail.latest = besidesKey(ui.detail.latest, key)
        /\ v.detail.refusals = ui.detail.refusals
    BY <2>1 DEF UiShape, SameRow
  <2> HIDE DEF v
  <2>3. /\ UiShape(w) /\ SameRow(ui, w) /\ w.detail.held = held
        /\ w.detail.sent = ui.detail.sent /\ w.detail.open = ui.detail.open
        /\ w.detail.latest = besidesKey(ui.detail.latest, key)
        /\ w.detail.refusals \subseteq rest
    BY <2>2 DEF UiShape, SameRow
  <2> HIDE DEF w
  <2>4. CASE ui' = u
    BY <2>1, <2>4 DEF held
  <2>5. CASE ui' = v
    BY <2>2, <2>5 DEF held
  <2>6. CASE current(key, c.from[3]) /\ ui' = w
    BY <2>3, <2>6 DEF held
  <2> QED
    BY <1>3, <2>4, <2>5, <2>6
<1>7. /\ refusal.key = c.from[2] /\ refusal.draft = c.from[3]
      /\ refusal.value = c.to
  OBVIOUS
<1> HIDE DEF u, v, w, refusal
<1>8. FieldInv(ui', engine')
  <2>1. c \in fieldCalls(engine) /\ FieldInv(ui, engine)
    BY <1>2 DEF fieldCalls, Inv
  <2>2. ui'.detail.latest \subseteq ui.detail.latest
    BY <1>6 DEF besidesKey
  <2>3. \/ ui'.detail.refusals \subseteq ui.detail.refusals
        \/ /\ [key |-> c.from[2], draft |-> c.from[3]] \in ui.detail.latest
           /\ ui'.detail.refusals \subseteq ui.detail.refusals \cup {refusal}
    BY <1>6 DEF besidesKey, current
  <2>4. AnsweredField(ui, ui', c, Settled(r), refusal)
    BY <1>6, <1>7, <2>2, <2>3 DEF AnsweredField
  <2> QED
    BY <1>1, <1>4, <1>5, <2>1, <2>4, FieldAnswered
<1>9. RowInv(ui', engine')
  BY <1>1, <1>4, <1>6, RowFrame DEF Inv
<1> QED
  BY <1>4, <1>6, <1>8, <1>9 DEF Inv, Shapes

LEMMA AnswerFieldKeeps ==
  ASSUME Inv, AnswerField
  PROVE  Inv'
<1>1. \E c \in engine.calls : \E r \in Verdicts(c) : \E said \in BOOLEAN : AnswersField(c, r, said)
  BY ZenonT(60) DEF AnswerField, AnswersField
<1> QED
  BY <1>1, FieldAnswerKeeps

----------------------------------------------------------------------------
(* The specification.                                                      *)

LEMMA InitInv ==
  ASSUME Init
  PROVE  Inv
<1>1. PICK c \in Cases : ui = sync(Start(c), topics)
  BY DEF Init
<1> DEFINE s == Start(c)
<1>2. /\ UiShape(s) /\ s.outline.adding = {} /\ s.outline.held = None /\ s.outline.ids = {}
      /\ s.outline.edits = 0 /\ s.detail.open = {} /\ s.detail.refusals = {}
      /\ s.detail.latest = {} /\ s.detail.held = {} /\ s.detail.sent = {}
  BY DEF Start, UiShape
<1>3. /\ engine.calls = {} /\ engine.slow = {} /\ engine.applied = {}
      /\ engine.refused = {} /\ engine.sent = 0 /\ engine.minted = 0
      /\ engine.created = {} /\ EngineShape(engine) /\ Counts(engine)
  BY NewTasksApart DEF Init, EngineShape, Counts
<1> HIDE DEF s
<1>4. /\ adds(engine) = {} /\ rowCalls(engine) = {} /\ fieldCalls(engine) = {}
      /\ Possible(s, engine) = {} /\ Drafts(s, engine) = {}
  BY <1>2, <1>3 DEF adds, rowCalls, fieldCalls, Possible, Drafts
<1>5. IsFiniteSet({}) /\ Cardinality({}) = 0
  BY FS_EmptySet
<1>6. RowInv(s, engine)
  BY <1>2, <1>3, <1>4, <1>5 DEF RowInv, SentMinted, OneRow, HeldIsSent, Final, Counted
<1>7. FieldInv(s, engine)
  BY <1>2, <1>4 DEF FieldInv, AreFields, DraftsApart, DraftsPast, LatestBacked, RefusedBacked
<1>8. Kept(s, ui)
  BY <1>1, <1>2, KeptSync DEF s
<1>9. RowInv(ui, engine) /\ FieldInv(ui, engine)
  BY <1>3, <1>6, <1>7, <1>8, RowFrame, FieldFrame, EngineStays DEF EngineStep, Kept
<1> QED
  BY <1>3, <1>8, <1>9 DEF Inv, Shapes, Kept

LEMMA NextInv ==
  ASSUME Inv, [Next]_vars
  PROVE  Inv'
<1>1. CASE PaneKey
  BY <1>1, SharedKeys, OutlineKeys, BoardKeys, OpenAddKeeps, TypeAddKeeps, ApartKeeps
     DEF PaneKey, Inv
<1>2. CASE DetailKey
  BY <1>2, FieldKeys DEF DetailKey
<1>3. CASE RootKey
  BY <1>3, RootKeys, EscapeKeeps, ApartKeeps DEF RootKey, Inv
<1>4. CASE ScreenKey
  BY <1>4, StatusKeys, ApartKeeps DEF ScreenKey, Inv
<1>5. CASE Take \/ Watched \/ OtherChange
  BY <1>5, EngineMoves, ApartKeeps DEF Inv
<1>6. CASE Answer
  BY <1>6, AnswerAddKeeps, AnswerPlacedKeeps, AnswerFieldKeeps, OtherAnswers, ApartKeeps
     DEF Answer, Inv
<1>7. CASE UNCHANGED vars
  BY <1>7, KeptSame, EngineStays, ApartKeeps DEF vars, Inv, Shapes, Apart
<1> QED
  BY <1>1, <1>2, <1>3, <1>4, <1>5, <1>6, <1>7 DEF Next

LEMMA Invariant == Spec => []Inv
<1>1. Init => Inv
  BY InitInv
<1>2. Inv /\ [Next]_vars => Inv'
  BY NextInv
<1> QED
  BY <1>1, <1>2, PTL DEF Spec

\* A new task's row adds one task, and one more for each time its text was
\* changed after it was sent, whatever answers were lost: a resend of the same
\* text is the same operation (outline.ts:310-325, intent.ts:36-51).
THEOREM RowAddsOnce == Spec => []AddsOnce
<1>1. Inv => AddsOnce
  <2> SUFFICES ASSUME Inv
               PROVE  AddsOnce
    OBVIOUS
  <2>1. SentMinted(ui, engine) /\ ui.outline.edits \in Nat
    BY DEF Inv, RowInv, SentMinted
  <2>2. Cardinality(Possible(ui, engine)) <= 1 + ui.outline.edits
    BY DEF Inv, RowInv, Counted
  <2> DEFINE P == ui.outline.ids \cap engine.created
  <2>3. P \subseteq Possible(ui, engine)
    BY DEF Possible
  <2>4. /\ Cardinality(P) \in Nat /\ Cardinality(Possible(ui, engine)) \in Nat
        /\ Cardinality(P) <= Cardinality(Possible(ui, engine))
    BY <2>1, <2>3, PossibleFinite
  <2> QED
    BY <2>1, <2>2, <2>4 DEF AddsOnce
<1> QED
  BY <1>1, Invariant, PTL

\* A field is shown refused for the last draft sent for it, and what `r` would
\* resend is the operation the field holds, or one whose verdict is recorded
\* (detail-pane.ts:234-267, intent.ts:36-51).
THEOREM RefusalsAreLatest == Spec => []RefusalIsLatest
<1>1. Inv => RefusalIsLatest
  BY DEF Inv, FieldInv, RefusedBacked, RefusalIsLatest, Backed, Said
<1> QED
  BY <1>1, Invariant, PTL
==============================================================================
