------------------------------- MODULE EngineHub -------------------------------
(***************************************************************************)
(* The hub of one user's engines (engine-hub.ts) behind its controller: a  *)
(* cold request or stream loads an engine, the last stream's end unloads   *)
(* it later, a deletion at once.  Every tab opens an event stream and      *)
(* posts what it watches; a publish reaches all streams of the engine.     *)
(*                                                                         *)
(* What an engine does with a write is in Engine; here it is a replica of  *)
(* some version of the user's data, which syncs when the change feed or    *)
(* its own start tells it to.  EventPage puts the pages before the hub.    *)
(***************************************************************************)
EXTENDS Naturals, Sequences, SequencesExt

CONSTANTS
  Tabs, Views, Layouts,
  Saved,       \* [versions -> Layouts], the layout saved for the views
  MaxVersion, MaxConns, MaxPosts  \* bounds

ASSUME SavedAssumption ==
  /\ {MaxVersion, MaxConns, MaxPosts} \subseteq Nat
  /\ Saved \in [0..MaxVersion -> Layouts]
  /\ IsFiniteSet(Tabs)

VARIABLES
  hub,    \* the server process, its user and the user's data
  conns,  \* event streams, as they were asked for
  posts   \* requests to the engine, likewise

hubVars == <<hub, conns, posts>>

None == "none"
NoWatch == [view |-> None, layout |-> None]
Cold == 0   \* no stream, no engine

NewEngine == [streams |-> [t \in Tabs |-> 0], watches |-> [t \in Tabs |-> NoWatch],
              timer |-> FALSE, ready |-> FALSE, due |-> TRUE, pulled |-> 0, pulling |-> FALSE,
              replica |-> 0]

HubInit ==
  /\ hub = [alive |-> TRUE,      \* the user's row exists
            leaving |-> FALSE,   \* a deletion has committed and is to unload the hub
            deleted |-> FALSE,   \* the hub remembers that it did
            version |-> 0,
            current |-> Cold,    \* which engine is loaded, the how-manieth
            loads |-> 0, engine |-> NewEngine]
  /\ conns = << >>
  /\ posts = << >>

\* A stream asked for and a request posted, as the page sends them.  `overtaken'
\* is history, which no step reads: another stream of the tab, asked for before
\* this one, opened after it.
asked(t) == [tab |-> t, at |-> "sent", engine |-> Cold, live |-> FALSE, overtaken |-> FALSE,
             events |-> << >>]
answered(t) == [tab |-> t, at |-> "answered", watch |-> NoWatch, live |-> FALSE]
posted(t, watch) == [tab |-> t, at |-> "sent", watch |-> watch, live |-> FALSE]

----------------------------------------------------------------------------
(* What an engine publishes: the catalog, and the views its tabs watch.    *)

shown(x) == IF x.ready THEN x.replica ELSE 0
layoutOf(watch, version) == IF watch.layout # None THEN watch.layout ELSE Saved[version]

view(x, watch) ==
  [topic |-> "view", key |-> watch.view, layout |-> layoutOf(watch, shown(x)),
   version |-> shown(x)]
catalog(x) == [topic |-> "catalog", key |-> None, layout |-> None, version |-> shown(x)]

views(x, watches) == SetToSeq({view(x, w) : w \in {w \in watches : w.view # None}})
publishAll(x) == <<catalog(x)>> \o views(x, {x.watches[t] : t \in Tabs})

\* Every stream of the engine gets every event.
sent(cs, x, events) ==
  [k \in DOMAIN cs |-> IF k \in {x.streams[t] : t \in Tabs}
                       THEN [cs[k] EXCEPT !.events = @ \o events] ELSE cs[k]]

----------------------------------------------------------------------------
(* Loading and unloading.                                                  *)

\* Mutated: the account's deletion is not remembered.
refuseDeletedNever(h) == FALSE
refuseDeleted(h) == h.deleted

load(h) ==
  IF h.current # Cold THEN h
  ELSE [h EXCEPT !.engine = NewEngine, !.loads = @ + 1, !.current = h.loads + 1]

\* A stream or a request keeps the engine.
kept(h) == [h EXCEPT !.engine.timer = FALSE]

\* The last stream gone, the engine is to go as well.
idle(h) ==
  [h EXCEPT !.engine.timer = @ \/ \A t \in Tabs : h.engine.streams[t] = Cold]

\* An engine out of the map has no streams, and its timer does nothing.
dropped(h) == [h EXCEPT !.current = Cold, !.engine = NewEngine]

IdleUnload ==
  /\ hub.current # Cold
  /\ hub.engine.timer
  /\ hub' = dropped(hub)
  /\ UNCHANGED <<conns, posts>>

----------------------------------------------------------------------------
(* Streams.                                                                *)

\* events: with an engine loaded the user is known to live; otherwise the
\* database is asked.
Arrive(k) ==
  /\ conns[k].at = "sent"
  /\ conns' = [conns EXCEPT ![k].at = IF hub.current = Cold THEN "asking" ELSE "asserted",
                            ![k].live = hub.current # Cold]
  /\ UNCHANGED <<hub, posts>>

Counted(k) ==
  /\ conns[k].at = "asking"
  /\ conns' = [conns EXCEPT ![k].at = "asserted", ![k].live = hub.alive]
  /\ UNCHANGED <<hub, posts>>

opened(h, k, t) == [h EXCEPT !.engine.streams[t] = k]

\* The k-th stream is open on an engine, and has overtaken none of its tab but
\* those asked for after it.
openedOn(cs, k, engine) ==
  [j \in DOMAIN cs |->
     IF j = k THEN [cs[j] EXCEPT !.at = "open", !.engine = engine]
     ELSE [cs[j] EXCEPT !.overtaken = @ \/ /\ j > k
                                           /\ cs[j].tab = cs[k].tab
                                           /\ cs[j].at = "open"]]

\* The head of the answer is written, the stream takes its tab's place and
\* everything is published.  Nobody asks whether the page still waits for it:
\* the controller listens for the close of the request only from here on.
Open(k) ==
  LET h == opened(kept(load(hub)), k, conns[k].tab)
  IN /\ conns[k].at = "asserted"
     /\ \/ /\ ~conns[k].live \/ refuseDeleted(hub)
           /\ conns' = [conns EXCEPT ![k].at = "refused"]
           /\ UNCHANGED hub
        \/ /\ conns[k].live /\ ~refuseDeleted(hub)
           /\ hub' = h
           /\ conns' = sent(openedOn(conns, k, h.current), h.engine, publishAll(h.engine))
     /\ UNCHANGED posts

without(h, t) ==
  idle([h EXCEPT !.engine.streams[t] = Cold, !.engine.watches[t] = NoWatch])

\* Mutated: whichever stream the tab has now is taken away.
closedAny(h, k) == IF h.current = conns[k].engine THEN without(h, conns[k].tab) ELSE h

\* A reconnect may have replaced this stream already: that one is left.
closed(h, k) ==
  IF h.current = conns[k].engine /\ h.engine.streams[conns[k].tab] = k
  THEN without(h, conns[k].tab) ELSE h

\* The stream's token expired, or its connection was found closed; of one whose
\* page was gone before it opened, only the token's end is ever noticed.
Close(k) ==
  /\ conns[k].at = "open"
  /\ hub' = closed(hub, k)
  /\ conns' = [conns EXCEPT ![k].at = "ended", ![k].engine = Cold]
  /\ UNCHANGED posts

----------------------------------------------------------------------------
(* Requests: what a page watches.  Its writes are in Engine.               *)

\* A cold request asks the database first.
Take(r) ==
  /\ posts[r].at = "sent"
  /\ posts' = [posts EXCEPT ![r].at = IF hub.current = Cold THEN "asking" ELSE "asserted",
                            ![r].live = hub.current # Cold]
  /\ UNCHANGED <<hub, conns>>

CountedFor(r) ==
  /\ posts[r].at = "asking"
  /\ posts' = [posts EXCEPT ![r].at = "asserted", ![r].live = hub.alive]
  /\ UNCHANGED <<hub, conns>>

watching(h, t, watch) == [h EXCEPT !.engine.watches[t] = watch]

Dispatch(r) ==
  LET watch == posts[r].watch
      h == watching(kept(load(hub)), posts[r].tab, watch)
  IN /\ posts[r].at = "asserted"
     /\ \/ /\ ~posts[r].live \/ refuseDeleted(hub)
           /\ posts' = [posts EXCEPT ![r].at = "refused"]
           /\ UNCHANGED <<hub, conns>>
        \/ /\ posts[r].live /\ ~refuseDeleted(hub)
           /\ posts' = [posts EXCEPT ![r] = answered(@.tab)]
           /\ hub' = idle(h)
           /\ conns' = sent(conns, h.engine, views(h.engine, {watch}))

----------------------------------------------------------------------------
(* The engine's own life.                                                  *)

\* Its session is restored and its first sync asked for: it publishes.
Start ==
  LET x == [hub.engine EXCEPT !.ready = TRUE]
  IN /\ hub.current # Cold
     /\ ~hub.engine.ready
     /\ hub' = [hub EXCEPT !.engine = x]
     /\ conns' = sent(conns, x, publishAll(x))
     /\ UNCHANGED posts

\* A sync the server has answered, and its answer in the replica.
Pull ==
  /\ hub.current # Cold
  /\ hub.engine.ready /\ hub.engine.due /\ ~hub.engine.pulling
  /\ hub' = [hub EXCEPT !.engine.due = FALSE, !.engine.pulling = TRUE,
                        !.engine.pulled = hub.version]
  /\ UNCHANGED <<conns, posts>>

Land ==
  LET x == [hub.engine EXCEPT !.pulling = FALSE, !.pulled = 0,
                                  !.replica = hub.engine.pulled]
  IN /\ hub.current # Cold
     /\ hub.engine.pulling
     /\ hub' = [hub EXCEPT !.engine = x]
     /\ conns' = sent(conns, x, publishAll(x))
     /\ UNCHANGED posts

\* The change feed: a loaded engine owes a sync.
announce(h) ==
  IF h.current = Cold THEN h ELSE [h EXCEPT !.engine.due = TRUE]

\* A device or an engine wrote.
Write ==
  /\ hub.alive
  /\ hub.version < MaxVersion
  /\ hub' = announce([hub EXCEPT !.version = @ + 1])
  /\ UNCHANGED <<conns, posts>>

----------------------------------------------------------------------------
(* The account is deleted: the user's row goes, and then the hub unloads.  *)

DeleteUser ==
  /\ hub.alive
  /\ hub' = [hub EXCEPT !.alive = FALSE, !.leaving = TRUE]
  /\ UNCHANGED <<conns, posts>>

Unload ==
  LET streams == {hub.engine.streams[t] : t \in Tabs}
  IN /\ hub.leaving
     /\ hub' = [dropped(hub) EXCEPT !.leaving = FALSE, !.deleted = TRUE]
     /\ conns' = [k \in DOMAIN conns |->
          IF k \in streams THEN [conns[k] EXCEPT !.at = "ended", !.engine = Cold]
          ELSE conns[k]]
     /\ UNCHANGED posts

\* The process stops: its streams and requests with it.
Restart ==
  /\ hub' = [dropped(hub) EXCEPT !.leaving = FALSE, !.deleted = FALSE]
  /\ conns' = [k \in DOMAIN conns |->
       IF conns[k].at \in {"ended", "refused"} THEN conns[k]
       ELSE [conns[k] EXCEPT !.at = "ended", !.engine = Cold, !.events = << >>]]
  /\ posts' = [r \in DOMAIN posts |->
       IF posts[r].at \in {"answered", "refused"} THEN posts[r]
       ELSE answered(posts[r].tab)]

----------------------------------------------------------------------------
(***************************************************************************)
(* Once a deletion has unloaded the user's engine, none is loaded again,   *)
(* not for a request or a stream whose question to the database was        *)
(* answered before the deletion (engine-hub.ts:152-171).                   *)
(***************************************************************************)
NoEngineForDeleted == hub.deleted => hub.current = Cold
=============================================================================
