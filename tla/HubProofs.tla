------------------------------ MODULE HubProofs ------------------------------
(***************************************************************************)
(* What the hub keeps for every number of tabs, streams and requests: the  *)
(* stream a page reads is its tab's on the engine that is loaded, unless   *)
(* one given up on has overtaken it, a deleted user's engine stays         *)
(* unloaded, and a page that has settled shows what it watches.            *)
(***************************************************************************)
EXTENDS EventPage, SequenceTheorems, FiniteSetTheorems, TLAPS

----------------------------------------------------------------------------
(* The invariant.                                                          *)

EngineShape(x) ==
  /\ DOMAIN x = {"streams", "watches", "timer", "ready", "due", "pulled", "pulling",
                 "replica"}
  /\ DOMAIN x.streams = Tabs /\ DOMAIN x.watches = Tabs
HubShape(h) ==
  /\ DOMAIN h = {"alive", "leaving", "deleted", "version", "current", "loads", "engine"}
  /\ EngineShape(h.engine)
  /\ h.loads \in Nat

ConnShape(c) ==
  /\ DOMAIN c = {"tab", "at", "engine", "live", "overtaken", "events"}
  /\ c.tab \in Tabs
ConnsShape(cs) ==
  /\ \E n \in 0 .. MaxConns : cs = [k \in 1 .. n |-> cs[k]]
  /\ \A k \in DOMAIN cs : ConnShape(cs[k])

PageShape(p) ==
  /\ DOMAIN p = Tabs
  /\ \A t \in Tabs : DOMAIN p[t] = {"signedIn", "connected", "opened", "conn",
                                    "watching", "catalog", "view"}

\* The stream a page has asked for is its own.
Owned(p, cs) ==
  \A t \in Tabs : p[t].conn # Cold =>
    p[t].conn \in DOMAIN cs /\ cs[p[t].conn].tab = t

\* It is the last one it asked for: what else of the tab is still to open was
\* given up before.
Pending == {"sent", "asking", "asserted"}
Newest(p, cs) ==
  \A k \in DOMAIN cs : p[cs[k].tab].conn # Cold => k <= p[cs[k].tab].conn

\* ConnectedHears, of any state.
Placed(h, p, cs) ==
  \A t \in Tabs :
    p[t].conn # Cold /\ cs[p[t].conn].at = "open" /\ ~cs[p[t].conn].overtaken =>
    /\ cs[p[t].conn].engine = h.current
    /\ h.current # Cold
    /\ h.engine.streams[t] = p[t].conn

\* The idle timer runs only while nobody streams.
TimerIdle(h) == h.engine.timer => \A t \in Tabs : h.engine.streams[t] = Cold

Unloaded(h) == h.deleted => h.current = Cold

HubOK(h) == HubShape(h) /\ TimerIdle(h) /\ Unloaded(h)
Inv ==
  /\ HubOK(hub)
  /\ ConnsShape(conns)
  /\ PageShape(page)
  /\ Owned(page, conns)
  /\ Newest(page, conns)
  /\ Placed(hub, page, conns)

----------------------------------------------------------------------------
(* The hub's operators.                                                    *)

LEMMA NewEngineShape ==
  EngineShape(NewEngine) /\ NewEngine.timer = FALSE
    /\ \A t \in Tabs : NewEngine.streams[t] = Cold
BY DEF EngineShape, NewEngine, Cold

\* Loading an engine leaves one that is loaded alone.
LEMMA Load ==
  ASSUME NEW h, HubShape(h)
  PROVE  /\ HubShape(load(h))
         /\ load(h).current # Cold
         /\ load(h).deleted = h.deleted
         /\ h.current # Cold => load(h) = h
         /\ h.current = Cold => load(h).engine = NewEngine
BY NewEngineShape DEF HubShape, EngineShape, load, Cold

LEMMA Kept ==
  ASSUME NEW h, HubShape(h)
  PROVE  /\ HubShape(kept(h))
         /\ kept(h).engine.timer = FALSE
         /\ kept(h).engine.streams = h.engine.streams
         /\ kept(h).current = h.current
         /\ kept(h).deleted = h.deleted
BY DEF HubShape, EngineShape, kept

LEMMA Opened ==
  ASSUME NEW h, HubShape(h), NEW k, NEW t \in Tabs
  PROVE  /\ HubShape(opened(h, k, t))
         /\ opened(h, k, t).engine.timer = h.engine.timer
         /\ opened(h, k, t).engine.streams = [h.engine.streams EXCEPT ![t] = k]
         /\ opened(h, k, t).current = h.current
         /\ opened(h, k, t).deleted = h.deleted
BY DEF HubShape, EngineShape, opened

LEMMA Watched ==
  ASSUME NEW h, HubShape(h), NEW t, NEW watch
  PROVE  /\ HubShape(watching(h, t, watch))
         /\ watching(h, t, watch).engine.timer = h.engine.timer
         /\ watching(h, t, watch).engine.streams = h.engine.streams
         /\ watching(h, t, watch).current = h.current
         /\ watching(h, t, watch).deleted = h.deleted
BY DEF HubShape, EngineShape, watching

LEMMA Idling ==
  ASSUME NEW h, HubOK(h)
  PROVE  /\ HubOK(idle(h))
         /\ idle(h).engine.streams = h.engine.streams
         /\ idle(h).current = h.current
BY DEF HubOK, HubShape, EngineShape, TimerIdle, Unloaded, idle

LEMMA Dropped ==
  ASSUME NEW h, HubShape(h)
  PROVE  HubOK(dropped(h)) /\ dropped(h).current = Cold
BY NewEngineShape DEF HubOK, HubShape, EngineShape, TimerIdle, Unloaded, dropped

----------------------------------------------------------------------------
(* Streams: what changes of one is its events or how far it is.            *)

Alike(c, d) ==
  /\ ConnShape(d)
  /\ d.tab = c.tab /\ d.at = c.at /\ d.engine = c.engine
  /\ d.overtaken = c.overtaken

\* What an engine publishes changes the events of its streams.
LEMMA Sent ==
  ASSUME NEW cs, ConnsShape(cs), NEW x, NEW events
  PROVE  /\ ConnsShape(sent(cs, x, events))
         /\ DOMAIN sent(cs, x, events) = DOMAIN cs
         /\ \A k \in DOMAIN cs : Alike(cs[k], sent(cs, x, events)[k])
<1> DEFINE ds == sent(cs, x, events)
<1>1. DOMAIN ds = DOMAIN cs
  BY DEF sent
<1>2. \A k \in DOMAIN cs : Alike(cs[k], ds[k])
  BY DEF sent, ConnsShape, ConnShape, Alike
<1>3. \E n \in 0 .. MaxConns : ds = [k \in 1 .. n |-> ds[k]]
  BY <1>1 DEF ConnsShape, sent
<1> QED
  BY <1>1, <1>2, <1>3 DEF ConnsShape, Alike

\* Nothing but events.
LEMMA EventsOnly ==
  ASSUME NEW cs, NEW ds, ConnsShape(cs), DOMAIN ds = DOMAIN cs,
         \A k \in DOMAIN cs : Alike(cs[k], ds[k]),
         NEW h, NEW p, PageShape(p), Owned(p, cs), Newest(p, cs), Placed(h, p, cs)
  PROVE  Owned(p, ds) /\ Newest(p, ds) /\ Placed(h, p, ds)
BY DEF Alike, ConnsShape, ConnShape, Owned, Newest, Placed, PageShape

\* A function stays one.
LEMMA StillConns ==
  ASSUME NEW cs, ConnsShape(cs), NEW ds,
         ds = [k \in DOMAIN cs |-> ds[k]], \A k \in DOMAIN cs : ConnShape(ds[k])
  PROVE  ConnsShape(ds)
BY DEF ConnsShape

----------------------------------------------------------------------------
(* The server's steps, one by one; the pages stand still.                  *)

LEMMA QuestionStep ==
  ASSUME Inv, UNCHANGED page, NEW k \in DOMAIN conns, Arrive(k) \/ Counted(k)
  PROVE  Inv'
<1>1. /\ DOMAIN conns' = DOMAIN conns
      /\ conns' = [j \in DOMAIN conns |-> conns'[j]]
  BY DEF Arrive, Counted
<1>2. \A j \in DOMAIN conns :
        /\ ConnShape(conns'[j])
        /\ conns'[j].tab = conns[j].tab /\ conns'[j].engine = conns[j].engine
        /\ conns'[j].overtaken = conns[j].overtaken
        /\ \/ conns'[j].at = conns[j].at
           \/ conns[j].at \in Pending /\ conns'[j].at \in Pending
  BY DEF Arrive, Counted, Inv, ConnsShape, ConnShape, Pending
<1>3. ConnsShape(conns')
  BY <1>1, <1>2, StillConns DEF Inv
<1>4. UNCHANGED hub
  BY DEF Arrive, Counted
<1>5. Owned(page, conns') /\ Newest(page, conns')
  BY <1>1, <1>2 DEF Inv, Owned, Newest, PageShape, ConnShape
<1>6. Placed(hub, page, conns')
  BY <1>1, <1>2 DEF Inv, Owned, Placed, PageShape, Pending
<1> QED
  BY <1>3, <1>4, <1>5, <1>6 DEF Inv

\* What a stream that opens does to the others of its tab.
LEMMA OpenedOn ==
  ASSUME NEW cs, ConnsShape(cs), NEW k \in DOMAIN cs, NEW e, NEW ds, ds = openedOn(cs, k, e)
  PROVE  /\ ConnsShape(ds) /\ DOMAIN ds = DOMAIN cs
         /\ ds[k].at = "open" /\ ds[k].engine = e /\ ds[k].tab = cs[k].tab
         /\ ds[k].events = cs[k].events /\ ds[k].overtaken = cs[k].overtaken
         /\ \A j \in DOMAIN cs \ {k} :
              /\ ds[j].tab = cs[j].tab /\ ds[j].at = cs[j].at
              /\ ds[j].engine = cs[j].engine /\ ds[j].events = cs[j].events
              /\ ds[j].overtaken <=>
                   \/ cs[j].overtaken
                   \/ j > k /\ cs[j].tab = cs[k].tab /\ cs[j].at = "open"
<1>1. DOMAIN ds = DOMAIN cs /\ ds = [j \in DOMAIN cs |-> ds[j]]
  BY DEF openedOn
<1>2. ds[k] = [cs[k] EXCEPT !.at = "open", !.engine = e] /\ ConnShape(cs[k])
  BY DEF openedOn, ConnsShape
<1>3. /\ ds[k].at = "open" /\ ds[k].engine = e /\ ds[k].tab = cs[k].tab
      /\ ds[k].events = cs[k].events /\ ds[k].overtaken = cs[k].overtaken
      /\ ConnShape(ds[k])
  BY <1>2 DEF ConnShape
<1>4. ASSUME NEW j \in DOMAIN cs \ {k}
      PROVE  /\ ConnShape(ds[j])
             /\ ds[j].tab = cs[j].tab /\ ds[j].at = cs[j].at
             /\ ds[j].engine = cs[j].engine /\ ds[j].events = cs[j].events
             /\ ds[j].overtaken <=>
                  \/ cs[j].overtaken
                  \/ j > k /\ cs[j].tab = cs[k].tab /\ cs[j].at = "open"
  <2> DEFINE late == j > k /\ cs[j].tab = cs[k].tab /\ cs[j].at = "open"
  <2>1. ds[j] = [cs[j] EXCEPT !.overtaken = cs[j].overtaken \/ late] /\ ConnShape(cs[j])
    BY <1>4 DEF openedOn, ConnsShape
  <2> HIDE DEF late
  <2>2. /\ ConnShape(ds[j])
        /\ ds[j].tab = cs[j].tab /\ ds[j].at = cs[j].at
        /\ ds[j].engine = cs[j].engine /\ ds[j].events = cs[j].events
        /\ ds[j].overtaken = (cs[j].overtaken \/ late)
    BY <2>1 DEF ConnShape
  <2> QED
    BY <2>2 DEF late
<1>5. ConnsShape(ds)
  <2>1. \A j \in DOMAIN cs : ConnShape(ds[j])
    BY <1>3, <1>4
  <2> QED
    BY <1>1, <2>1, StillConns
<1> QED
  BY <1>1, <1>3, <1>4, <1>5

\* A stream takes its tab's place in the loaded engine.  If it is not the one its
\* page reads, that one is overtaken; and if an engine had to be loaded no page
\* was streaming.
LEMMA OpenStep ==
  ASSUME Inv, UNCHANGED page, NEW k \in DOMAIN conns, Open(k)
  PROVE  Inv'
<1> DEFINE t == conns[k].tab
           l == kept(load(hub))
           h == opened(l, k, t)
<1>1. t \in Tabs /\ conns[k].at = "asserted"
  BY DEF Inv, ConnsShape, ConnShape, Open
<1>2. CASE UNCHANGED hub /\ conns' = [conns EXCEPT ![k].at = "refused"]
  <2>1. /\ DOMAIN conns' = DOMAIN conns
        /\ conns' = [j \in DOMAIN conns |-> conns'[j]]
    BY <1>2
  <2>2. \A j \in DOMAIN conns :
          /\ ConnShape(conns'[j])
          /\ conns'[j].tab = conns[j].tab /\ conns'[j].engine = conns[j].engine
          /\ conns'[j].overtaken = conns[j].overtaken
          /\ conns'[j].at = conns[j].at \/ conns'[j].at = "refused"
    BY <1>2 DEF Inv, ConnsShape, ConnShape
  <2>3. ConnsShape(conns')
    BY <2>1, <2>2, StillConns DEF Inv
  <2>4. Owned(page, conns') /\ Newest(page, conns') /\ Placed(hub, page, conns')
    BY <2>1, <2>2 DEF Inv, Owned, Newest, Placed, PageShape
  <2> QED
    BY <1>2, <2>3, <2>4 DEF Inv
<1>3. CASE /\ ~refuseDeleted(hub)
           /\ hub' = h
           /\ conns' = sent(openedOn(conns, k, h.current), h.engine, publishAll(h.engine))
  <2> DEFINE cs == openedOn(conns, k, h.current)
  <2>1. /\ HubShape(h) /\ h.current # Cold /\ ~h.deleted /\ ~h.engine.timer
        /\ h.current = load(hub).current
        /\ h.engine.streams = [load(hub).engine.streams EXCEPT ![t] = k]
        /\ DOMAIN load(hub).engine.streams = Tabs
    <3>1. HubShape(load(hub)) /\ load(hub).deleted = hub.deleted /\ load(hub).current # Cold
      BY Load DEF Inv, HubOK
    <3>2. /\ HubShape(l) /\ l.engine.timer = FALSE /\ l.current = load(hub).current
          /\ l.engine.streams = load(hub).engine.streams /\ l.deleted = hub.deleted
      BY <3>1, Kept
    <3>3. /\ HubShape(h) /\ h.engine.timer = l.engine.timer /\ h.current = l.current
          /\ h.engine.streams = [l.engine.streams EXCEPT ![t] = k]
          /\ h.deleted = l.deleted
      BY <1>1, <3>2, Opened
    <3> QED
      BY <1>3, <3>1, <3>2, <3>3 DEF refuseDeleted, HubShape, EngineShape
  <2>2. HubOK(h)
    BY <2>1 DEF HubOK, TimerIdle, Unloaded
  <2> HIDE DEF h
  <2>3. /\ ConnsShape(cs) /\ DOMAIN cs = DOMAIN conns
        /\ cs[k].at = "open" /\ cs[k].engine = h.current /\ cs[k].tab = t
        /\ \A j \in DOMAIN conns \ {k} :
             /\ cs[j].tab = conns[j].tab /\ cs[j].at = conns[j].at
             /\ cs[j].engine = conns[j].engine
             /\ cs[j].overtaken <=>
                  \/ conns[j].overtaken
                  \/ j > k /\ conns[j].tab = t /\ conns[j].at = "open"
    BY OpenedOn DEF Inv
  <2>0. conns' = sent(cs, h.engine, publishAll(h.engine))
    BY <1>3 DEF h
  <2> HIDE DEF cs
  <2>5. Owned(page, cs) /\ Newest(page, cs)
    BY <2>3 DEF Inv, Owned, Newest, PageShape
  <2>6. Placed(h, page, cs)
    <3> SUFFICES ASSUME NEW u \in Tabs, page[u].conn # Cold, cs[page[u].conn].at = "open",
                        ~cs[page[u].conn].overtaken
                 PROVE  /\ cs[page[u].conn].engine = h.current
                        /\ h.current # Cold
                        /\ h.engine.streams[u] = page[u].conn
      BY DEF Placed
    <3> DEFINE c == page[u].conn
    <3>0. c \in DOMAIN conns /\ conns[c].tab = u
      BY DEF Inv, Owned
    <3>1. CASE c = k
      BY <1>1, <2>1, <2>3, <3>0, <3>1
    <3>2. CASE c # k
      <4>1. /\ conns[c].at = "open" /\ ~conns[c].overtaken
            /\ conns[c].engine = cs[c].engine
            /\ ~(c > k /\ u = t)
        BY <2>3, <3>0, <3>2
      <4>2. u # t
        <5>1. k <= page[t].conn \/ page[t].conn = Cold
          BY DEF Inv, Newest
        <5>2. PICK n \in 0 .. MaxConns : conns = [j \in 1 .. n |-> conns[j]]
          BY DEF Inv, ConnsShape
        <5>3. k \in 1 .. n /\ c \in 1 .. n
          BY <3>0, <5>2
        <5> QED
          BY <3>2, <4>1, <5>1, <5>3
      <4>3. /\ conns[c].engine = hub.current /\ hub.current # Cold
            /\ hub.engine.streams[u] = c
        BY <4>1 DEF Inv, Placed
      <4>4. load(hub) = hub
        BY <4>3, Load DEF Inv, HubOK
      <4> QED
        BY <2>1, <4>1, <4>2, <4>3, <4>4
    <3> QED
      BY <3>1, <3>2
  <2>7. /\ ConnsShape(conns') /\ DOMAIN conns' = DOMAIN cs
        /\ \A j \in DOMAIN cs : Alike(cs[j], conns'[j])
    BY <2>0, <2>3, Sent
  <2>8. Owned(page, conns') /\ Newest(page, conns') /\ Placed(h, page, conns')
    BY <2>3, <2>5, <2>6, <2>7, EventsOnly DEF Inv
  <2> QED
    BY <1>3, <2>2, <2>7, <2>8 DEF Inv, h
<1> QED
  BY <1>2, <1>3 DEF Open

\* A stream that ends takes its own place away and nobody else's.
LEMMA CloseStep ==
  ASSUME Inv, UNCHANGED page, NEW k \in DOMAIN conns, Close(k)
  PROVE  Inv'
<1> DEFINE t == conns[k].tab
           h == [hub EXCEPT !.engine.streams[t] = Cold, !.engine.watches[t] = NoWatch]
<1>1. /\ DOMAIN conns' = DOMAIN conns
      /\ conns' = [j \in DOMAIN conns |-> conns'[j]]
      /\ conns'[k].at = "ended" /\ conns'[k].tab = t /\ ConnShape(conns'[k])
      /\ \A j \in DOMAIN conns \ {k} : conns'[j] = conns[j]
  BY DEF Close, Inv, ConnsShape, ConnShape
<1>2. ConnsShape(conns')
  <2>1. \A j \in DOMAIN conns : ConnShape(conns'[j])
    BY <1>1 DEF Inv, ConnsShape
  <2> QED
    BY <1>1, <2>1, StillConns DEF Inv
<1>3. Owned(page, conns') /\ Newest(page, conns')
  BY <1>1 DEF Inv, Owned, Newest, PageShape, Pending
<1>4. CASE UNCHANGED hub
  BY <1>1, <1>2, <1>3, <1>4 DEF Inv, Owned, Placed
<1>5. CASE hub.engine.streams[t] = k /\ hub' = idle(h)
  <2>1. /\ HubOK(h) /\ h.current = hub.current
        /\ h.engine.streams = [hub.engine.streams EXCEPT ![t] = Cold]
    BY DEF Inv, HubOK, HubShape, EngineShape, TimerIdle, Unloaded
  <2>2. HubOK(hub') /\ hub'.current = hub.current
          /\ hub'.engine.streams = [hub.engine.streams EXCEPT ![t] = Cold]
    BY <1>5, <2>1, Idling
  <2>3. Placed(hub', page, conns')
    <3> SUFFICES ASSUME NEW u \in Tabs, page[u].conn # Cold,
                        conns'[page[u].conn].at = "open", ~conns'[page[u].conn].overtaken
                 PROVE  /\ conns'[page[u].conn].engine = hub'.current
                        /\ hub'.current # Cold
                        /\ hub'.engine.streams[u] = page[u].conn
      BY DEF Placed
    <3>1. /\ page[u].conn \in DOMAIN conns \ {k}
          /\ conns'[page[u].conn] = conns[page[u].conn]
      BY <1>1 DEF Inv, Owned
    <3>2. /\ conns[page[u].conn].engine = hub.current /\ hub.current # Cold
          /\ hub.engine.streams[u] = page[u].conn
      BY <3>1 DEF Inv, Placed
    <3>3. u # t
      BY <1>5, <3>1, <3>2
    <3> QED
      BY <2>2, <3>1, <3>2, <3>3 DEF Inv, HubOK, HubShape, EngineShape
  <2> QED
    BY <1>2, <1>3, <2>2, <2>3 DEF Inv
<1> QED
  BY <1>4, <1>5 DEF Close, closed, without

LEMMA RequestStep ==
  ASSUME Inv, UNCHANGED page, NEW r, Take(r) \/ CountedFor(r) \/ Dispatch(r)
  PROVE  Inv'
<1>1. CASE UNCHANGED <<hub, conns>>
  BY <1>1 DEF Inv
<1>2. ASSUME ~refuseDeleted(hub),
             hub' = idle(watching(kept(load(hub)), posts[r].tab, posts[r].watch)),
             NEW x, NEW events, conns' = sent(conns, x, events)
      PROVE  Inv'
  <2> DEFINE l == load(hub)
             w == watching(kept(l), posts[r].tab, posts[r].watch)
  <2>1. /\ HubShape(l) /\ l.current # Cold /\ l.deleted = hub.deleted
        /\ hub.current # Cold => l = hub
    BY Load DEF Inv, HubOK
  <2>2. /\ HubShape(w) /\ ~w.engine.timer /\ ~w.deleted /\ w.current = l.current
        /\ w.engine.streams = l.engine.streams
    <3>1. /\ HubShape(kept(l)) /\ kept(l).engine.timer = FALSE
          /\ kept(l).engine.streams = l.engine.streams
          /\ kept(l).current = l.current /\ kept(l).deleted = l.deleted
      BY <2>1, Kept
    <3>2. /\ HubShape(w) /\ w.engine.timer = kept(l).engine.timer
          /\ w.engine.streams = kept(l).engine.streams
          /\ w.current = kept(l).current /\ w.deleted = kept(l).deleted
      BY <3>1, Watched
    <3> QED
      BY <1>2, <2>1, <3>1, <3>2 DEF refuseDeleted
  <2>3. HubOK(w)
    BY <2>2 DEF HubOK, TimerIdle, Unloaded
  <2>4. hub' = idle(w)
    BY <1>2
  <2> HIDE DEF w
  <2>5. /\ HubOK(hub') /\ hub'.current = l.current
        /\ hub'.engine.streams = l.engine.streams
    BY <2>2, <2>3, <2>4, Idling
  <2>6. Placed(hub', page, conns)
    BY <2>1, <2>5 DEF Inv, Placed
  <2>7. /\ ConnsShape(conns') /\ DOMAIN conns' = DOMAIN conns
        /\ \A j \in DOMAIN conns : Alike(conns[j], conns'[j])
    BY <1>2, Sent DEF Inv
  <2>8. Owned(page, conns') /\ Newest(page, conns') /\ Placed(hub', page, conns')
    BY <2>6, <2>7, EventsOnly DEF Inv
  <2> QED
    BY <2>5, <2>7, <2>8 DEF Inv
<1> QED
  BY <1>1, <1>2 DEF Take, CountedFor, Dispatch

\* What the engine does of itself moves no stream.
LEMMA EngineStep ==
  ASSUME Inv, UNCHANGED page, Start \/ Pull \/ Land \/ Write \/ DeleteUser
  PROVE  Inv'
<1>1. HubOK(hub') /\ hub'.current = hub.current
        /\ hub'.engine.streams = hub.engine.streams
  <2>1. HubShape(hub) /\ TimerIdle(hub) /\ Unloaded(hub)
    BY DEF Inv, HubOK
  <2>2. CASE Start
    BY <2>1, <2>2 DEF Start, HubOK, HubShape, EngineShape, TimerIdle, Unloaded
  <2>3. CASE Pull
    BY <2>1, <2>3 DEF Pull, HubOK, HubShape, EngineShape, TimerIdle, Unloaded
  <2>4. CASE Land
    BY <2>1, <2>4 DEF Land, HubOK, HubShape, EngineShape, TimerIdle, Unloaded
  <2>5. CASE Write
    BY <2>1, <2>5 DEF Write, announce, HubOK, HubShape, EngineShape, TimerIdle, Unloaded
  <2>6. CASE DeleteUser
    BY <2>1, <2>6 DEF DeleteUser, HubOK, HubShape, EngineShape, TimerIdle, Unloaded
  <2> QED
    BY <2>2, <2>3, <2>4, <2>5, <2>6
<1>2. Placed(hub', page, conns)
  BY <1>1 DEF Inv, Placed
<1>3. /\ ConnsShape(conns') /\ DOMAIN conns' = DOMAIN conns
      /\ \A j \in DOMAIN conns : Alike(conns[j], conns'[j])
  <2>1. CASE UNCHANGED conns
    BY <2>1 DEF Inv, ConnsShape, Alike
  <2>2. ASSUME NEW x, NEW events, conns' = sent(conns, x, events)
        PROVE  /\ ConnsShape(conns') /\ DOMAIN conns' = DOMAIN conns
               /\ \A j \in DOMAIN conns : Alike(conns[j], conns'[j])
    BY <2>2, Sent DEF Inv
  <2>3. CASE Pull \/ Write \/ DeleteUser
    BY <2>1, <2>3 DEF Pull, Write, DeleteUser
  <2>4. \/ Pull \/ Write \/ DeleteUser
        \/ \E x, events : conns' = sent(conns, x, events)
    BY DEF Start, Land
  <2> QED
    BY <2>2, <2>3, <2>4
<1>4. Owned(page, conns') /\ Newest(page, conns') /\ Placed(hub', page, conns')
  BY <1>2, <1>3, EventsOnly DEF Inv
<1> QED
  BY <1>1, <1>3, <1>4 DEF Inv

\* The idle timer drops an engine nobody streams from, a deletion ends the
\* streams of the one it drops, and a restart ends them all.
LEMMA UnloadStep ==
  ASSUME Inv, UNCHANGED page, IdleUnload \/ Unload \/ Restart
  PROVE  Inv'
<1>1. HubOK(hub')
  <2>1. HubOK(dropped(hub)) /\ dropped(hub).current = Cold
    BY Dropped DEF Inv, HubOK
  <2> DEFINE d == dropped(hub)
  <2> HIDE DEF d
  <2>2. CASE IdleUnload
    BY <2>1, <2>2 DEF IdleUnload
  <2>3. CASE hub' = [d EXCEPT !.leaving = FALSE, !.deleted = TRUE]
    BY <2>1, <2>3 DEF d, HubOK, HubShape, EngineShape, TimerIdle, Unloaded
  <2>4. CASE hub' = [d EXCEPT !.leaving = FALSE, !.deleted = FALSE]
    BY <2>1, <2>4 DEF d, HubOK, HubShape, EngineShape, TimerIdle, Unloaded
  <2> QED
    BY <2>2, <2>3, <2>4 DEF d, Unload, Restart
<1>2. /\ DOMAIN conns' = DOMAIN conns
      /\ conns' = [j \in DOMAIN conns |-> conns'[j]]
  BY DEF IdleUnload, Unload, Restart, Inv, ConnsShape
<1>3. \A j \in DOMAIN conns :
        /\ ConnShape(conns'[j]) /\ conns'[j].tab = conns[j].tab
        /\ conns'[j] = conns[j] \/ conns'[j].at = "ended"
  <2>1. \A j \in DOMAIN conns : ConnShape(conns[j])
    BY DEF Inv, ConnsShape
  <2>2. CASE IdleUnload
    BY <2>1, <2>2 DEF IdleUnload
  <2>3. CASE Unload
    BY <2>1, <2>3 DEF Unload, ConnShape
  <2>4. CASE Restart
    BY <2>1, <2>4 DEF Restart, ConnShape
  <2> QED
    BY <2>2, <2>3, <2>4
<1>4. ConnsShape(conns')
  BY <1>2, <1>3, StillConns DEF Inv
<1>5. Owned(page, conns') /\ Newest(page, conns')
  BY <1>2, <1>3 DEF Inv, Owned, Newest, PageShape, Pending
<1>6. ASSUME NEW u \in Tabs, page[u].conn # Cold, conns'[page[u].conn].at = "open",
             ~conns'[page[u].conn].overtaken
      PROVE  FALSE
  <2> DEFINE k == page[u].conn
  <2>1. /\ k \in DOMAIN conns /\ conns'[k] = conns[k] /\ conns[k].at = "open"
        /\ ~conns[k].overtaken
    BY <1>3, <1>6 DEF Inv, Owned
  <2>2. hub.engine.streams[u] = k
    BY <1>6, <2>1 DEF Inv, Placed
  <2>3. CASE IdleUnload
    BY <1>6, <2>2, <2>3 DEF IdleUnload, Inv, HubOK, TimerIdle
  <2>4. CASE Unload
    BY <1>6, <2>1, <2>2, <2>4 DEF Unload, Inv, ConnsShape, ConnShape
  <2>5. CASE Restart
    BY <2>1, <2>5 DEF Restart, Inv, ConnsShape, ConnShape
  <2> QED
    BY <2>3, <2>4, <2>5
<1>7. Placed(hub', page, conns')
  BY <1>6 DEF Placed
<1> QED
  BY <1>1, <1>4, <1>5, <1>7 DEF Inv

----------------------------------------------------------------------------
(* The pages' steps; the hub stands still.                                 *)

\* The stream a page asks for is the next one.
LEMMA Connecting ==
  ASSUME Inv, NEW t \in Tabs, Connect(t)
  PROVE  \E n \in Nat :
           /\ n + 1 \in 0 .. MaxConns /\ conns = [k \in 1 .. n |-> conns[k]]
           /\ DOMAIN conns = 1 .. n /\ DOMAIN conns' = 1 .. n + 1
           /\ conns' = [k \in 1 .. n + 1 |-> conns'[k]]
           /\ \A k \in 1 .. n : conns'[k] = conns[k]
           /\ conns'[n + 1] = asked(t)
           /\ page' = [page EXCEPT ![t].conn = n + 1]
<1>1. PICK n \in 0 .. MaxConns : conns = [k \in 1 .. n |-> conns[k]]
  BY DEF Inv, ConnsShape
<1> DEFINE new == asked(t)
           S == {conns[k] : k \in 1 .. n} \cup {new}
<1>2. n \in Nat /\ MaxConns \in Nat
  BY SavedAssumption
<1>3. conns \in Seq(S)
  <2>1. \A k \in 1 .. n : conns[k] \in S
    OBVIOUS
  <2>2. conns \in [1 .. n -> S]
    BY <1>1, <2>1
  <2> QED
    BY <1>2, <2>2, SeqDef
<1>4. Len(conns) = n
  <2>1. DOMAIN conns = 1 .. n
    BY <1>1
  <2>2. Len(conns) \in Nat /\ DOMAIN conns = 1 .. Len(conns)
    BY <1>3, LenProperties
  <2> QED
    BY <1>2, <2>1, <2>2
<1>5. /\ conns' \in Seq(S) /\ Len(conns') = n + 1
      /\ \A k \in 1 .. n : conns'[k] = conns[k]
      /\ conns'[n + 1] = new
  <2>1. conns' = Append(conns, new)
    BY DEF Connect
  <2> HIDE DEF S, new
  <2>2. new \in S
    BY DEF S
  <2> QED
    BY <1>3, <1>4, <2>1, <2>2, AppendProperties
<1>6. DOMAIN conns' = 1 .. n + 1 /\ conns' = [k \in 1 .. n + 1 |-> conns'[k]]
  <2> HIDE DEF S
  <2>1. conns' \in [1 .. n + 1 -> S]
    BY <1>5, LenProperties
  <2> QED
    BY <2>1
<1>7. n + 1 \in 0 .. MaxConns
  BY <1>2, <1>4 DEF Connect
<1>8. page' = [page EXCEPT ![t].conn = n + 1] /\ DOMAIN conns = 1 .. n
  BY <1>1, <1>4 DEF Connect
<1> QED
  BY <1>1, <1>2, <1>5, <1>6, <1>7, <1>8

\* The stream a page asks for is the last.
LEMMA ConnectStep ==
  ASSUME Inv, NEW t \in Tabs, Connect(t)
  PROVE  Inv'
<1> DEFINE new == asked(t)
<1>1. PICK n \in Nat :
        /\ n + 1 \in 0 .. MaxConns /\ conns = [k \in 1 .. n |-> conns[k]]
        /\ DOMAIN conns = 1 .. n /\ DOMAIN conns' = 1 .. n + 1
        /\ conns' = [k \in 1 .. n + 1 |-> conns'[k]]
        /\ \A k \in 1 .. n : conns'[k] = conns[k]
        /\ conns'[n + 1] = new
        /\ page' = [page EXCEPT ![t].conn = n + 1]
  BY Connecting
<1>2. ConnShape(new) /\ new.tab = t /\ new.at = "sent"
  BY DEF ConnShape, asked
<1>3. ConnsShape(conns')
  <2>1. \A k \in DOMAIN conns' : k = n + 1 \/ k \in 1 .. n
    BY <1>1
  <2>2. \A k \in 1 .. n : ConnShape(conns[k])
    BY <1>1 DEF Inv, ConnsShape
  <2>3. \A k \in DOMAIN conns' : ConnShape(conns'[k])
    BY <1>1, <1>2, <2>1, <2>2
  <2> QED
    BY <1>1, <2>3 DEF ConnsShape
<1>4. /\ page' = [page EXCEPT ![t].conn = n + 1] /\ page[t].conn = Cold
       /\ UNCHANGED hub
  BY <1>1 DEF Connect
<1>5. PageShape(page') /\ page'[t].conn = n + 1
         /\ \A u \in Tabs \ {t} : page'[u] = page[u]
  BY <1>4 DEF Inv, PageShape
<1>6. /\ DOMAIN conns = 1 .. n /\ n + 1 \notin 1 .. n
      /\ DOMAIN conns' = (1 .. n) \cup {n + 1}
      /\ conns'[n + 1] = new /\ \A k \in 1 .. n : conns'[k] = conns[k]
  BY <1>1
<1> HIDE DEF new
<1>7. Owned(page', conns')
  BY <1>2, <1>5, <1>6 DEF Inv, Owned
<1>8. Newest(page', conns')
  <2> SUFFICES ASSUME NEW k \in DOMAIN conns', page'[conns'[k].tab].conn # Cold
               PROVE  k <= page'[conns'[k].tab].conn
    BY DEF Newest
  <2>1. CASE k = n + 1
    BY <1>1, <1>2, <1>5, <2>1
  <2>2. CASE k \in 1 .. n
    <3>1. conns'[k].tab = conns[k].tab /\ conns[k].tab \in Tabs /\ k \in DOMAIN conns
      BY <1>6, <2>2 DEF Inv, ConnsShape, ConnShape
    <3>2. CASE conns[k].tab = t
      BY <1>1, <1>5, <2>2, <3>1, <3>2
    <3>3. CASE conns[k].tab # t
      BY <1>5, <3>1, <3>3 DEF Inv, Newest
    <3> QED
      BY <3>2, <3>3
  <2> QED
    BY <1>6, <2>1, <2>2
<1>9. Placed(hub, page', conns')
  BY <1>2, <1>5, <1>6 DEF Inv, Placed, Owned
<1> QED
  BY <1>3, <1>4, <1>5, <1>7, <1>8, <1>9 DEF Inv

\* The pages move, but ask for no other stream.
LEMMA SameStreams ==
  ASSUME Inv, UNCHANGED hub, PageShape(page'), \A t \in Tabs : page'[t].conn = page[t].conn,
         ConnsShape(conns'), DOMAIN conns' = DOMAIN conns,
         \A k \in DOMAIN conns : Alike(conns[k], conns'[k])
  PROVE  Inv'
<1>1. Owned(page', conns) /\ Newest(page', conns) /\ Placed(hub, page', conns)
  <2>1. \A k \in DOMAIN conns : conns[k].tab \in Tabs
    BY DEF Inv, ConnsShape, ConnShape
  <2>2. Owned(page', conns)
    BY DEF Inv, Owned
  <2>3. Newest(page', conns)
    BY <2>1 DEF Inv, Newest
  <2>4. Placed(hub, page', conns)
    BY DEF Inv, Placed
  <2> QED
    BY <2>2, <2>3, <2>4
<1>2. Owned(page', conns') /\ Newest(page', conns') /\ Placed(hub, page', conns')
  BY <1>1, EventsOnly DEF Inv
<1> QED
  BY <1>2 DEF Inv

LEMMA HearStep ==
  ASSUME Inv, NEW t \in Tabs, Hear(t)
  PROVE  Inv'
<1> DEFINE k == page[t].conn
           heard == receive(page[t], Head(conns[k].events))
<1>1. DOMAIN heard = DOMAIN page[t] /\ heard.conn = page[t].conn
  BY DEF receive, Inv, PageShape
<1>2. page' = [page EXCEPT ![t] = [heard EXCEPT !.opened = TRUE, !.connected = TRUE]]
  BY DEF Hear
<1>3. conns' = [conns EXCEPT ![k].events = Tail(@)] /\ UNCHANGED hub
  BY DEF Hear
<1> HIDE DEF heard
<1>4. PageShape(page') /\ \A u \in Tabs : page'[u].conn = page[u].conn
  BY <1>1, <1>2 DEF Inv, PageShape
<1>5. /\ DOMAIN conns' = DOMAIN conns
      /\ conns' = [j \in DOMAIN conns |-> conns'[j]]
      /\ \A j \in DOMAIN conns : Alike(conns[j], conns'[j])
  BY <1>3 DEF Inv, ConnsShape, ConnShape, Alike
<1>6. ConnsShape(conns')
  BY <1>5, StillConns DEF Inv, Alike
<1> QED
  BY <1>3, <1>4, <1>5, <1>6, SameStreams

\* A page that has no stream any more.
LEMMA Abandoning ==
  ASSUME Inv, UNCHANGED hub, NEW t \in Tabs, conns' = abandoned(t), PageShape(page'),
         page'[t].conn = Cold, \A u \in Tabs \ {t} : page'[u].conn = page[u].conn
  PROVE  Inv'
<1> DEFINE k == page[t].conn
<1>1. /\ DOMAIN conns' = DOMAIN conns
      /\ conns' = [j \in DOMAIN conns |-> conns'[j]]
      /\ \A j \in DOMAIN conns : Alike(conns[j], conns'[j])
  <2>1. conns = [j \in DOMAIN conns |-> conns[j]] /\ \A j \in DOMAIN conns : ConnShape(conns[j])
    BY DEF Inv, ConnsShape
  <2>2. CASE k = Cold
    BY <2>1, <2>2 DEF abandoned, Alike
  <2>3. CASE k # Cold
    <3>1. k \in DOMAIN conns
      BY <2>3 DEF Inv, Owned
    <3>2. conns' = [conns EXCEPT ![k].events = << >>]
      BY <2>3 DEF abandoned
    <3> HIDE DEF k
    <3>3. /\ DOMAIN conns' = DOMAIN conns
          /\ conns' = [j \in DOMAIN conns |-> conns'[j]]
          /\ \A j \in DOMAIN conns \ {k} : conns'[j] = conns[j]
          /\ conns'[k] = [conns[k] EXCEPT !.events = << >>]
      BY <2>1, <3>1, <3>2
    <3>4. Alike(conns[k], conns'[k])
      BY <2>1, <3>1, <3>3 DEF Alike, ConnShape
    <3> QED
      BY <2>1, <3>3, <3>4 DEF Alike
  <2> QED
    BY <2>2, <2>3
<1>2. ConnsShape(conns')
  BY <1>1, StillConns DEF Inv, Alike
<1>3. Owned(page', conns) /\ Newest(page', conns) /\ Placed(hub, page', conns)
  <2>1. \A j \in DOMAIN conns : conns[j].tab \in Tabs
    BY DEF Inv, ConnsShape, ConnShape
  <2> QED
    BY <2>1 DEF Inv, Owned, Newest, Placed
<1>4. Owned(page', conns') /\ Newest(page', conns') /\ Placed(hub, page', conns')
  BY <1>1, <1>3, EventsOnly DEF Inv
<1> QED
  BY <1>2, <1>4 DEF Inv

\* The stream of a page has ended.
LEMMA OverStep ==
  ASSUME Inv, NEW t \in Tabs, Over(t)
  PROVE  Inv'
<1>1. PICK lived \in {FALSE, page[t].opened} :
        page' = [page EXCEPT ![t].conn = Cold, ![t].opened = FALSE,
                             ![t].connected = @ /\ lived]
  BY DEF Over
<1>2. /\ PageShape(page') /\ page'[t].conn = Cold
      /\ \A u \in Tabs \ {t} : page'[u].conn = page[u].conn
  BY <1>1 DEF Inv, PageShape
<1>3. UNCHANGED <<hub, conns>>
  BY DEF Over, hubVars
<1>4. Newest(page', conns)
  BY <1>2 DEF Inv, Newest, ConnsShape, ConnShape
<1>5. Owned(page', conns) /\ Placed(hub, page', conns)
  BY <1>2 DEF Inv, Owned, Placed
<1> QED
  BY <1>2, <1>3, <1>4, <1>5 DEF Inv

LEMMA PageStep ==
  ASSUME Inv, NEW t \in Tabs,
         \/ Connect(t) \/ Hear(t) \/ Over(t) \/ Drop(t)
         \/ Refused(t) \/ SignOut(t) \/ SignIn(t) \/ Watch(t)
  PROVE  Inv'
<1>1. CASE Drop(t)
  <2>1. /\ PageShape(page') /\ page'[t].conn = Cold
        /\ \A u \in Tabs \ {t} : page'[u].conn = page[u].conn
    BY <1>1 DEF Drop, Inv, PageShape
  <2> QED
    BY <1>1, <2>1, Abandoning DEF Drop
<1>2. CASE Refused(t) \/ SignOut(t)
  <2>1. page' = end(t) /\ conns' = abandoned(t) /\ UNCHANGED hub
    BY <1>2 DEF Refused, SignOut
  <2>2. /\ PageShape(page') /\ page'[t].conn = Cold
        /\ \A u \in Tabs \ {t} : page'[u].conn = page[u].conn
    BY <2>1 DEF end, Inv, PageShape
  <2> QED
    BY <2>1, <2>2, Abandoning
<1>3. CASE SignIn(t) \/ Watch(t)
  <2>1. PageShape(page') /\ \A u \in Tabs : page'[u].conn = page[u].conn
    <3>1. CASE SignIn(t)
      BY <3>1 DEF SignIn, Inv, PageShape
    <3>2. CASE Watch(t)
      <4>1. PICK watch \in Watches \cup {NoWatch} :
              page' = [page EXCEPT ![t] = [page[t] EXCEPT !.watching = watch, !.view = Nothing]]
        BY <3>2 DEF Watch
      <4> QED
        BY <4>1 DEF Inv, PageShape
    <3> QED
      BY <1>3, <3>1, <3>2
  <2>2. UNCHANGED <<hub, conns>>
    BY <1>3 DEF SignIn, Watch, hubVars
  <2>3. ConnsShape(conns') /\ \A k \in DOMAIN conns : Alike(conns[k], conns'[k])
    BY <2>2 DEF Inv, ConnsShape, Alike
  <2> QED
    BY <2>1, <2>2, <2>3, SameStreams
<1> QED
  BY <1>1, <1>2, <1>3, ConnectStep, HearStep, OverStep

\* One a page gave up on does not come.
LEMMA VanishStep ==
  ASSUME Inv, NEW k \in DOMAIN conns, Vanish(k)
  PROVE  Inv'
<1>1. UNCHANGED <<hub, page>> /\ conns' = [conns EXCEPT ![k].at = "ended"]
  BY DEF Vanish
<1>2. /\ DOMAIN conns' = DOMAIN conns
      /\ conns' = [j \in DOMAIN conns |-> conns'[j]]
      /\ \A j \in DOMAIN conns :
           /\ ConnShape(conns'[j]) /\ conns'[j].tab = conns[j].tab
           /\ conns'[j] = conns[j] \/ conns'[j].at = "ended"
  BY <1>1 DEF Inv, ConnsShape, ConnShape
<1>3. ConnsShape(conns')
  BY <1>2, StillConns DEF Inv
<1>4. Owned(page, conns') /\ Newest(page, conns') /\ Placed(hub, page, conns')
  BY <1>2 DEF Inv, Owned, Newest, Placed, PageShape
<1> QED
  BY <1>1, <1>3, <1>4 DEF Inv

----------------------------------------------------------------------------
(* The theorems.                                                           *)

LEMMA InitInv == Init => Inv
<1> SUFFICES ASSUME Init PROVE Inv
  OBVIOUS
<1>1. HubOK(hub)
  BY NewEngineShape DEF Init, HubInit, HubOK, HubShape, TimerIdle, Unloaded, Cold
<1>2. ConnsShape(conns) /\ DOMAIN conns = {}
  <2>1. 0 \in 0 .. MaxConns
    BY SavedAssumption
  <2>2. conns = << >>
    BY DEF Init, HubInit
  <2> QED
    BY <2>1, <2>2 DEF ConnsShape
<1>3. PageShape(page) /\ \A t \in Tabs : page[t].conn = Cold
  BY DEF Init, PageShape
<1> QED
  BY <1>1, <1>2, <1>3 DEF Inv, Owned, Newest, Placed

LEMMA StepInv == Inv /\ [Next]_vars => Inv'
<1> SUFFICES ASSUME Inv, [Next]_vars PROVE Inv'
  OBVIOUS
<1>1. CASE Serve /\ UNCHANGED <<page, network, budget>>
  BY <1>1, QuestionStep, OpenStep, CloseStep, RequestStep, EngineStep, UnloadStep
  DEF Serve
<1>2. CASE Happen /\ UNCHANGED <<page, network>>
  BY <1>2, EngineStep, UnloadStep DEF Happen
<1>3. CASE \E t \in Tabs : \/ Connect(t) \/ Hear(t) \/ Over(t) \/ Drop(t)
                           \/ Refused(t) \/ SignOut(t) \/ SignIn(t) \/ Watch(t)
  BY <1>3, PageStep
<1>4. CASE (\E r \in DOMAIN posts : Lose(r)) \/ UNCHANGED vars
  BY <1>4 DEF Lose, vars, hubVars, Inv
<1>5. CASE \E k \in DOMAIN conns : Vanish(k)
  BY <1>5, VanishStep
<1> QED
  BY <1>1, <1>2, <1>3, <1>4, <1>5 DEF Next

LEMMA Invariant == Spec => []Inv
<1> QED
  BY InitInv, StepInv, PTL DEF Spec

(***************************************************************************)
(* A stream a page reads is the one its tab has on the loaded engine,      *)
(* unless one it had given up on opened after it, for any number of tabs,  *)
(* with streams that break, are given up before their head came, are       *)
(* replaced and end late, and engines that idle, are dropped and loaded    *)
(* anew (engine-hub.ts:93-105, :222-231; client.ts listen).  What the      *)
(* exception leaves out does happen: see EveryStreamHears.                 *)
(***************************************************************************)
THEOREM StreamsAreHeard == Spec => []ConnectedHears
<1>1. Inv => ConnectedHears
  BY DEF Inv, Placed, ConnectedHears, streaming, placed
<1> QED
  BY <1>1, Invariant, PTL

(***************************************************************************)
(* Once a deletion has unloaded the user's engine none is loaded again,    *)
(* whatever requests and streams were let in before (engine-hub.ts:        *)
(* 152-171).                                                               *)
(***************************************************************************)
THEOREM DeletedStaysUnloaded == Spec => []NoEngineForDeleted
<1>1. Inv => NoEngineForDeleted
  BY DEF Inv, HubOK, Unloaded, NoEngineForDeleted
<1> QED
  BY <1>1, Invariant, PTL

----------------------------------------------------------------------------
(* What a page is to be shown: the invariant of the posts on their way, of *)
(* the events in its stream and of what the engine has.                    *)

AnyWatch == [view: Views \cup {None}, layout: Layouts \cup {None}]
Versions == 0 .. MaxVersion
Event == [topic: {"catalog", "view"}, key: Views \cup {None},
          layout: Layouts \cup {None}, version: Versions]
Post == [tab: Tabs, at: Pending \cup {"answered", "refused"}, watch: AnyWatch, live: BOOLEAN]

HubTyped(h) ==
  /\ h.engine.watches \in [Tabs -> AnyWatch]
  /\ {h.version, h.engine.replica, h.engine.pulled} \subseteq Versions
PageTyped(p) ==
  \A t \in Tabs : /\ p[t].watching \in AnyWatch
                  /\ p[t].opened => p[t].connected
Typed(h, p, cs, ps) ==
  /\ HubTyped(h)
  /\ PageTyped(p)
  /\ \A k \in DOMAIN cs : cs[k].events \in Seq(Event)
  /\ ps \in Seq(Post)

\* The engine owes a sync, one is on its way with the latest data, or it has it.
Fetching(h) ==
  h.current # Cold =>
    \/ h.engine.due
    \/ h.engine.pulling /\ h.engine.pulled = h.version
    \/ ~h.engine.pulling /\ h.engine.replica = h.version

\* A stream that is still to open has no events, is not its engine's and has
\* not been heard.
Unopened(h, p, cs) ==
  /\ \A k \in DOMAIN cs : cs[k].at \in Pending => cs[k].events = << >>
  /\ \A t \in Tabs :
       /\ h.engine.streams[t] # Cold =>
            h.engine.streams[t] \in DOMAIN cs /\ cs[h.engine.streams[t]].at \notin Pending
       /\ p[t].opened => p[t].conn # Cold /\ cs[p[t].conn].at \notin Pending

\* A watch as of a version: view, in EngineHub, of an engine that shows it.
asOf(v, w) == [topic |-> "view", key |-> w.view, layout |-> layoutOf(w, v), version |-> v]

\* No catalog comes after the j-th event.
Latest(E, j) == \A i \in DOMAIN E : i > j => E[i].topic = "view"

\* What comes after the last catalog is of the version the engine shows, and
\* so is the page's catalog once it has heard that.
Fresh(E, v, p) ==
  /\ \A j \in DOMAIN E : Latest(E, j) => E[j].version = v
  /\ Latest(E, 0) => p.catalog = v

\* What the page watches is still to come, or shown.
Comes(E, v, p) ==
  \/ \E j \in DOMAIN E : E[j] = asOf(v, p.watching) /\ Latest(E, j)
  \/ Latest(E, 0) /\ p.view = asOf(v, p.watching)

onTheirWay(ps, t) == {r \in DOMAIN ps : ps[r].tab = t /\ ps[r].at \in Pending}

\* The last request of a tab says what its page watches, and is let in.
Tells(ps, t, w) ==
  \A r \in onTheirWay(ps, t) : (\A q \in onTheirWay(ps, t) : q <= r) =>
    /\ ps[r].watch = w
    /\ ps[r].at # "sent" => ps[r].at = "asserted" /\ ps[r].live

Served(x, ps, t, E, p) ==
  /\ Fresh(E, shown(x), p)
  /\ p.opened /\ p.watching.view # None =>
       /\ Tells(ps, t, p.watching)
       /\ onTheirWay(ps, t) = {} =>
            x.watches[t] = p.watching /\ Comes(E, shown(x), p)

\* The page hears the engine: its stream is open and has not been overtaken.
reads(p, cs, t) ==
  p[t].conn # Cold /\ cs[p[t].conn].at = "open" /\ ~cs[p[t].conn].overtaken
AllServed(h, p, cs, ps) ==
  \A t \in Tabs : reads(p, cs, t) => Served(h.engine, ps, t, cs[p[t].conn].events, p[t])

Shown ==
  /\ Typed(hub, page, conns, posts)
  /\ Fetching(hub)
  /\ Unopened(hub, page, conns)
  /\ network.tidy => AllServed(hub, page, conns, posts)

----------------------------------------------------------------------------
(* What is published.                                                      *)

\* A finite set as a sequence holds each of its elements.
LEMMA AsSequence ==
  ASSUME NEW S, IsFiniteSet(S)
  PROVE  /\ SetToSeq(S) \in Seq(S)
         /\ \A e \in S : \E i \in DOMAIN SetToSeq(S) : SetToSeq(S)[i] = e
<1> DEFINE n == Cardinality(S)
           f == SetToSeq(S)
<1>1. n \in Nat /\ ExistsBijection(1 .. n, S)
  BY FS_CardinalityType
<1>2. \E g \in [1 .. n -> S] : IsInjective(g)
  BY <1>1 DEF ExistsBijection, Bijection, Injection
<1>3. f \in [1 .. n -> S] /\ IsInjective(f)
  BY <1>2 DEF SetToSeq
<1> HIDE DEF f
<1>4. IsFiniteSet(1 .. n) /\ Cardinality(1 .. n) = n
  BY <1>1, FS_Interval
<1>5. f \in Injection(1 .. n, S)
  BY <1>3 DEF Injection
<1>6. f \in Surjection(1 .. n, S)
  BY <1>4, <1>5, FS_Injection
<1>7. \A e \in S : \E i \in 1 .. n : f[i] = e
  BY <1>6 DEF Surjection
<1> QED
  BY <1>1, <1>3, <1>7, SeqDef DEF f

LEMMA LayoutType ==
  ASSUME NEW w \in AnyWatch, NEW v \in Versions
  PROVE  layoutOf(w, v) \in Layouts \cup {None}
BY SavedAssumption DEF AnyWatch, Versions, layoutOf

\* Each of the watches, as of the version shown.
LEMMA ViewsOf ==
  ASSUME NEW x, NEW W, IsFiniteSet(W), W \subseteq AnyWatch, shown(x) \in Versions
  PROVE  /\ views(x, W) \in Seq(Event)
         /\ \A i \in DOMAIN views(x, W) :
              views(x, W)[i].topic = "view" /\ views(x, W)[i].version = shown(x)
         /\ \A w \in W : w.view # None =>
              \E i \in DOMAIN views(x, W) : views(x, W)[i] = asOf(shown(x), w)
<1> DEFINE V == {w \in W : w.view # None}
           S == {view(x, w) : w \in V}
           f == [w \in V |-> view(x, w)]
<1>1. IsFiniteSet(V)
  BY FS_Subset
<1>2. f \in Surjection(V, S)
  BY DEF Surjection
<1>3. IsFiniteSet(S)
  <2> HIDE DEF V, S, f
  <2> QED
    BY <1>1, <1>2, FS_Surjection
<1>4. \A w \in W : view(x, w) = asOf(shown(x), w)
  BY DEF view, asOf
<1>5. S \subseteq Event /\ \A e \in S : e.topic = "view" /\ e.version = shown(x)
  <2> SUFFICES ASSUME NEW w \in V
               PROVE  /\ asOf(shown(x), w) \in Event
                      /\ asOf(shown(x), w).topic = "view"
                      /\ asOf(shown(x), w).version = shown(x)
    BY <1>4
  <2>1. w \in AnyWatch /\ layoutOf(w, shown(x)) \in Layouts \cup {None}
    BY LayoutType
  <2> QED
    BY <2>1 DEF asOf, Event, AnyWatch
<1>6. views(x, W) = SetToSeq(S)
  BY DEF views
<1>7. \A w \in W : w.view # None => asOf(shown(x), w) \in S
  BY <1>4
<1> HIDE DEF S, V
<1>8. /\ SetToSeq(S) \in Seq(S)
      /\ \A e \in S : \E i \in DOMAIN SetToSeq(S) : SetToSeq(S)[i] = e
  BY <1>3, AsSequence
<1>9. \A i \in DOMAIN SetToSeq(S) : SetToSeq(S)[i] \in S
  BY <1>8, ElementOfSeq, LenProperties
<1>10. SetToSeq(S) \in Seq(Event)
  BY <1>5, <1>8, <1>9, LenProperties, SeqDef
<1> QED
  BY <1>5, <1>6, <1>7, <1>8, <1>9, <1>10

\* One of them.
LEMMA OneView ==
  ASSUME NEW x, NEW w \in AnyWatch, shown(x) \in Versions
  PROVE  /\ views(x, {w}) \in Seq(Event)
         /\ \A i \in DOMAIN views(x, {w}) :
              views(x, {w})[i].topic = "view" /\ views(x, {w})[i].version = shown(x)
         /\ w.view # None =>
              \E i \in DOMAIN views(x, {w}) : views(x, {w})[i] = asOf(shown(x), w)
<1> DEFINE W == {w}
<1>1. IsFiniteSet(W) /\ W \subseteq AnyWatch /\ w \in W
  BY FS_Singleton
<1> HIDE DEF W
<1>2. /\ views(x, W) \in Seq(Event)
      /\ \A i \in DOMAIN views(x, W) :
           views(x, W)[i].topic = "view" /\ views(x, W)[i].version = shown(x)
      /\ w.view # None => \E i \in DOMAIN views(x, W) : views(x, W)[i] = asOf(shown(x), w)
  BY <1>1, ViewsOf
<1> QED
  BY <1>2 DEF W

\* The catalog first, and then the views.
LEMMA AllPublished ==
  ASSUME NEW x, x.watches \in [Tabs -> AnyWatch], shown(x) \in Versions
  PROVE  /\ publishAll(x) \in Seq(Event)
         /\ publishAll(x) # << >>
         /\ publishAll(x)[1].topic = "catalog"
         /\ \A i \in DOMAIN publishAll(x) : publishAll(x)[i].version = shown(x)
         /\ Latest(publishAll(x), 1)
         /\ \A t \in Tabs : x.watches[t].view # None =>
              \E i \in DOMAIN publishAll(x) : publishAll(x)[i] = asOf(shown(x), x.watches[t])
<1> DEFINE W == {x.watches[t] : t \in Tabs}
           F == views(x, W)
           c == catalog(x)
           E == publishAll(x)
<1>1. IsFiniteSet(W)
  <2>1. [t \in Tabs |-> x.watches[t]] \in Surjection(Tabs, W)
    BY DEF Surjection
  <2> HIDE DEF W
  <2> QED
    BY <2>1, FS_Surjection, SavedAssumption
<1>2. /\ F \in Seq(Event)
      /\ \A i \in DOMAIN F : F[i].topic = "view" /\ F[i].version = shown(x)
      /\ \A t \in Tabs : x.watches[t].view # None =>
           \E i \in DOMAIN F : F[i] = asOf(shown(x), x.watches[t])
  <2>1. W \subseteq AnyWatch /\ \A t \in Tabs : x.watches[t] \in W
    OBVIOUS
  <2> HIDE DEF W
  <2>2. /\ F \in Seq(Event)
        /\ \A i \in DOMAIN F : F[i].topic = "view" /\ F[i].version = shown(x)
        /\ \A w \in W : w.view # None =>
             \E i \in DOMAIN F : F[i] = asOf(shown(x), w)
    BY <1>1, <2>1, ViewsOf
  <2> QED
    BY <2>1, <2>2
<1>3. c \in Event /\ c.topic = "catalog" /\ c.version = shown(x)
  BY DEF catalog, Event
<1>4. E = <<c>> \o F
  BY DEF publishAll
<1> HIDE DEF F, c, E
<1>5. /\ E \in Seq(Event) /\ Len(E) = Len(F) + 1
      /\ E[1] = c /\ \A i \in 1 .. Len(F) : E[i + 1] = F[i]
  <2>1. <<c>> \in Seq(Event) /\ Len(<<c>>) = 1 /\ <<c>>[1] = c
    BY <1>3
  <2> QED
    BY <1>2, <1>4, <2>1, ConcatProperties
<1>6. /\ DOMAIN E = 1 .. Len(F) + 1 /\ DOMAIN F = 1 .. Len(F) /\ Len(F) \in Nat
  BY <1>2, <1>5, LenProperties
<1>7. \A i \in DOMAIN E : i = 1 \/ (i - 1 \in DOMAIN F /\ E[i] = F[i - 1])
  BY <1>5, <1>6
<1>8. \A i \in DOMAIN F : i + 1 \in DOMAIN E /\ E[i + 1] = F[i]
  BY <1>5, <1>6
<1>9. \A t \in Tabs : x.watches[t].view # None =>
        \E i \in DOMAIN E : E[i] = asOf(shown(x), x.watches[t])
  BY <1>2, <1>8
<1>10. Latest(E, 1)
  BY <1>2, <1>7 DEF Latest
<1> QED
  BY <1>2, <1>3, <1>5, <1>6, <1>7, <1>9, <1>10 DEF E

----------------------------------------------------------------------------
(* Events that are added to a stream, and taken from it.                   *)

LEMMA Joined ==
  ASSUME NEW E \in Seq(Event), NEW F \in Seq(Event)
  PROVE  /\ E \o F \in Seq(Event)
         /\ DOMAIN (E \o F) = 1 .. Len(E) + Len(F)
         /\ DOMAIN E = 1 .. Len(E) /\ DOMAIN F = 1 .. Len(F)
         /\ Len(E) \in Nat /\ Len(F) \in Nat
         /\ \A i \in DOMAIN E : (E \o F)[i] = E[i]
         /\ \A i \in DOMAIN F : (E \o F)[Len(E) + i] = F[i]
         /\ \A i \in DOMAIN (E \o F) :
              i \in DOMAIN E \/ (i - Len(E) \in DOMAIN F /\ (E \o F)[i] = F[i - Len(E)])
<1>1. /\ E \o F \in Seq(Event) /\ Len(E \o F) = Len(E) + Len(F)
      /\ \A i \in 1 .. Len(E) : (E \o F)[i] = E[i]
      /\ \A i \in 1 .. Len(F) : (E \o F)[Len(E) + i] = F[i]
  BY ConcatProperties
<1>2. /\ Len(E) \in Nat /\ Len(F) \in Nat
      /\ DOMAIN E = 1 .. Len(E) /\ DOMAIN F = 1 .. Len(F)
      /\ DOMAIN (E \o F) = 1 .. Len(E) + Len(F)
  BY <1>1, LenProperties
<1> DEFINE G == E \o F
<1> HIDE DEF G
<1>3. \A i \in 1 .. Len(E) + Len(F) :
        i \in 1 .. Len(E) \/ (i - Len(E) \in 1 .. Len(F) /\ i = Len(E) + (i - Len(E)))
  BY <1>2
<1>4. \A i \in DOMAIN G :
        i \in DOMAIN E \/ (i - Len(E) \in DOMAIN F /\ G[i] = F[i - Len(E)])
  BY <1>1, <1>2, <1>3 DEF G
<1> QED
  BY <1>1, <1>2, <1>4 DEF G

\* Views of the version shown, added.
LEMMA Adding ==
  ASSUME NEW E \in Seq(Event), NEW F \in Seq(Event), NEW v, NEW p, Fresh(E, v, p),
         \A i \in DOMAIN F : F[i].topic = "view" /\ F[i].version = v
  PROVE  Fresh(E \o F, v, p) /\ (Comes(E, v, p) => Comes(E \o F, v, p))
<1> DEFINE G == E \o F
<1>1. /\ DOMAIN G = 1 .. Len(E) + Len(F)
      /\ DOMAIN E = 1 .. Len(E) /\ DOMAIN F = 1 .. Len(F)
      /\ Len(E) \in Nat /\ Len(F) \in Nat
      /\ \A i \in DOMAIN E : G[i] = E[i]
      /\ \A i \in DOMAIN G : i \in DOMAIN E \/ (i - Len(E) \in DOMAIN F /\ G[i] = F[i - Len(E)])
  BY Joined
<1> HIDE DEF G
<1>2. DOMAIN E \subseteq DOMAIN G
  BY <1>1
<1>3. \A j : Latest(G, j) <=> Latest(E, j)
  BY <1>1, <1>2 DEF Latest
<1>4. Fresh(G, v, p)
  BY <1>1, <1>3 DEF Fresh
<1>5. Comes(E, v, p) => Comes(G, v, p)
  BY <1>1, <1>2, <1>3 DEF Comes
<1> QED
  BY <1>4, <1>5 DEF G

\* A catalog and what belongs to it, added.
LEMMA AddingAnew ==
  ASSUME NEW E \in Seq(Event), NEW F \in Seq(Event), NEW v, NEW p, F # << >>,
         F[1].topic = "catalog", \A i \in DOMAIN F : F[i].version = v
  PROVE  Fresh(E \o F, v, p)
<1> DEFINE G == E \o F
<1>1. /\ DOMAIN G = 1 .. Len(E) + Len(F)
      /\ DOMAIN E = 1 .. Len(E) /\ DOMAIN F = 1 .. Len(F)
      /\ Len(E) \in Nat /\ Len(F) \in Nat
      /\ \A i \in DOMAIN F : G[Len(E) + i] = F[i]
      /\ \A i \in DOMAIN G : i \in DOMAIN E \/ (i - Len(E) \in DOMAIN F /\ G[i] = F[i - Len(E)])
  BY Joined
<1>2. Len(F) # 0
  BY EmptySeq
<1> HIDE DEF G
<1>3. 1 \in DOMAIN F /\ Len(E) + 1 \in DOMAIN G /\ G[Len(E) + 1].topic = "catalog"
  BY <1>1, <1>2
<1>4. \A j : Latest(G, j) => ~(Len(E) + 1 > j)
  BY <1>3 DEF Latest
<1>5. ~Latest(G, 0)
  BY <1>1, <1>4
<1>6. \A j \in DOMAIN E : ~Latest(G, j)
  BY <1>1, <1>4
<1> QED
  BY <1>1, <1>5, <1>6 DEF Fresh, G

\* What a page watches, added, with no catalog after it.
LEMMA Told ==
  ASSUME NEW E \in Seq(Event), NEW F \in Seq(Event), NEW v, NEW p,
         NEW i \in DOMAIN F, F[i] = asOf(v, p.watching), Latest(F, i)
  PROVE  Comes(E \o F, v, p)
<1> DEFINE G == E \o F
<1>1. /\ DOMAIN G = 1 .. Len(E) + Len(F)
      /\ DOMAIN E = 1 .. Len(E) /\ DOMAIN F = 1 .. Len(F)
      /\ Len(E) \in Nat /\ Len(F) \in Nat
      /\ \A j \in DOMAIN F : G[Len(E) + j] = F[j]
      /\ \A j \in DOMAIN G : j \in DOMAIN E \/ (j - Len(E) \in DOMAIN F /\ G[j] = F[j - Len(E)])
  BY Joined
<1> HIDE DEF G
<1>2. Len(E) + i \in DOMAIN G /\ G[Len(E) + i] = asOf(v, p.watching)
  BY <1>1
<1>3. Latest(G, Len(E) + i)
  <2> SUFFICES ASSUME NEW j \in DOMAIN G, j > Len(E) + i PROVE G[j].topic = "view"
    BY DEF Latest
  <2>1. j - Len(E) \in DOMAIN F /\ G[j] = F[j - Len(E)] /\ j - Len(E) > i
    BY <1>1
  <2> QED
    BY <2>1 DEF Latest
<1> QED
  BY <1>2, <1>3 DEF Comes, G

\* The page takes the next event.
LEMMA Hearing ==
  ASSUME NEW E \in Seq(Event), E # << >>, NEW v, NEW p, NEW h, h = receive(p, Head(E)),
         {"view", "catalog", "watching"} \subseteq DOMAIN p, Fresh(E, v, p)
  PROVE  /\ Tail(E) \in Seq(Event)
         /\ h.watching = p.watching
         /\ Fresh(Tail(E), v, h)
         /\ Comes(E, v, p) => Comes(Tail(E), v, h)
<1> DEFINE T == Tail(E)
           e == Head(E)
<1>1. /\ T \in Seq(Event) /\ Len(T) = Len(E) - 1 /\ Len(E) \in Nat \ {0}
      /\ e = E[1] /\ \A i \in 1 .. Len(T) : T[i] = E[i + 1]
  BY HeadTailProperties, EmptySeq, LenProperties
<1>2. DOMAIN E = 1 .. Len(E) /\ DOMAIN T = 1 .. Len(E) - 1
  BY <1>1, LenProperties
<1>3. e \in Event
  BY <1>1, <1>2, ElementOfSeq
<1> HIDE DEF T, e
<1>4. /\ \A i \in DOMAIN T : i + 1 \in DOMAIN E /\ T[i] = E[i + 1]
      /\ \A i \in DOMAIN E : i = 1 \/ (i - 1 \in DOMAIN T /\ E[i] = T[i - 1])
      /\ 1 \in DOMAIN E
  BY <1>1, <1>2
<1>5. \A j \in Nat : Latest(T, j) <=> Latest(E, j + 1)
  BY <1>2, <1>4 DEF Latest
<1>a. /\ \A j \in DOMAIN T : Latest(T, j) => Latest(E, j + 1)
      /\ Latest(T, 0) => Latest(E, 1)
      /\ \A j \in DOMAIN E \ {1} : Latest(E, j) => Latest(T, j - 1)
      /\ Latest(E, 1) => Latest(T, 0)
  <2>1. \A j \in DOMAIN T : j \in Nat
    BY <1>2
  <2>2. \A j \in DOMAIN E : j - 1 \in Nat /\ (j - 1) + 1 = j
    BY <1>2
  <2>3. 0 \in Nat /\ 0 + 1 = 1
    OBVIOUS
  <2> QED
    BY <1>5, <2>1, <2>2, <2>3
<1>6. \A j \in DOMAIN T : Latest(T, j) => T[j].version = v
  BY <1>4, <1>a DEF Fresh
<1>7. Latest(E, 0) <=> e.topic = "view" /\ Latest(T, 0)
  <2>1. Latest(E, 0) <=> E[1].topic = "view" /\ Latest(E, 1)
    <3>1. \A i \in DOMAIN E : i > 0 /\ (i = 1 \/ i > 1)
      BY <1>2
    <3>2. 1 > 0
      OBVIOUS
    <3>3. \A i \in DOMAIN E : i > 1 => i > 0
      BY <1>2
    <3> QED
      BY <1>4, <3>1, <3>2, <3>3 DEF Latest
  <2> QED
    BY <1>1, <1>a, <2>1
<1>8. Latest(T, 0) => e.version = v
  BY <1>1, <1>4, <1>a DEF Fresh
<1>9. CASE e.topic = "catalog"
  <2>1. h = [p EXCEPT !.catalog = e.version]
    BY <1>9 DEF receive, mine, e
  <2>2. h.watching = p.watching /\ h.catalog = e.version /\ h.view = p.view
    BY <2>1
  <2>3. Fresh(T, v, h)
    BY <1>6, <1>8, <2>2 DEF Fresh
  <2>4. Comes(E, v, p) => Comes(T, v, h)
    <3> SUFFICES ASSUME NEW j \in DOMAIN E, E[j] = asOf(v, p.watching), Latest(E, j)
                 PROVE  Comes(T, v, h)
      BY <1>7, <1>9 DEF Comes
    <3>1. j # 1
      BY <1>1, <1>9 DEF asOf
    <3>2. j - 1 \in DOMAIN T /\ T[j - 1] = asOf(v, h.watching) /\ Latest(T, j - 1)
      BY <1>4, <1>a, <2>2, <3>1
    <3> QED
      BY <3>2 DEF Comes
  <2> QED
    BY <1>1, <2>2, <2>3, <2>4 DEF T
<1>10. CASE e.topic = "view"
  <2>1. /\ ~mine(p, e) => h = p
        /\ mine(p, e) => h = [p EXCEPT !.view = e]
        /\ mine(p, e) <=> e.key = p.watching.view /\ e.layout = layoutOf(p.watching, p.catalog)
    BY <1>10 DEF receive, mine, e
  <2>2. h.watching = p.watching /\ h.catalog = p.catalog
    BY <2>1
  <2>3. Latest(T, 0) => p.catalog = v
    BY <1>7, <1>10 DEF Fresh
  <2>4. Fresh(T, v, h)
    BY <1>6, <2>2, <2>3 DEF Fresh
  <2>5. Latest(T, 0) => (mine(p, e) <=> e = asOf(v, p.watching))
    <3>1. e = [topic |-> "view", key |-> e.key, layout |-> e.layout, version |-> e.version]
      BY <1>3, <1>10 DEF Event
    <3> QED
      BY <1>8, <2>1, <2>3, <3>1 DEF asOf
  <2>6. Comes(E, v, p) => Comes(T, v, h)
    <3>1. CASE Latest(E, 0) /\ p.view = asOf(v, p.watching)
      <4>1. h.view = asOf(v, h.watching)
        BY <1>7, <2>1, <2>2, <2>5, <3>1
      <4> QED
        BY <1>7, <3>1, <4>1 DEF Comes
    <3>2. ASSUME NEW j \in DOMAIN E, E[j] = asOf(v, p.watching), Latest(E, j)
          PROVE  Comes(T, v, h)
      <4>1. CASE j = 1
        <5>1. Latest(T, 0) /\ e = asOf(v, p.watching)
          BY <1>1, <1>a, <3>2, <4>1
        <5>2. h.view = asOf(v, h.watching)
          BY <2>1, <2>2, <2>5, <5>1
        <5> QED
          BY <5>1, <5>2 DEF Comes
      <4>2. CASE j # 1
        <5>1. j - 1 \in DOMAIN T /\ T[j - 1] = asOf(v, h.watching) /\ Latest(T, j - 1)
          BY <1>4, <1>a, <2>2, <3>2, <4>2
        <5> QED
          BY <5>1 DEF Comes
      <4> QED
        BY <4>1, <4>2
    <3> QED
      BY <3>1, <3>2 DEF Comes
  <2> QED
    BY <1>1, <2>2, <2>4, <2>6 DEF T
<1> QED
  BY <1>3, <1>9, <1>10 DEF Event

----------------------------------------------------------------------------
(* The posts.                                                              *)

LEMMA PostChanged ==
  ASSUME NEW ps \in Seq(Post), NEW r \in DOMAIN ps, NEW q \in Post, NEW qs,
         qs = [ps EXCEPT ![r] = q]
  PROVE  /\ qs \in Seq(Post) /\ DOMAIN qs = DOMAIN ps
         /\ qs[r] = q /\ \A s \in DOMAIN ps \ {r} : qs[s] = ps[s]
BY ExceptSeq, LenProperties

\* A request goes on its way, the last of its tab.
LEMMA Asking ==
  ASSUME Shown, NEW t \in Tabs, NEW w \in AnyWatch,
         posts' = Append(posts, posted(t, w))
  PROVE  /\ posts' \in Seq(Post)
         /\ onTheirWay(posts', t) # {} /\ Tells(posts', t, w)
         /\ \A u \in Tabs \ {t} : /\ onTheirWay(posts', u) = onTheirWay(posts, u)
                                  /\ \A r \in onTheirWay(posts, u) : posts'[r] = posts[r]
<1> DEFINE n == Len(posts) + 1
           q == posted(t, w)
<1>1. q \in Post /\ q.tab = t /\ q.at = "sent" /\ q.at \in Pending /\ q.watch = w
  BY DEF posted, Post, Pending
<1> HIDE DEF q
<1>a. posts \in Seq(Post)
  BY DEF Shown, Typed
<1>2. /\ posts' \in Seq(Post) /\ Len(posts') = n /\ Len(posts) \in Nat
      /\ \A r \in 1 .. Len(posts) : posts'[r] = posts[r]
      /\ posts'[n] = q
  BY <1>1, <1>a, AppendProperties, LenProperties DEF q
<1>3. DOMAIN posts' = 1 .. n /\ DOMAIN posts = 1 .. Len(posts)
  BY <1>2, <1>a, LenProperties
<1>4. \A r \in DOMAIN posts' :
        r <= n /\ (r = n \/ (r \in DOMAIN posts /\ posts'[r] = posts[r] /\ r < n))
  BY <1>2, <1>3
<1>5. \A r \in DOMAIN posts : r \in DOMAIN posts' /\ posts'[r] = posts[r]
  BY <1>2, <1>3
<1>6. n \in DOMAIN posts'
  BY <1>2, <1>3
<1> HIDE DEF n
<1>7. n \in onTheirWay(posts', t)
  BY <1>1, <1>2, <1>6 DEF onTheirWay
<1>8. Tells(posts', t, w)
  <2> SUFFICES ASSUME NEW r \in onTheirWay(posts', t), \A s \in onTheirWay(posts', t) : s <= r
               PROVE  posts'[r].watch = w /\ posts'[r].at = "sent"
    BY DEF Tells
  <2>1. r \in DOMAIN posts' /\ n <= r
    BY <1>7 DEF onTheirWay
  <2>2. r = n
    BY <1>2, <1>3, <1>4, <2>1 DEF n
  <2> QED
    BY <1>1, <1>2, <2>2
<1>9. \A u \in Tabs \ {t} : onTheirWay(posts', u) = onTheirWay(posts, u)
  BY <1>1, <1>2, <1>4, <1>5 DEF onTheirWay
<1>10. \A u \in Tabs \ {t} : \A r \in onTheirWay(posts, u) : posts'[r] = posts[r]
  BY <1>5 DEF onTheirWay
<1> QED
  BY <1>2, <1>7, <1>8, <1>9, <1>10

----------------------------------------------------------------------------
(* The readers: the pages whose stream is open.                            *)

LEMMA Reader ==
  ASSUME Inv, Shown, NEW t \in Tabs, reads(page, conns, t)
  PROVE  /\ page[t].conn \in DOMAIN conns /\ conns[page[t].conn].tab = t
         /\ conns[page[t].conn].at = "open"
         /\ hub.current # Cold /\ ~hub.deleted
         /\ hub.engine.streams[t] = page[t].conn
         /\ conns[page[t].conn].events \in Seq(Event)
BY DEF Inv, Owned, Placed, HubOK, Unloaded, Shown, Typed, reads

LEMMA ShownVersion ==
  ASSUME NEW x, x.replica \in Versions
  PROVE  shown(x) \in Versions
BY SavedAssumption DEF shown, Versions

\* Nothing a reader is told about has changed.
LEMMA Unmoved ==
  ASSUME NEW h, NEW cs, NEW p, NEW ps,
         AllServed(hub, page, conns, posts),
         \A t \in Tabs : reads(p, cs, t) =>
           /\ reads(page, conns, t)
           /\ p[t].conn = page[t].conn /\ p[t].opened = page[t].opened
           /\ p[t].watching = page[t].watching
           /\ p[t].catalog = page[t].catalog /\ p[t].view = page[t].view
           /\ cs[page[t].conn].events = conns[page[t].conn].events
           /\ shown(h.engine) = shown(hub.engine)
           /\ h.engine.watches[t] = hub.engine.watches[t]
           /\ onTheirWay(ps, t) = onTheirWay(posts, t)
           /\ \A r \in onTheirWay(posts, t) : ps[r] = posts[r]
  PROVE  AllServed(h, p, cs, ps)
<1> SUFFICES ASSUME NEW t \in Tabs, reads(p, cs, t)
             PROVE  Served(h.engine, ps, t, cs[p[t].conn].events, p[t])
  BY DEF AllServed
<1> DEFINE v == shown(hub.engine)
           E == conns[page[t].conn].events
<1>1. /\ Served(hub.engine, posts, t, E, page[t])
      /\ cs[p[t].conn].events = E /\ shown(h.engine) = v
      /\ h.engine.watches[t] = hub.engine.watches[t]
      /\ onTheirWay(ps, t) = onTheirWay(posts, t)
      /\ \A r \in onTheirWay(posts, t) : ps[r] = posts[r]
      /\ p[t].opened = page[t].opened /\ p[t].watching = page[t].watching
      /\ p[t].catalog = page[t].catalog /\ p[t].view = page[t].view
  BY DEF AllServed
<1> HIDE DEF v, E
<1>2. Fresh(E, v, p[t]) <=> Fresh(E, v, page[t])
  BY <1>1 DEF Fresh
<1>3. Comes(E, v, p[t]) <=> Comes(E, v, page[t])
  BY <1>1 DEF Comes
<1>4. \A w : Tells(ps, t, w) <=> Tells(posts, t, w)
  BY <1>1 DEF Tells
<1> QED
  BY <1>1, <1>2, <1>3, <1>4 DEF Served, v

\* Everything is published: whatever a reader's stream held, it ends with what
\* the engine shows now.
LEMMA Publishing ==
  ASSUME NEW x, NEW y, y.watches \in [Tabs -> AnyWatch], y.replica \in Versions,
         NEW t \in Tabs, x.watches[t] = y.watches[t], NEW ps, NEW E \in Seq(Event), NEW p,
         Served(x, ps, t, E, p)
  PROVE  Served(y, ps, t, E \o publishAll(y), p)
<1> DEFINE F == publishAll(y)
           v == shown(y)
<1>1. v \in Versions
  BY ShownVersion
<1>2. /\ F \in Seq(Event) /\ F # << >> /\ F[1].topic = "catalog"
      /\ \A i \in DOMAIN F : F[i].version = v
      /\ Latest(F, 1)
      /\ y.watches[t].view # None => \E i \in DOMAIN F : F[i] = asOf(v, y.watches[t])
  BY <1>1, AllPublished
<1> HIDE DEF F, v
<1>3. Fresh(E \o F, v, p)
  BY <1>2, AddingAnew
<1>4. ASSUME y.watches[t] = p.watching, p.watching.view # None
      PROVE  Comes(E \o F, v, p)
  <2>1. PICK i \in DOMAIN F : F[i] = asOf(v, p.watching)
    BY <1>2, <1>4
  <2>2. Latest(F, i)
    <3>1. DOMAIN F = 1 .. Len(F) /\ Len(F) \in Nat
      BY <1>2, LenProperties
    <3> QED
      BY <1>2, <3>1 DEF Latest
  <2> QED
    BY <1>2, <2>1, <2>2, Told
<1> QED
  BY <1>3, <1>4 DEF Served, F, v

\* What sending does to the streams.
LEMMA SentEvents ==
  ASSUME NEW cs, ConnsShape(cs), \A k \in DOMAIN cs : cs[k].events \in Seq(Event),
         NEW x, NEW F \in Seq(Event)
  PROVE  \A k \in DOMAIN cs :
           /\ sent(cs, x, F)[k].at = cs[k].at
           /\ sent(cs, x, F)[k].overtaken = cs[k].overtaken
           /\ sent(cs, x, F)[k].events \in Seq(Event)
           /\ (\E t \in Tabs : x.streams[t] = k) =>
                sent(cs, x, F)[k].events = cs[k].events \o F
           /\ ~(\E t \in Tabs : x.streams[t] = k) => sent(cs, x, F)[k] = cs[k]
<1> SUFFICES ASSUME NEW k \in DOMAIN cs
             PROVE  /\ sent(cs, x, F)[k].at = cs[k].at
                    /\ sent(cs, x, F)[k].overtaken = cs[k].overtaken
                    /\ sent(cs, x, F)[k].events \in Seq(Event)
                    /\ (\E t \in Tabs : x.streams[t] = k) =>
                         sent(cs, x, F)[k].events = cs[k].events \o F
                    /\ ~(\E t \in Tabs : x.streams[t] = k) => sent(cs, x, F)[k] = cs[k]
  OBVIOUS
<1>1. ConnShape(cs[k]) /\ cs[k].events \in Seq(Event) /\ cs[k].events \o F \in Seq(Event)
  BY ConcatProperties DEF ConnsShape
<1>2. CASE \E t \in Tabs : x.streams[t] = k
  <2>1. sent(cs, x, F)[k] = [cs[k] EXCEPT !.events = cs[k].events \o F]
    BY <1>2 DEF sent
  <2> QED
    BY <1>1, <1>2, <2>1 DEF ConnShape
<1>3. CASE ~(\E t \in Tabs : x.streams[t] = k)
  BY <1>1, <1>3 DEF sent
<1> QED
  BY <1>2, <1>3

\* The engine sends: no stream of its own is still to open.
LEMMA StillUnopened ==
  ASSUME NEW h, NEW p, NEW cs, ConnsShape(cs), \A k \in DOMAIN cs : cs[k].events \in Seq(Event),
         Unopened(h, p, cs), NEW F \in Seq(Event), NEW x, x.streams = h.engine.streams,
         Owned(p, cs)
  PROVE  Unopened(h, p, sent(cs, x, F))
<1> DEFINE ds == sent(cs, x, F)
<1>1. DOMAIN ds = DOMAIN cs
  BY DEF sent
<1>2. \A k \in DOMAIN cs : /\ ds[k].at = cs[k].at
                           /\ ~(\E t \in Tabs : x.streams[t] = k) => ds[k] = cs[k]
  BY SentEvents
<1> HIDE DEF ds
<1>3. \A k \in DOMAIN cs : cs[k].at \in Pending => ~(\E t \in Tabs : x.streams[t] = k)
  <2>1. \A k \in DOMAIN cs : k # Cold
    BY DEF ConnsShape, Cold
  <2> QED
    BY <2>1 DEF Unopened
<1> QED
  BY <1>1, <1>2, <1>3 DEF Unopened, Owned, ds

----------------------------------------------------------------------------
(* The server's steps.                                                     *)

LEMMA QuestionShows ==
  ASSUME Inv, Shown, UNCHANGED <<page, network>>, NEW k \in DOMAIN conns,
         Arrive(k) \/ Counted(k)
  PROVE  Shown'
<1>1. UNCHANGED <<hub, posts>> /\ DOMAIN conns' = DOMAIN conns
  BY DEF Arrive, Counted
<1>2. \A j \in DOMAIN conns :
        /\ conns'[j].events = conns[j].events
        /\ conns'[j].overtaken = conns[j].overtaken
        /\ conns'[j].at = conns[j].at
             \/ (conns[j].at \in Pending /\ conns'[j].at \in Pending)
  <2>1. ConnShape(conns[k])
    BY DEF Inv, ConnsShape
  <2>2. \A j \in DOMAIN conns \ {k} : conns'[j] = conns[j]
    BY DEF Arrive, Counted
  <2>3. /\ conns'[k].events = conns[k].events /\ conns'[k].overtaken = conns[k].overtaken
        /\ conns[k].at \in Pending /\ conns'[k].at \in Pending
    BY <2>1 DEF Arrive, Counted, ConnShape, Pending
  <2> QED
    BY <2>2, <2>3
<1>3. Typed(hub, page, conns', posts) /\ Fetching(hub)
  BY <1>1, <1>2 DEF Shown, Typed
<1>4. Unopened(hub, page, conns')
  BY <1>1, <1>2 DEF Shown, Unopened, Inv, Owned
<1>5. network.tidy => AllServed(hub, page, conns', posts)
  <2>1. \A t \in Tabs : reads(page, conns', t) =>
          reads(page, conns, t) /\ conns'[page[t].conn].events = conns[page[t].conn].events
    BY <1>2 DEF reads, Inv, Owned, Pending
  <2> QED
    BY <2>1, Unmoved DEF Shown
<1> QED
  BY <1>1, <1>3, <1>4, <1>5 DEF Shown

\* The head is refused.
LEMMA RefusedShows ==
  ASSUME Inv, Shown, UNCHANGED <<hub, page, network, posts>>, NEW k \in DOMAIN conns,
         conns[k].at \in Pending, conns' = [conns EXCEPT ![k].at = "refused"]
  PROVE  Shown'
<1>1. /\ DOMAIN conns' = DOMAIN conns
      /\ \A j \in DOMAIN conns :
           /\ conns'[j].events = conns[j].events
           /\ conns'[j].overtaken = conns[j].overtaken
           /\ conns'[j].at = conns[j].at \/ conns'[j].at = "refused"
  BY DEF Inv, ConnsShape, ConnShape
<1>2. Typed(hub, page, conns', posts)
  BY <1>1 DEF Shown, Typed
<1>3. Unopened(hub, page, conns')
  BY <1>1 DEF Shown, Unopened, Inv, Owned, Pending
<1>4. network.tidy => AllServed(hub, page, conns', posts)
  <2>1. \A t \in Tabs : reads(page, conns', t) =>
          reads(page, conns, t) /\ conns'[page[t].conn].events = conns[page[t].conn].events
    BY <1>1 DEF reads, Inv, Owned
  <2> QED
    BY <2>1, Unmoved DEF Shown
<1> QED
  BY <1>2, <1>3, <1>4 DEF Shown

\* The types of an engine that a page has reached.
LEMMA Reached ==
  ASSUME Inv, Shown, NEW l, l = kept(load(hub))
  PROVE  /\ HubShape(l) /\ l.current # Cold
         /\ l.engine.watches \in [Tabs -> AnyWatch]
         /\ {l.version, l.engine.replica, l.engine.pulled} \subseteq Versions
         /\ Fetching(l)
         /\ \A t \in Tabs : l.engine.streams[t] # Cold =>
              l.engine.streams[t] = hub.engine.streams[t]
         /\ hub.current # Cold =>
              /\ l.engine.watches = hub.engine.watches
              /\ shown(l.engine) = shown(hub.engine)
              /\ l.engine.streams = hub.engine.streams
<1> DEFINE m == load(hub)
<1>1. /\ HubShape(m) /\ m.current # Cold
      /\ hub.current # Cold => m = hub
      /\ hub.current = Cold => m.engine = NewEngine
  BY Load DEF Inv, HubOK
<1>2. /\ HubShape(l) /\ l.current = m.current
      /\ l.engine.streams = m.engine.streams
  BY <1>1, Kept
<1>3. m.version = hub.version
  BY DEF load, Inv, HubOK, HubShape
<1> HIDE DEF m
<1>4. l = [m EXCEPT !.engine.timer = FALSE]
  BY DEF kept, m
<1>5. /\ l.version = m.version /\ l.engine.watches = m.engine.watches
      /\ l.engine.replica = m.engine.replica /\ l.engine.pulled = m.engine.pulled
      /\ l.engine.due = m.engine.due /\ l.engine.pulling = m.engine.pulling
      /\ l.engine.ready = m.engine.ready
  BY <1>1, <1>4 DEF HubShape, EngineShape
<1>6. shown(l.engine) = shown(m.engine)
  BY <1>5 DEF shown
<1>7. CASE hub.current = Cold
  <2>1. m.engine = NewEngine
    BY <1>1, <1>7
  <2>2. /\ NewEngine.watches \in [Tabs -> AnyWatch]
        /\ NewEngine.replica = 0 /\ NewEngine.pulled = 0 /\ NewEngine.due = TRUE
        /\ \A t \in Tabs : NewEngine.streams[t] = Cold
    BY DEF NewEngine, AnyWatch, NoWatch, Cold
  <2>3. 0 \in Versions /\ hub.version \in Versions
    BY SavedAssumption DEF Versions, Shown, Typed, HubTyped
  <2> QED
    BY <1>1, <1>2, <1>3, <1>5, <1>7, <2>1, <2>2, <2>3 DEF Fetching
<1>8. CASE hub.current # Cold
  <2>1. m = hub
    BY <1>1, <1>8
  <2> QED
    BY <1>1, <1>2, <1>5, <1>6, <1>8, <2>1 DEF Fetching, Shown, Typed, HubTyped
<1> QED
  BY <1>7, <1>8

\* A stream takes its tab's place, and everything is published.
LEMMA OpenShows ==
  ASSUME Inv, Inv', Shown, UNCHANGED <<page, network>>, NEW k \in DOMAIN conns, Open(k)
  PROVE  Shown'
<1> DEFINE t == conns[k].tab
           l == kept(load(hub))
           h == opened(l, k, t)
<1>1. /\ t \in Tabs /\ conns[k].at = "asserted" /\ k # Cold
      /\ conns[k].events = << >> /\ UNCHANGED posts /\ conns[k].at \in Pending
      /\ page[t].conn = k => ~page[t].opened
  <2>1. t \in Tabs /\ conns[k].at = "asserted" /\ conns[k].at \in Pending /\ UNCHANGED posts
    BY DEF Inv, ConnsShape, ConnShape, Open, Pending
  <2>2. k # Cold
    BY DEF Inv, ConnsShape, Cold
  <2> QED
    BY <2>1, <2>2 DEF Shown, Unopened
<1>2. CASE UNCHANGED hub /\ conns' = [conns EXCEPT ![k].at = "refused"]
  BY <1>1, <1>2, RefusedShows
<1>3. CASE /\ hub' = h
           /\ conns' = sent(openedOn(conns, k, h.current), h.engine, publishAll(h.engine))
  <2> DEFINE cs == openedOn(conns, k, h.current)
             F == publishAll(h.engine)
  <2>0. conns' = sent(cs, h.engine, F) /\ hub' = h
    BY <1>3
  <2>1. /\ HubShape(l) /\ l.current # Cold
        /\ l.engine.watches \in [Tabs -> AnyWatch]
        /\ {l.version, l.engine.replica, l.engine.pulled} \subseteq Versions
        /\ Fetching(l)
        /\ \A u \in Tabs : l.engine.streams[u] # Cold =>
             l.engine.streams[u] = hub.engine.streams[u]
        /\ hub.current # Cold => l.engine.watches = hub.engine.watches
    BY Reached
  <2> HIDE DEF l
  <2>2. /\ h.engine.watches = l.engine.watches /\ h.engine.replica = l.engine.replica
        /\ h.engine.pulled = l.engine.pulled /\ h.version = l.version
        /\ h.current = l.current /\ h.engine.due = l.engine.due
        /\ h.engine.pulling = l.engine.pulling
        /\ h.engine.streams = [l.engine.streams EXCEPT ![t] = k]
        /\ DOMAIN l.engine.streams = Tabs
    BY <2>1 DEF opened, HubShape, EngineShape
  <2>3. HubTyped(h) /\ Fetching(h)
    BY <2>1, <2>2 DEF HubTyped, Fetching
  <2>4. /\ ConnsShape(cs) /\ DOMAIN cs = DOMAIN conns
        /\ cs[k].at = "open" /\ cs[k].events = << >> /\ cs[k].tab = conns[k].tab
        /\ \A j \in DOMAIN conns \ {k} :
             /\ cs[j].tab = conns[j].tab /\ cs[j].at = conns[j].at
             /\ cs[j].events = conns[j].events
             /\ conns[j].overtaken => cs[j].overtaken
    BY <1>1, OpenedOn DEF Inv
  <2> HIDE DEF cs, h, F
  <2>5. \A j \in DOMAIN cs : cs[j].events \in Seq(Event)
    <3>1. << >> \in Seq(Event)
      OBVIOUS
    <3> QED
      BY <2>4, <3>1 DEF Shown, Typed
  <2>6. /\ F \in Seq(Event) /\ F # << >> /\ F[1].topic = "catalog"
        /\ \A i \in DOMAIN F : F[i].version = shown(h.engine)
    BY <2>3, ShownVersion, AllPublished DEF HubTyped, F
  <2>7. DOMAIN conns' = DOMAIN cs
    BY <2>0 DEF sent
  <2>8. \A j \in DOMAIN cs :
          /\ conns'[j].at = cs[j].at /\ conns'[j].overtaken = cs[j].overtaken
          /\ conns'[j].events \in Seq(Event)
          /\ (\E u \in Tabs : h.engine.streams[u] = j) =>
               conns'[j].events = cs[j].events \o F
    BY <2>0, <2>4, <2>5, <2>6, SentEvents
  <2>9. Typed(hub', page, conns', posts)
    BY <2>0, <2>3, <2>7, <2>8 DEF Shown, Typed
  <2>10. Unopened(hub', page, conns')
    <3>1. Unopened(h, page, cs)
      <4>1. \A u \in Tabs : h.engine.streams[u] # Cold =>
              u = t \/ h.engine.streams[u] = hub.engine.streams[u]
        BY <2>1, <2>2
      <4>2. h.engine.streams[t] = k
        BY <1>1, <2>2
      <4>3. \A j \in DOMAIN cs : cs[j].at \in Pending =>
              conns[j].at \in Pending /\ cs[j].events = conns[j].events
        BY <2>4 DEF Pending
      <4>4. \A j \in DOMAIN cs : cs[j].at \in Pending => cs[j].events = << >>
        BY <2>4, <4>3 DEF Shown, Unopened
      <4>5. \A u \in Tabs : h.engine.streams[u] # Cold =>
              h.engine.streams[u] \in DOMAIN cs /\ cs[h.engine.streams[u]].at \notin Pending
        <5>1. \A u \in Tabs : hub.engine.streams[u] # Cold =>
                hub.engine.streams[u] \in DOMAIN conns
                /\ conns[hub.engine.streams[u]].at \notin Pending
          BY DEF Shown, Unopened
        <5>2. k \in DOMAIN cs /\ cs[k].at \notin Pending
          BY <2>4 DEF Pending
        <5> QED
          BY <2>4, <4>1, <4>2, <4>3, <5>1, <5>2
      <4>6. \A u \in Tabs : page[u].opened =>
              page[u].conn # Cold /\ cs[page[u].conn].at \notin Pending
        BY <2>4, <4>3 DEF Shown, Unopened, Inv, Owned
      <4> QED
        BY <4>4, <4>5, <4>6 DEF Unopened
    <3>2. Owned(page, cs)
      BY <2>4 DEF Inv, Owned
    <3>3. Unopened(h, page, sent(cs, h.engine, F))
      BY <2>4, <2>5, <2>6, <3>1, <3>2, StillUnopened
    <3> QED
      BY <2>0, <3>3
  <2>11. ASSUME network.tidy PROVE AllServed(hub', page, conns', posts)
    <3> SUFFICES ASSUME NEW u \in Tabs, reads(page, conns', u)
                 PROVE  Served(h.engine, posts, u, conns'[page[u].conn].events, page[u])
      BY <2>0 DEF AllServed
    <3> DEFINE c == page[u].conn
    <3>1. c \in DOMAIN conns /\ h.engine.streams[u] = c
      BY <2>0 DEF reads, Inv, Owned, Placed
    <3>2. conns'[c].events = cs[c].events \o F
      BY <2>4, <2>8, <3>1
    <3>3. CASE c = k
      <4>1. u = t
        BY <1>1, <3>3 DEF Inv, Owned
      <4>2. cs[c].events \in Seq(Event)
        BY <2>4, <2>5, <3>1
      <4>3. Fresh(conns'[c].events, shown(h.engine), page[u])
        BY <2>6, <3>2, <4>2, AddingAnew
      <4>4. page[t].conn = k
        BY <3>3, <4>1
      <4> QED
        BY <1>1, <4>1, <4>3, <4>4 DEF Served
    <3>4. CASE c # k
      <4>1. reads(page, conns, u) /\ cs[c].events = conns[c].events
        BY <2>4, <2>8, <3>1, <3>4 DEF reads
      <4>2. hub.current # Cold /\ conns[c].events \in Seq(Event)
        BY <4>1, Reader
      <4>3. Served(hub.engine, posts, u, conns[c].events, page[u])
        BY <2>11, <4>1 DEF Shown, AllServed
      <4>4. hub.engine.watches[u] = h.engine.watches[u]
        BY <2>1, <2>2, <4>2
      <4> QED
        BY <2>3, <3>2, <4>1, <4>2, <4>3, <4>4, Publishing DEF HubTyped, F
    <3> QED
      BY <3>3, <3>4
  <2> QED
    BY <1>1, <2>0, <2>3, <2>9, <2>10, <2>11 DEF Shown
<1> QED
  BY <1>2, <1>3 DEF Open

\* An old stream of a tab that has a newer one takes nothing away.
LEMMA CloseShows ==
  ASSUME Inv, Inv', Shown, UNCHANGED <<page, network>>, NEW k \in DOMAIN conns, Close(k)
  PROVE  Shown'
<1> DEFINE t == conns[k].tab
<1>1. /\ t \in Tabs /\ UNCHANGED posts /\ DOMAIN conns' = DOMAIN conns
      /\ conns'[k].at = "ended" /\ conns[k].at = "open" /\ conns'[k].events = conns[k].events
      /\ \A j \in DOMAIN conns \ {k} : conns'[j] = conns[j]
  BY DEF Close, Inv, ConnsShape, ConnShape
<1>2. /\ HubShape(hub')
      /\ hub'.version = hub.version /\ hub'.current = hub.current
      /\ hub'.engine.replica = hub.engine.replica /\ hub'.engine.pulled = hub.engine.pulled
      /\ hub'.engine.due = hub.engine.due /\ hub'.engine.pulling = hub.engine.pulling
      /\ hub'.engine.ready = hub.engine.ready
      /\ \/ UNCHANGED hub
         \/ /\ hub.engine.streams[t] = k
            /\ hub'.engine.streams = [hub.engine.streams EXCEPT ![t] = Cold]
            /\ hub'.engine.watches = [hub.engine.watches EXCEPT ![t] = NoWatch]
  BY DEF Close, closed, without, idle, Inv, HubOK, HubShape, EngineShape
<1>3. NoWatch \in AnyWatch
  BY DEF NoWatch, AnyWatch
<1>4. HubTyped(hub') /\ Fetching(hub')
  BY <1>2, <1>3 DEF Shown, Typed, HubTyped, Fetching
<1>5. Typed(hub', page, conns', posts)
  BY <1>1, <1>4 DEF Shown, Typed
<1>6. Unopened(hub', page, conns')
  <2>1. \A j \in DOMAIN conns : conns'[j].at \in Pending => conns'[j] = conns[j]
    BY <1>1 DEF Pending
  <2>2. \A j \in DOMAIN conns : conns[j].at \notin Pending => conns'[j].at \notin Pending
    BY <1>1 DEF Pending
  <2>3. \A u \in Tabs : hub'.engine.streams[u] # Cold =>
          hub'.engine.streams[u] = hub.engine.streams[u]
    BY <1>2 DEF Inv, HubOK, HubShape, EngineShape
  <2> QED
    BY <1>1, <2>1, <2>2, <2>3 DEF Shown, Unopened, Inv, Owned
<1>7. network.tidy => AllServed(hub', page, conns', posts)
  <2>1. ASSUME NEW u \in Tabs, reads(page, conns', u)
        PROVE  /\ reads(page, conns, u)
               /\ conns'[page[u].conn].events = conns[page[u].conn].events
               /\ hub'.engine.watches[u] = hub.engine.watches[u]
    <3>1. /\ page[u].conn \in DOMAIN conns /\ page[u].conn # k
          /\ conns'[page[u].conn] = conns[page[u].conn]
      BY <1>1, <2>1 DEF reads, Inv, Owned
    <3>2. reads(page, conns, u)
      BY <2>1, <3>1 DEF reads
    <3>3. hub.engine.streams[u] = page[u].conn
      BY <3>2, Reader
    <3>4. hub'.engine.watches[u] = hub.engine.watches[u]
      BY <1>2, <3>1, <3>3 DEF Inv, HubOK, HubShape, EngineShape, Shown, Typed, HubTyped
    <3> QED
      BY <3>1, <3>2, <3>4
  <2>2. shown(hub'.engine) = shown(hub.engine)
    BY <1>2 DEF shown
  <2> QED
    BY <2>1, <2>2, Unmoved DEF Shown
<1> QED
  BY <1>1, <1>4, <1>5, <1>6, <1>7 DEF Shown

\* A request goes on: what it says stays, and a reader's is let in without a
\* question.
LEMMA PostMoves ==
  ASSUME Inv, Shown, UNCHANGED <<hub, conns, page, network>>, NEW r \in DOMAIN posts,
         Take(r) \/ CountedFor(r)
  PROVE  Shown'
<1>1. PICK q \in Post :
        /\ posts' = [posts EXCEPT ![r] = q]
        /\ q.tab = posts[r].tab /\ q.watch = posts[r].watch
        /\ q.at \in Pending /\ posts[r].at \in Pending
        /\ \/ posts[r].at = "asking"
           \/ hub.current # Cold => q.at = "asserted" /\ q.live
  <2>1. posts[r] \in Post
    BY ElementOfSeq, LenProperties DEF Shown, Typed
  <2>2. CASE Take(r)
    <3> DEFINE q == [posts[r] EXCEPT !.at = IF hub.current = Cold THEN "asking" ELSE "asserted",
                                     !.live = hub.current # Cold]
    <3>1. posts' = [posts EXCEPT ![r] = q]
      BY <2>1, <2>2 DEF Take, Post
    <3>2. /\ q \in Post /\ q.tab = posts[r].tab /\ q.watch = posts[r].watch
          /\ q.at \in Pending /\ posts[r].at \in Pending
          /\ hub.current # Cold => q.at = "asserted" /\ q.live
      BY <2>1, <2>2 DEF Take, Post, Pending
    <3> QED
      BY <3>1, <3>2
  <2>3. CASE CountedFor(r)
    <3> DEFINE q == [posts[r] EXCEPT !.at = "asserted", !.live = hub.alive]
    <3>1. posts' = [posts EXCEPT ![r] = q]
      BY <2>1, <2>3 DEF CountedFor, Post
    <3>2. /\ q \in Post /\ q.tab = posts[r].tab /\ q.watch = posts[r].watch
          /\ q.at \in Pending /\ posts[r].at \in Pending /\ posts[r].at = "asking"
      BY <2>1, <2>3 DEF CountedFor, Post, Pending
    <3> QED
      BY <3>1, <3>2
  <2> QED
    BY <2>2, <2>3
<1>2. /\ posts' \in Seq(Post) /\ DOMAIN posts' = DOMAIN posts
      /\ posts'[r] = q /\ \A s \in DOMAIN posts \ {r} : posts'[s] = posts[s]
  BY <1>1, PostChanged DEF Shown, Typed
<1>3. \A t : onTheirWay(posts', t) = onTheirWay(posts, t)
  BY <1>1, <1>2 DEF onTheirWay
<1>4. ASSUME network.tidy PROVE AllServed(hub, page, conns, posts')
  <2> SUFFICES ASSUME NEW t \in Tabs, reads(page, conns, t)
               PROVE  Served(hub.engine, posts', t, conns[page[t].conn].events, page[t])
    BY DEF AllServed
  <2>1. Served(hub.engine, posts, t, conns[page[t].conn].events, page[t])
    BY <1>4 DEF Shown, AllServed
  <2>2. hub.current # Cold
    BY Reader
  <2>3. ASSUME NEW w, Tells(posts, t, w) PROVE Tells(posts', t, w)
    <3> SUFFICES ASSUME NEW s \in onTheirWay(posts, t),
                        \A p \in onTheirWay(posts, t) : p <= s
                 PROVE  /\ posts'[s].watch = w
                        /\ posts'[s].at # "sent" => posts'[s].at = "asserted" /\ posts'[s].live
      BY <1>3 DEF Tells
    <3>1. /\ posts[s].watch = w /\ s \in DOMAIN posts
          /\ posts[s].at # "sent" => posts[s].at = "asserted" /\ posts[s].live
      BY <2>3 DEF Tells, onTheirWay
    <3>2. CASE s = r
      BY <1>1, <1>2, <2>2, <3>1, <3>2
    <3>3. CASE s # r
      BY <1>2, <3>1, <3>3
    <3> QED
      BY <3>2, <3>3
  <2> QED
    BY <1>3, <2>1, <2>3 DEF Served
<1> QED
  BY <1>2, <1>4 DEF Shown, Typed

\* A request answered, the first of its tab: it was the last as well, or the
\* last is still to come.
LEMMA InTurn ==
  ASSUME Shown, network.tidy, NEW r \in DOMAIN posts, inTurn(posts, r), posts[r].at \in Pending,
         NEW ps, DOMAIN ps = DOMAIN posts, ps[r].at \notin Pending,
         \A s \in DOMAIN posts \ {r} : ps[s] = posts[s], NEW w,
         Tells(posts, posts[r].tab, w)
  PROVE  LET t == posts[r].tab
         IN  /\ onTheirWay(ps, t) = onTheirWay(posts, t) \ {r}
             /\ Tells(ps, t, w)
             /\ onTheirWay(ps, t) = {} =>
                  posts[r].watch = w /\ (posts[r].at = "asserted" => posts[r].live)
<1> DEFINE t == posts[r].tab
<1>1. onTheirWay(ps, t) = onTheirWay(posts, t) \ {r} /\ r \in onTheirWay(posts, t)
  BY DEF onTheirWay
<1>2. \A q \in onTheirWay(posts, t) : r <= q
  <2>1. DOMAIN posts = 1 .. Len(posts) /\ Len(posts) \in Nat
    BY LenProperties DEF Shown, Typed
  <2>2. \A q \in 1 .. (r - 1) : q \notin onTheirWay(posts, t)
    BY DEF inTurn, under, onTheirWay, Pending
  <2>3. \A q \in onTheirWay(posts, t) : q \in 1 .. Len(posts)
    BY <2>1 DEF onTheirWay
  <2> QED
    BY <2>1, <2>2, <2>3
<1>3. Tells(ps, t, w)
  <2> SUFFICES ASSUME NEW s \in onTheirWay(ps, t), \A q \in onTheirWay(ps, t) : q <= s
               PROVE  /\ ps[s].watch = w
                      /\ ps[s].at # "sent" => ps[s].at = "asserted" /\ ps[s].live
    BY DEF Tells
  <2>1. s \in onTheirWay(posts, t) /\ s # r /\ s \in DOMAIN posts
    BY <1>1 DEF onTheirWay
  <2>2. \A q \in onTheirWay(posts, t) : q <= s
    BY <1>1, <1>2, <2>1
  <2> QED
    BY <2>1, <2>2 DEF Tells
<1>4. ASSUME onTheirWay(ps, t) = {}
      PROVE  posts[r].watch = w /\ (posts[r].at = "asserted" => posts[r].live)
  <2>1. \A q \in onTheirWay(posts, t) : q = r
    BY <1>1, <1>4
  <2>2. r <= r
    BY <1>1, <1>2
  <2> QED
    BY <1>1, <2>1, <2>2 DEF Tells
<1> QED
  BY <1>1, <1>3, <1>4

\* Who tells the engine nothing is not told anything else either.
LEMMA OtherTab ==
  ASSUME NEW r \in DOMAIN posts, NEW ps, DOMAIN ps = DOMAIN posts, NEW t, t # posts[r].tab,
         ps[r].tab = posts[r].tab, \A s \in DOMAIN posts \ {r} : ps[s] = posts[s]
  PROVE  /\ onTheirWay(ps, t) = onTheirWay(posts, t)
         /\ \A s \in onTheirWay(posts, t) : ps[s] = posts[s]
BY DEF onTheirWay

LEMMA PostRefused ==
  ASSUME Inv, Shown, UNCHANGED <<hub, conns, page, network>>, NEW r \in DOMAIN posts,
         inTurn(posts, r), posts[r].at = "asserted", ~posts[r].live \/ refuseDeleted(hub),
         posts' = [posts EXCEPT ![r].at = "refused"]
  PROVE  Shown'
<1>1. posts \in Seq(Post) /\ posts[r] \in Post
  BY ElementOfSeq, LenProperties DEF Shown, Typed
<1>2. PICK q \in Post : /\ posts' = [posts EXCEPT ![r] = q]
                        /\ q.tab = posts[r].tab /\ q.at = "refused"
  <2> DEFINE q == [posts[r] EXCEPT !.at = "refused"]
  <2>1. q \in Post /\ q.tab = posts[r].tab /\ q.at = "refused"
    BY <1>1 DEF Post
  <2>2. posts' = [posts EXCEPT ![r] = q]
    BY <1>1 DEF Post
  <2> QED
    BY <2>1, <2>2
<1>3. /\ posts' \in Seq(Post) /\ DOMAIN posts' = DOMAIN posts
      /\ posts'[r] = q /\ \A s \in DOMAIN posts \ {r} : posts'[s] = posts[s]
  <2> DEFINE qs == posts'
  <2>1. qs = [posts EXCEPT ![r] = q]
    BY <1>2
  <2> HIDE DEF qs
  <2>2. /\ qs \in Seq(Post) /\ DOMAIN qs = DOMAIN posts
        /\ qs[r] = q /\ \A s \in DOMAIN posts \ {r} : qs[s] = posts[s]
    BY <1>1, <2>1, PostChanged
  <2> QED
    BY <2>2 DEF qs
<1>4. posts'[r].at \notin Pending /\ posts'[r].tab = posts[r].tab /\ posts[r].at \in Pending
  BY <1>2, <1>3 DEF Pending
<1>5. ASSUME network.tidy PROVE AllServed(hub, page, conns, posts')
  <2> SUFFICES ASSUME NEW t \in Tabs, reads(page, conns, t)
               PROVE  Served(hub.engine, posts', t, conns[page[t].conn].events, page[t])
    BY DEF AllServed
  <2>1. Served(hub.engine, posts, t, conns[page[t].conn].events, page[t])
    BY <1>5 DEF Shown, AllServed
  <2>2. CASE t # posts[r].tab
    <3>1. /\ onTheirWay(posts', t) = onTheirWay(posts, t)
          /\ \A s \in onTheirWay(posts, t) : posts'[s] = posts[s]
      BY <1>3, <1>4, <2>2 DEF onTheirWay
    <3> QED
      BY <2>1, <3>1 DEF Served, Tells
  <2>3. CASE t = posts[r].tab
    <3>1. ~hub.deleted
      BY Reader
    <3>2. ASSUME Tells(posts, t, page[t].watching)
          PROVE  Tells(posts', t, page[t].watching) /\ onTheirWay(posts', t) # {}
      <4>1. /\ Tells(posts', t, page[t].watching)
            /\ onTheirWay(posts', t) = {} => posts[r].live
        BY <1>3, <1>4, <1>5, <2>3, <3>2, InTurn
      <4> QED
        BY <3>1, <4>1 DEF refuseDeleted
    <3> QED
      BY <2>1, <3>2 DEF Served
  <2> QED
    BY <2>2, <2>3
<1> QED
  BY <1>3, <1>5 DEF Shown, Typed

\* The engine takes the watch and publishes the view.
LEMMA DispatchShows ==
  ASSUME Inv, Inv', Shown, UNCHANGED <<page, network>>, NEW r \in DOMAIN posts,
         inTurn(posts, r), Dispatch(r)
  PROVE  Shown'
<1> DEFINE tab == posts[r].tab
           watch == posts[r].watch
           l == kept(load(hub))
           h == watching(l, tab, watch)
           F == views(h.engine, {watch})
<1>1. posts[r] \in Post /\ posts[r].at = "asserted"
  BY ElementOfSeq, LenProperties DEF Shown, Typed, Dispatch
<1>2. tab \in Tabs /\ watch \in AnyWatch
  BY <1>1 DEF Post
<1>3. CASE /\ ~posts[r].live \/ refuseDeleted(hub)
           /\ posts' = [posts EXCEPT ![r].at = "refused"]
           /\ UNCHANGED <<hub, conns>>
  BY <1>1, <1>3, PostRefused
<1>4. CASE /\ posts' = [posts EXCEPT ![r] = answered(@.tab)]
           /\ hub' = idle(h)
           /\ conns' = sent(conns, h.engine, views(h.engine, {watch}))
  <2>1. /\ HubShape(l) /\ l.current # Cold
        /\ l.engine.watches \in [Tabs -> AnyWatch]
        /\ {l.version, l.engine.replica, l.engine.pulled} \subseteq Versions
        /\ Fetching(l)
        /\ \A u \in Tabs : l.engine.streams[u] # Cold =>
             l.engine.streams[u] = hub.engine.streams[u]
        /\ hub.current # Cold =>
             /\ l.engine.watches = hub.engine.watches
             /\ shown(l.engine) = shown(hub.engine)
             /\ l.engine.streams = hub.engine.streams
    BY Reached
  <2>2. hub' = idle(h) /\ conns' = sent(conns, h.engine, F)
    BY <1>4
  <2> HIDE DEF l
  <2>3. /\ HubShape(h)
        /\ h.engine.watches = [l.engine.watches EXCEPT ![tab] = watch]
        /\ h.engine.replica = l.engine.replica /\ h.engine.ready = l.engine.ready
        /\ h.engine.pulled = l.engine.pulled /\ h.version = l.version
        /\ h.current = l.current /\ h.engine.due = l.engine.due
        /\ h.engine.pulling = l.engine.pulling /\ h.engine.streams = l.engine.streams
    BY <2>1 DEF watching, HubShape, EngineShape
  <2> HIDE DEF h
  <2>4. /\ hub'.engine.watches = h.engine.watches
        /\ hub'.engine.replica = h.engine.replica /\ hub'.engine.ready = h.engine.ready
        /\ hub'.engine.pulled = h.engine.pulled /\ hub'.version = h.version
        /\ hub'.current = h.current /\ hub'.engine.due = h.engine.due
        /\ hub'.engine.pulling = h.engine.pulling /\ hub'.engine.streams = h.engine.streams
    BY <2>2, <2>3 DEF idle, HubShape, EngineShape
  <2>5. HubTyped(hub') /\ Fetching(hub')
    BY <1>2, <2>1, <2>3, <2>4 DEF HubTyped, Fetching
  <2>6. shown(h.engine) = shown(l.engine) /\ shown(hub'.engine) = shown(h.engine)
          /\ shown(h.engine) \in Versions
    <3>1. shown(h.engine) = shown(l.engine) /\ shown(hub'.engine) = shown(h.engine)
      BY <2>3, <2>4 DEF shown
    <3>2. shown(h.engine) \in Versions
      BY <2>1, <2>3, ShownVersion
    <3> QED
      BY <3>1, <3>2
  <2>7. /\ F \in Seq(Event)
        /\ \A i \in DOMAIN F : F[i].topic = "view" /\ F[i].version = shown(h.engine)
        /\ watch.view # None => \E i \in DOMAIN F : F[i] = asOf(shown(h.engine), watch)
    BY <1>2, <2>6, OneView
  <2> HIDE DEF F
  <2>8. /\ ConnsShape(conns) /\ \A k \in DOMAIN conns : conns[k].events \in Seq(Event)
        /\ DOMAIN conns' = DOMAIN conns
    BY <2>2 DEF Inv, Shown, Typed, sent
  <2>9. \A k \in DOMAIN conns :
          /\ conns'[k].at = conns[k].at /\ conns'[k].overtaken = conns[k].overtaken
          /\ conns'[k].events \in Seq(Event)
          /\ (\E u \in Tabs : h.engine.streams[u] = k) =>
               conns'[k].events = conns[k].events \o F
    BY <2>2, <2>7, <2>8, SentEvents
  <2>10. /\ posts' \in Seq(Post) /\ DOMAIN posts' = DOMAIN posts
         /\ posts'[r].tab = tab /\ posts'[r].at = "answered"
         /\ \A s \in DOMAIN posts \ {r} : posts'[s] = posts[s]
    <3> DEFINE q == answered(tab)
    <3>1. q \in Post /\ q.tab = tab /\ q.at = "answered"
      BY <1>2 DEF answered, Post, NoWatch, AnyWatch
    <3>2. posts' = [posts EXCEPT ![r] = q]
      BY <1>4
    <3> HIDE DEF q
    <3> QED
      BY <3>1, <3>2, PostChanged DEF Shown, Typed
  <2>11. Typed(hub', page, conns', posts')
    BY <2>5, <2>8, <2>9, <2>10 DEF Shown, Typed
  <2>12. Unopened(hub', page, conns')
    <3>1. Unopened(h, page, conns)
      BY <2>1, <2>3 DEF Shown, Unopened
    <3>2. Unopened(h, page, sent(conns, h.engine, F))
      BY <2>7, <2>8, <3>1, StillUnopened DEF Inv
    <3> QED
      BY <2>2, <2>4, <3>2 DEF Unopened
  <2>13. ASSUME network.tidy PROVE AllServed(hub', page, conns', posts')
    <3> SUFFICES ASSUME NEW t \in Tabs, reads(page, conns', t)
                 PROVE  Served(hub'.engine, posts', t, conns'[page[t].conn].events, page[t])
      BY DEF AllServed
    <3> DEFINE c == page[t].conn
               v == shown(h.engine)
               E == conns[c].events
    <3>1. c \in DOMAIN conns /\ reads(page, conns, t)
      BY <2>9 DEF reads, Inv, Owned
    <3>2. /\ hub.current # Cold /\ hub.engine.streams[t] = c /\ E \in Seq(Event)
      BY <3>1, Reader
    <3>3. conns'[c].events = E \o F
      <4>1. h.engine.streams[t] = c
        BY <2>1, <2>3, <3>2
      <4> QED
        BY <2>9, <3>1, <4>1
    <3>4. /\ Served(hub.engine, posts, t, E, page[t]) /\ shown(hub.engine) = v
          /\ shown(hub'.engine) = v
      BY <2>1, <2>6, <2>13, <3>1, <3>2 DEF Shown, AllServed
    <3>5. hub'.engine.watches = [hub.engine.watches EXCEPT ![tab] = watch]
      BY <2>1, <2>3, <2>4, <3>2
    <3> HIDE DEF c, v, E
    <3>6. Fresh(E \o F, v, page[t]) /\ (Comes(E, v, page[t]) => Comes(E \o F, v, page[t]))
      BY <2>7, <3>2, <3>4, Adding DEF Served, v
    <3>7. CASE t # tab
      <4>1. /\ onTheirWay(posts', t) = onTheirWay(posts, t)
            /\ \A s \in onTheirWay(posts, t) : posts'[s] = posts[s]
        BY <2>10, <3>7, OtherTab
      <4>2. hub'.engine.watches[t] = hub.engine.watches[t]
        BY <3>5, <3>7 DEF Shown, Typed, HubTyped
      <4> QED
        BY <3>3, <3>4, <3>6, <4>1, <4>2 DEF Served, Tells, c
    <3>8. CASE t = tab
      <4>1. hub'.engine.watches[t] = watch
        BY <3>5, <3>8 DEF Shown, Typed, HubTyped
      <4>2. ASSUME page[t].opened, page[t].watching.view # None
            PROVE  /\ Tells(posts', t, page[t].watching)
                   /\ onTheirWay(posts', t) = {} =>
                        hub'.engine.watches[t] = page[t].watching /\ Comes(E \o F, v, page[t])
        <5>1. /\ Tells(posts', t, page[t].watching)
              /\ onTheirWay(posts', t) = {} => watch = page[t].watching
          <6>1. Tells(posts, tab, page[t].watching)
            BY <3>4, <3>8, <4>2 DEF Served
          <6>2. posts'[r].at \notin Pending /\ posts[r].at \in Pending
            BY <1>1, <2>10 DEF Pending
          <6>3. /\ Tells(posts', tab, page[t].watching)
                /\ onTheirWay(posts', tab) = {} => watch = page[t].watching
            BY <2>10, <2>13, <6>1, <6>2, InTurn
          <6> QED
            BY <3>8, <6>3
        <5>2. ASSUME watch = page[t].watching PROVE Comes(E \o F, v, page[t])
          <6>1. PICK i \in DOMAIN F : F[i] = asOf(v, page[t].watching)
            BY <2>7, <4>2, <5>2 DEF v
          <6>2. Latest(F, i)
            BY <2>7 DEF Latest
          <6> QED
            BY <2>7, <3>2, <6>1, <6>2, Told
        <5> QED
          BY <4>1, <5>1, <5>2
      <4> QED
        BY <3>3, <3>4, <3>6, <4>2 DEF Served, c
    <3> QED
      BY <3>7, <3>8
  <2> QED
    BY <2>5, <2>11, <2>12, <2>13 DEF Shown
<1> QED
  BY <1>3, <1>4 DEF Dispatch

----------------------------------------------------------------------------
(* The engine's own life.                                                  *)

\* Everything is published to the streams of the engine.
LEMMA PublishedShows ==
  ASSUME Inv, Shown, UNCHANGED <<page, network, posts>>, NEW x, EngineShape(x),
         hub' = [hub EXCEPT !.engine = x], conns' = sent(conns, x, publishAll(x)),
         x.streams = hub.engine.streams, x.watches = hub.engine.watches,
         {x.replica, x.pulled} \subseteq Versions, Fetching(hub')
  PROVE  Shown'
<1> DEFINE F == publishAll(x)
<1>1. hub'.engine = x /\ hub'.version = hub.version
  BY DEF Inv, HubOK, HubShape
<1>2. HubTyped(hub') /\ x.watches \in [Tabs -> AnyWatch] /\ x.replica \in Versions
  BY <1>1 DEF Shown, Typed, HubTyped
<1>3. F \in Seq(Event)
  BY <1>2, ShownVersion, AllPublished
<1>4. conns' = sent(conns, x, F)
  OBVIOUS
<1> HIDE DEF F
<1>5. /\ ConnsShape(conns) /\ \A k \in DOMAIN conns : conns[k].events \in Seq(Event)
      /\ DOMAIN conns' = DOMAIN conns
  BY <1>4 DEF Inv, Shown, Typed, sent
<1>6. \A k \in DOMAIN conns :
        /\ conns'[k].at = conns[k].at /\ conns'[k].overtaken = conns[k].overtaken
        /\ conns'[k].events \in Seq(Event)
        /\ (\E t \in Tabs : x.streams[t] = k) => conns'[k].events = conns[k].events \o F
  <2>1. \A k \in DOMAIN conns :
          /\ sent(conns, x, F)[k].at = conns[k].at
          /\ sent(conns, x, F)[k].overtaken = conns[k].overtaken
          /\ sent(conns, x, F)[k].events \in Seq(Event)
          /\ (\E t \in Tabs : x.streams[t] = k) =>
               sent(conns, x, F)[k].events = conns[k].events \o F
    BY <1>3, <1>5, SentEvents
  <2> QED
    BY <1>4, <2>1
<1>7. Typed(hub', page, conns', posts)
  BY <1>2, <1>5, <1>6 DEF Shown, Typed
<1>8. Unopened(hub', page, conns')
  <2>1. Unopened(hub, page, sent(conns, x, F))
    BY <1>3, <1>5, StillUnopened DEF Inv, Shown
  <2> QED
    BY <1>1, <1>4, <2>1 DEF Unopened
<1>9. ASSUME network.tidy PROVE AllServed(hub', page, conns', posts)
  <2> SUFFICES ASSUME NEW t \in Tabs, reads(page, conns', t)
               PROVE  Served(x, posts, t, conns'[page[t].conn].events, page[t])
    BY <1>1 DEF AllServed
  <2>1. reads(page, conns, t)
    BY <1>6 DEF reads, Inv, Owned
  <2>2. /\ hub.engine.streams[t] = page[t].conn /\ page[t].conn \in DOMAIN conns
        /\ conns[page[t].conn].events \in Seq(Event)
    BY <2>1, Reader
  <2>3. Served(hub.engine, posts, t, conns[page[t].conn].events, page[t])
    BY <1>9, <2>1 DEF Shown, AllServed
  <2>4. conns'[page[t].conn].events = conns[page[t].conn].events \o F
    BY <1>6, <2>2
  <2>5. Served(x, posts, t, conns[page[t].conn].events \o publishAll(x), page[t])
    BY <1>2, <2>2, <2>3, Publishing
  <2> QED
    BY <2>4, <2>5 DEF F
<1> QED
  BY <1>7, <1>8, <1>9 DEF Shown

LEMMA PublishShows ==
  ASSUME Inv, Shown, UNCHANGED <<page, network>>, Start \/ Land
  PROVE  Shown'
<1>1. EngineShape(hub.engine) /\ HubShape(hub) /\ HubTyped(hub) /\ Fetching(hub)
  BY DEF Inv, HubOK, HubShape, Shown, Typed
<1>2. CASE Start
  <2> DEFINE x == [hub.engine EXCEPT !.ready = TRUE]
  <2>1. /\ EngineShape(x) /\ x.streams = hub.engine.streams
        /\ x.watches = hub.engine.watches
        /\ x.replica = hub.engine.replica /\ x.pulled = hub.engine.pulled
        /\ x.due = hub.engine.due /\ x.pulling = hub.engine.pulling
    BY <1>1 DEF EngineShape
  <2>2. /\ hub' = [hub EXCEPT !.engine = x] /\ conns' = sent(conns, x, publishAll(x))
        /\ UNCHANGED posts
    BY <1>2 DEF Start
  <2> HIDE DEF x
  <2>3. Fetching(hub') /\ {x.replica, x.pulled} \subseteq Versions
    BY <1>1, <2>1, <2>2 DEF HubShape, HubTyped, Fetching
  <2> QED
    BY <2>1, <2>2, <2>3, PublishedShows
<1>3. CASE Land
  <2> DEFINE x == [hub.engine EXCEPT !.pulling = FALSE, !.pulled = 0,
                                     !.replica = hub.engine.pulled]
  <2>1. /\ EngineShape(x) /\ x.streams = hub.engine.streams
        /\ x.watches = hub.engine.watches
        /\ x.replica = hub.engine.pulled /\ x.pulled = 0
        /\ x.due = hub.engine.due /\ x.pulling = FALSE
    BY <1>1 DEF EngineShape
  <2>2. /\ hub' = [hub EXCEPT !.engine = x] /\ conns' = sent(conns, x, publishAll(x))
        /\ UNCHANGED posts /\ hub.engine.pulling
    BY <1>3 DEF Land
  <2> HIDE DEF x
  <2>3. Fetching(hub')
    BY <1>1, <2>1, <2>2 DEF HubShape, Fetching
  <2>4. {x.replica, x.pulled} \subseteq Versions
    BY <1>1, <2>1, SavedAssumption DEF HubTyped, Versions
  <2> QED
    BY <2>1, <2>2, <2>3, <2>4, PublishedShows
<1> QED
  BY <1>2, <1>3

\* Nothing is published.
LEMMA QuietShows ==
  ASSUME Inv, Shown, UNCHANGED <<page, network>>, Pull \/ Write \/ DeleteUser
  PROVE  Shown'
<1>1. EngineShape(hub.engine) /\ HubShape(hub) /\ HubTyped(hub) /\ Fetching(hub)
  BY DEF Inv, HubOK, HubShape, Shown, Typed
<1>2. /\ HubTyped(hub') /\ Fetching(hub') /\ UNCHANGED <<conns, posts>>
      /\ hub'.engine.streams = hub.engine.streams
      /\ hub'.engine.watches = hub.engine.watches
      /\ hub'.engine.ready = hub.engine.ready /\ hub'.engine.replica = hub.engine.replica
  <2>1. CASE Pull
    BY <1>1, <2>1 DEF Pull, HubShape, EngineShape, HubTyped, Fetching
  <2>2. CASE Write
    <3>1. hub.version + 1 \in Versions
      BY <1>1, <2>2, SavedAssumption DEF Write, HubTyped, Versions
    <3> DEFINE h == [hub EXCEPT !.version = hub.version + 1]
    <3>2. /\ HubShape(h) /\ h.version = hub.version + 1 /\ h.engine = hub.engine
          /\ h.current = hub.current
      BY <1>1 DEF HubShape
    <3>3. hub' = announce(h) /\ UNCHANGED <<conns, posts>>
      BY <1>1, <2>2 DEF Write, HubShape
    <3> HIDE DEF h
    <3>4. CASE h.current = Cold
      BY <1>1, <3>1, <3>2, <3>3, <3>4 DEF announce, HubTyped, Fetching
    <3>5. CASE h.current # Cold
      BY <1>1, <3>1, <3>2, <3>3, <3>5 DEF announce, HubShape, EngineShape, HubTyped, Fetching
    <3> QED
      BY <3>4, <3>5
  <2>3. CASE DeleteUser
    BY <1>1, <2>3 DEF DeleteUser, HubShape, EngineShape, HubTyped, Fetching
  <2> QED
    BY <2>1, <2>2, <2>3
<1>3. Typed(hub', page, conns, posts) /\ Unopened(hub', page, conns)
  BY <1>2 DEF Shown, Typed, Unopened
<1>4. network.tidy => AllServed(hub', page, conns, posts)
  <2>1. shown(hub'.engine) = shown(hub.engine)
    BY <1>2 DEF shown
  <2> QED
    BY <1>2, <2>1, Unmoved DEF Shown
<1> QED
  BY <1>2, <1>3, <1>4 DEF Shown

\* With no engine nobody reads.
LEMMA UnloadShows ==
  ASSUME Inv, Inv', Shown, UNCHANGED <<page, network>>, IdleUnload \/ Unload \/ Restart
  PROVE  Shown'
<1>1. hub'.current = Cold /\ hub'.engine = NewEngine /\ hub'.version = hub.version
  BY DEF IdleUnload, Unload, Restart, dropped, Inv, HubOK, HubShape
<1>2. HubTyped(hub') /\ Fetching(hub')
  <2>1. /\ NewEngine.watches \in [Tabs -> AnyWatch]
        /\ NewEngine.replica = 0 /\ NewEngine.pulled = 0
    BY DEF NewEngine, AnyWatch, NoWatch
  <2>2. 0 \in Versions
    BY SavedAssumption DEF Versions
  <2> QED
    BY <1>1, <2>1, <2>2 DEF Shown, Typed, HubTyped, Fetching
<1>3. /\ DOMAIN conns' = DOMAIN conns
      /\ \A k \in DOMAIN conns :
           /\ conns'[k].events \in Seq(Event)
           /\ conns'[k] = conns[k] \/ conns'[k].at = "ended"
  <2>1. \A k \in DOMAIN conns : ConnShape(conns[k]) /\ conns[k].events \in Seq(Event)
    BY DEF Inv, ConnsShape, Shown, Typed
  <2>2. CASE IdleUnload
    BY <2>1, <2>2 DEF IdleUnload
  <2>3. CASE Unload
    BY <2>1, <2>3 DEF Unload, ConnShape
  <2>4. CASE Restart
    <3>1. << >> \in Seq(Event)
      OBVIOUS
    <3> QED
      BY <2>1, <2>4, <3>1 DEF Restart, ConnShape
  <2> QED
    BY <2>2, <2>3, <2>4
<1>4. posts' \in Seq(Post)
  <2>1. CASE UNCHANGED posts
    BY <2>1 DEF Shown, Typed
  <2>2. CASE posts' = [r \in DOMAIN posts |->
               IF posts[r].at \in {"answered", "refused"} THEN posts[r]
               ELSE answered(posts[r].tab)]
    <3>1. /\ posts \in Seq(Post) /\ DOMAIN posts = 1 .. Len(posts) /\ Len(posts) \in Nat
          /\ \A r \in DOMAIN posts : posts[r] \in Post
      BY ElementOfSeq, LenProperties DEF Shown, Typed
    <3>2. \A t \in Tabs : answered(t) \in Post
      BY DEF answered, Post, NoWatch, AnyWatch
    <3>3. \A r \in DOMAIN posts : answered(posts[r].tab) \in Post
      BY <3>1, <3>2 DEF Post
    <3> HIDE DEF Post
    <3>4. posts' \in [1 .. Len(posts) -> Post]
      BY <2>2, <3>1, <3>3
    <3> QED
      BY <3>1, <3>4, SeqDef
  <2> QED
    BY <2>1, <2>2 DEF IdleUnload, Unload, Restart
<1>5. Typed(hub', page, conns', posts')
  BY <1>2, <1>3, <1>4 DEF Shown, Typed
<1>6. Unopened(hub', page, conns')
  <2>1. \A t \in Tabs : hub'.engine.streams[t] = Cold
    BY <1>1 DEF NewEngine, Cold
  <2>2. "ended" \notin Pending
    BY DEF Pending
  <2> QED
    BY <1>3, <2>1, <2>2 DEF Shown, Unopened, Inv, Owned
<1>7. AllServed(hub', page, conns', posts')
  BY <1>1 DEF Inv, Placed, AllServed, reads
<1> QED
  BY <1>2, <1>5, <1>6, <1>7 DEF Shown

----------------------------------------------------------------------------
(* The pages' steps.                                                       *)

\* The stream that is asked for does not answer yet.
LEMMA ConnectShows ==
  ASSUME Inv, Shown, NEW t \in Tabs, Connect(t)
  PROVE  Shown'
<1>1. PICK n \in Nat :
        /\ DOMAIN conns = 1 .. n /\ DOMAIN conns' = 1 .. n + 1
        /\ \A k \in 1 .. n : conns'[k] = conns[k]
        /\ conns'[n + 1] = asked(t)
        /\ page' = [page EXCEPT ![t].conn = n + 1]
  BY Connecting
<1>2. /\ page[t].conn = Cold /\ UNCHANGED <<hub, posts, network>>
      /\ page'[t].conn = n + 1 /\ page'[t].opened = page[t].opened
      /\ page'[t].watching = page[t].watching /\ page'[t].connected = page[t].connected
      /\ \A u \in Tabs \ {t} : page'[u] = page[u]
  BY <1>1 DEF Connect, Inv, PageShape
<1>3. /\ conns'[n + 1].events = << >> /\ conns'[n + 1].at = "sent"
      /\ \A k \in DOMAIN conns' : k = n + 1 \/ (k \in DOMAIN conns /\ conns'[k] = conns[k])
      /\ DOMAIN conns \subseteq DOMAIN conns' /\ n + 1 \in DOMAIN conns'
      /\ \A k \in DOMAIN conns : conns'[k] = conns[k]
  BY <1>1 DEF asked
<1>4. Typed(hub, page', conns', posts)
  <2>1. PageTyped(page')
    BY <1>2 DEF Shown, Typed, PageTyped
  <2>2. << >> \in Seq(Event)
    OBVIOUS
  <2> QED
    BY <1>3, <2>1, <2>2 DEF Shown, Typed
<1>5. Unopened(hub, page', conns')
  <2>1. ~page'[t].opened
    BY <1>2 DEF Shown, Unopened
  <2> QED
    BY <1>2, <1>3, <2>1 DEF Shown, Unopened, Inv, Owned
<1>6. network.tidy => AllServed(hub, page', conns', posts)
  <2>1. ASSUME NEW u \in Tabs, reads(page', conns', u)
        PROVE  /\ page'[u] = page[u] /\ reads(page, conns, u)
               /\ conns'[page[u].conn].events = conns[page[u].conn].events
    <3>1. u # t
      BY <1>2, <1>3, <2>1 DEF reads
    <3> QED
      BY <1>2, <1>3, <2>1, <3>1 DEF reads, Inv, Owned
  <2> QED
    BY <2>1, Unmoved DEF Shown
<1> QED
  BY <1>2, <1>4, <1>5, <1>6 DEF Shown

\* Who hears the first event says again what it watches.
LEMMA HearShows ==
  ASSUME Inv, Shown, NEW t \in Tabs, Hear(t)
  PROVE  Shown'
<1> DEFINE k == page[t].conn
           E == conns[k].events
           p == page[t]
           h == receive(p, Head(E))
<1>1. /\ k # Cold /\ E # << >> /\ k \in DOMAIN conns /\ conns[k].tab = t
      /\ UNCHANGED <<hub, network>> /\ E \in Seq(Event)
      /\ conns' = [conns EXCEPT ![k].events = Tail(E)]
      /\ page' = [page EXCEPT ![t] = [h EXCEPT !.opened = TRUE, !.connected = TRUE]]
      /\ posts' = IF p.opened THEN posts ELSE resent(t)
  <2>1. k # Cold /\ E # << >> /\ k \in DOMAIN conns /\ conns[k].tab = t /\ E \in Seq(Event)
    BY DEF Hear, Inv, Owned, Shown, Typed
  <2>2. ConnShape(conns[k])
    BY <2>1 DEF Inv, ConnsShape
  <2> QED
    BY <2>1, <2>2 DEF Hear, ConnShape
<1>2. DOMAIN h = DOMAIN p /\ h.watching = p.watching /\ h.conn = p.conn
  BY DEF receive, Inv, PageShape
<1>3. DOMAIN p = {"signedIn", "connected", "opened", "conn", "watching", "catalog", "view"}
  BY DEF Inv, PageShape
<1> HIDE DEF h
<1>4. /\ page'[t].conn = k /\ page'[t].opened /\ page'[t].connected
      /\ page'[t].watching = p.watching /\ page'[t].catalog = h.catalog
      /\ page'[t].view = h.view
      /\ \A u \in Tabs \ {t} : page'[u] = page[u]
  BY <1>1, <1>2, <1>3 DEF Inv, PageShape
<1>5. /\ DOMAIN conns' = DOMAIN conns /\ conns'[k].events = Tail(E)
      /\ \A j \in DOMAIN conns : conns'[j].at = conns[j].at
                                /\ conns'[j].overtaken = conns[j].overtaken
      /\ \A j \in DOMAIN conns \ {k} : conns'[j] = conns[j]
  BY <1>1 DEF Inv, ConnsShape, ConnShape
<1>6. Tail(E) \in Seq(Event)
  BY <1>1, HeadTailProperties
<1>7. p.watching \in AnyWatch
  BY DEF Shown, Typed, PageTyped
<1>8. /\ posts' \in Seq(Post)
      /\ p.opened \/ p.watching.view = None => UNCHANGED posts
      /\ \A u \in Tabs \ {t} : /\ onTheirWay(posts', u) = onTheirWay(posts, u)
                               /\ \A r \in onTheirWay(posts, u) : posts'[r] = posts[r]
      /\ ~p.opened /\ p.watching.view # None =>
           onTheirWay(posts', t) # {} /\ Tells(posts', t, p.watching)
  <2>1. CASE p.opened \/ p.watching.view = None
    <3>1. UNCHANGED posts
      BY <1>1, <2>1 DEF resent
    <3> QED
      BY <2>1, <3>1 DEF Shown, Typed
  <2>2. CASE ~p.opened /\ p.watching.view # None
    <3> DEFINE w == p.watching
    <3>1. posts' = Append(posts, posted(t, w)) /\ w \in AnyWatch
      BY <1>1, <1>7, <2>2 DEF resent
    <3> HIDE DEF w
    <3>2. /\ posts' \in Seq(Post)
          /\ onTheirWay(posts', t) # {} /\ Tells(posts', t, w)
          /\ \A u \in Tabs \ {t} : /\ onTheirWay(posts', u) = onTheirWay(posts, u)
                                   /\ \A r \in onTheirWay(posts, u) : posts'[r] = posts[r]
      BY <3>1, Asking
    <3> QED
      BY <2>2, <3>2 DEF w
  <2> QED
    BY <2>1, <2>2
<1>9. Typed(hub, page', conns', posts')
  <2>1. PageTyped(page')
    BY <1>4 DEF Shown, Typed, PageTyped
  <2> QED
    BY <1>5, <1>6, <1>8, <2>1 DEF Shown, Typed
<1>10. Unopened(hub, page', conns')
  <2>1. conns[k].at \notin Pending
    BY <1>1 DEF Shown, Unopened
  <2>2. \A j \in DOMAIN conns : conns'[j].at \in Pending => conns'[j] = conns[j]
    BY <1>5, <2>1
  <2> QED
    BY <1>1, <1>4, <1>5, <2>1, <2>2 DEF Shown, Unopened, Inv, Owned
<1>11. ASSUME network.tidy PROVE AllServed(hub, page', conns', posts')
  <2> SUFFICES ASSUME NEW u \in Tabs, reads(page', conns', u)
               PROVE  Served(hub.engine, posts', u, conns'[page'[u].conn].events, page'[u])
    BY DEF AllServed
  <2>1. CASE u # t
    <3>1. page'[u] = page[u] /\ page[u].conn \in DOMAIN conns \ {k}
      BY <1>1, <1>4, <2>1 DEF reads, Inv, Owned
    <3>2. reads(page, conns, u) /\ conns'[page[u].conn] = conns[page[u].conn]
      BY <1>5, <3>1 DEF reads
    <3>3. Served(hub.engine, posts, u, conns[page[u].conn].events, page[u])
      BY <1>11, <3>2 DEF Shown, AllServed
    <3>4. /\ onTheirWay(posts', u) = onTheirWay(posts, u)
          /\ \A r \in onTheirWay(posts, u) : posts'[r] = posts[r]
      BY <1>8, <2>1
    <3> QED
      BY <3>1, <3>2, <3>3, <3>4 DEF Served, Tells
  <2>2. CASE u = t
    <3> DEFINE v == shown(hub.engine)
    <3>1. reads(page, conns, t)
      BY <1>1, <1>4, <1>5, <2>2 DEF reads
    <3>2. Served(hub.engine, posts, t, E, p)
      BY <1>11, <3>1 DEF Shown, AllServed
    <3> HIDE DEF E, p, v, k
    <3>3. Fresh(E, v, p)
      BY <3>2 DEF Served, v
    <3>4. {"view", "catalog", "watching"} \subseteq DOMAIN p
      BY <1>3
    <3>5. h = receive(p, Head(E))
      BY DEF h
    <3>6. Fresh(Tail(E), v, h) /\ (Comes(E, v, p) => Comes(Tail(E), v, h))
      BY <1>1, <3>3, <3>4, <3>5, Hearing
    <3>7. Fresh(Tail(E), v, page'[t]) /\ (Comes(E, v, p) => Comes(Tail(E), v, page'[t]))
      BY <1>2, <1>4, <3>6 DEF Fresh, Comes
    <3>8. ASSUME p.watching.view # None
          PROVE  /\ Tells(posts', t, p.watching)
                 /\ onTheirWay(posts', t) = {} =>
                      hub.engine.watches[t] = p.watching /\ Comes(Tail(E), v, page'[t])
      <4>1. CASE p.opened
        <5>1. UNCHANGED posts
          BY <1>8, <4>1
        <5> QED
          BY <3>2, <3>7, <3>8, <4>1, <5>1 DEF Served, v
      <4>2. CASE ~p.opened
        BY <1>8, <3>8, <4>2
      <4> QED
        BY <4>1, <4>2
    <3> QED
      BY <1>1, <1>4, <1>5, <2>2, <3>7, <3>8 DEF Served, v
  <2> QED
    BY <2>1, <2>2
<1> QED
  BY <1>1, <1>9, <1>10, <1>11 DEF Shown

\* A page that reads no stream is owed nothing.
LEMMA LeaveShows ==
  ASSUME Inv, Shown, UNCHANGED <<hub, network>>, NEW t \in Tabs,
         page'[t].conn = Cold, ~page'[t].opened, page'[t].watching = page[t].watching,
         \A u \in Tabs \ {t} : page'[u] = page[u],
         conns' = abandoned(t) \/ UNCHANGED conns,
         posts' \in Seq(Post), \A u : onTheirWay(posts', u) = onTheirWay(posts, u),
         \A r \in DOMAIN posts : posts[r].at \in Pending => posts'[r] = posts[r]
  PROVE  Shown'
<1> DEFINE k == page[t].conn
<1>1. /\ DOMAIN conns' = DOMAIN conns
      /\ \A j \in DOMAIN conns :
           /\ conns'[j].events \in Seq(Event)
           /\ conns'[j].events \in {conns[j].events, << >>}
           /\ conns'[j].at = conns[j].at /\ conns'[j].overtaken = conns[j].overtaken
           /\ j # k => conns'[j] = conns[j]
  <2>1. CASE UNCHANGED conns
    BY <2>1 DEF Shown, Typed
  <2>2. CASE conns' = abandoned(t) /\ k # Cold
    <3>1. k \in DOMAIN conns /\ ConnShape(conns[k])
      BY <2>2 DEF Inv, Owned, ConnsShape
    <3>2. conns' = [conns EXCEPT ![k].events = << >>]
      BY <2>2 DEF abandoned
    <3> HIDE DEF k
    <3>3. conns'[k] = [conns[k] EXCEPT !.events = << >>]
      BY <3>1, <3>2
    <3>4. /\ conns'[k].events = << >> /\ conns'[k].at = conns[k].at
          /\ conns'[k].overtaken = conns[k].overtaken
      BY <3>1, <3>3 DEF ConnShape
    <3>5. DOMAIN conns' = DOMAIN conns /\ \A j \in DOMAIN conns \ {k} : conns'[j] = conns[j]
      BY <3>2
    <3>6. << >> \in Seq(Event)
      OBVIOUS
    <3> QED
      BY <3>4, <3>5, <3>6 DEF Shown, Typed
  <2>3. CASE conns' = abandoned(t) /\ k = Cold
    BY <2>1, <2>3 DEF abandoned
  <2> QED
    BY <2>1, <2>2, <2>3
<1>2. Typed(hub, page', conns', posts')
  <2>1. PageTyped(page')
    BY DEF Shown, Typed, PageTyped
  <2> QED
    BY <1>1, <2>1 DEF Shown, Typed
<1>3. Unopened(hub, page', conns')
  <2>1. \A j \in DOMAIN conns : conns'[j].at \in Pending => conns'[j].events = << >>
    BY <1>1 DEF Shown, Unopened
  <2>2. \A u \in Tabs : page'[u].opened =>
          page'[u].conn # Cold /\ conns'[page'[u].conn].at \notin Pending
    BY <1>1 DEF Shown, Unopened, Inv, Owned
  <2> QED
    BY <1>1, <2>1, <2>2 DEF Shown, Unopened
<1>4. network.tidy => AllServed(hub, page', conns', posts')
  <2>1. ASSUME NEW u \in Tabs, reads(page', conns', u)
        PROVE  /\ page'[u] = page[u] /\ reads(page, conns, u)
               /\ conns'[page[u].conn].events = conns[page[u].conn].events
    <3>1. u # t /\ page'[u] = page[u]
      BY <2>1 DEF reads
    <3>2. page[u].conn \in DOMAIN conns /\ page[u].conn # k
      BY <2>1, <3>1 DEF reads, Inv, Owned
    <3> QED
      BY <1>1, <2>1, <3>1, <3>2 DEF reads
  <2>2. \A u : \A r \in onTheirWay(posts, u) : posts'[r] = posts[r]
    BY DEF onTheirWay
  <2> QED
    BY <2>1, <2>2, Unmoved DEF Shown
<1> QED
  BY <1>2, <1>3, <1>4 DEF Shown

LEMMA GoneShows ==
  ASSUME Inv, Shown, NEW t \in Tabs, Over(t) \/ Drop(t) \/ Refused(t) \/ SignOut(t)
  PROVE  Shown'
<1>1. /\ UNCHANGED <<hub, network>> /\ (conns' = abandoned(t) \/ UNCHANGED conns)
      /\ \/ UNCHANGED posts
         \/ \E r \in DOMAIN posts : /\ posts[r].at = "refused"
                                    /\ posts' = [posts EXCEPT ![r] = answered(t)]
  BY DEF Over, Drop, Refused, SignOut, hubVars
<1>2. /\ page'[t].conn = Cold /\ page'[t].opened = FALSE
      /\ page'[t].watching = page[t].watching
      /\ \A u \in Tabs \ {t} : page'[u] = page[u]
  <2>1. CASE Over(t)
    <3>1. PICK lived \in {FALSE, page[t].opened} :
            page' = [page EXCEPT ![t].conn = Cold, ![t].opened = FALSE,
                                 ![t].connected = @ /\ lived]
      BY <2>1 DEF Over
    <3> QED
      BY <3>1 DEF Inv, PageShape
  <2>2. CASE Drop(t)
    BY <2>2 DEF Drop, Inv, PageShape
  <2>3. CASE page' = end(t)
    BY <2>3 DEF end, Inv, PageShape
  <2> QED
    BY <2>1, <2>2, <2>3 DEF Refused, SignOut
<1>3. /\ posts' \in Seq(Post)
      /\ \A u : onTheirWay(posts', u) = onTheirWay(posts, u)
      /\ \A r \in DOMAIN posts : posts[r].at \in Pending => posts'[r] = posts[r]
  <2>1. CASE UNCHANGED posts
    BY <2>1 DEF Shown, Typed
  <2>2. ASSUME NEW r \in DOMAIN posts, posts[r].at = "refused",
               posts' = [posts EXCEPT ![r] = answered(t)]
        PROVE  /\ posts' \in Seq(Post)
               /\ \A u : onTheirWay(posts', u) = onTheirWay(posts, u)
               /\ \A s \in DOMAIN posts : posts[s].at \in Pending => posts'[s] = posts[s]
    <3> DEFINE q == answered(t)
               qs == posts'
    <3>1. q \in Post /\ q.at = "answered"
      BY DEF answered, Post, NoWatch, AnyWatch
    <3>2. qs = [posts EXCEPT ![r] = q] /\ posts \in Seq(Post)
      BY <2>2 DEF Shown, Typed
    <3> HIDE DEF q, qs
    <3>3. /\ qs \in Seq(Post) /\ DOMAIN qs = DOMAIN posts
          /\ qs[r] = q /\ \A s \in DOMAIN posts \ {r} : qs[s] = posts[s]
      BY <3>1, <3>2, PostChanged
    <3>4. "answered" \notin Pending /\ "refused" \notin Pending
      BY DEF Pending
    <3>5. \A u : onTheirWay(qs, u) = onTheirWay(posts, u)
      BY <2>2, <3>1, <3>3, <3>4 DEF onTheirWay
    <3> QED
      BY <2>2, <3>3, <3>4, <3>5 DEF qs
  <2> QED
    BY <1>1, <2>1, <2>2
<1> QED
  BY <1>1, <1>2, <1>3, LeaveShows

LEMMA SignInShows ==
  ASSUME Inv, Shown, NEW t \in Tabs, SignIn(t)
  PROVE  Shown'
<1>1. /\ UNCHANGED <<hub, conns, posts, network>>
      /\ \A u \in Tabs : /\ page'[u].conn = page[u].conn /\ page'[u].opened = page[u].opened
                         /\ page'[u].connected = page[u].connected
                         /\ page'[u].watching = page[u].watching
                         /\ page'[u].catalog = page[u].catalog
                         /\ page'[u].view = page[u].view
  BY DEF SignIn, hubVars, Inv, PageShape
<1>2. Typed(hub, page', conns, posts)
  BY <1>1 DEF Shown, Typed, PageTyped
<1>3. Unopened(hub, page', conns)
  BY <1>1 DEF Shown, Unopened
<1>4. network.tidy => AllServed(hub, page', conns, posts)
  <2>1. \A u \in Tabs : reads(page', conns, u) => reads(page, conns, u)
    BY <1>1 DEF reads
  <2> QED
    BY <1>1, <2>1, Unmoved DEF Shown
<1> QED
  BY <1>1, <1>2, <1>3, <1>4 DEF Shown

\* What it shows from now on is asked for, if its stream has been heard.
LEMMA WatchShows ==
  ASSUME Inv, Shown, NEW t \in Tabs, Watch(t)
  PROVE  Shown'
<1>1. PICK w \in Watches \cup {NoWatch} :
        /\ page' = [page EXCEPT ![t] = [page[t] EXCEPT !.watching = w, !.view = Nothing]]
        /\ posts' = IF page[t].connected THEN Append(posts, posted(t, w)) ELSE posts
        /\ UNCHANGED <<hub, conns, network>>
  BY DEF Watch
<1>2. w \in AnyWatch
  BY WatchesAssumption DEF AnyWatch, NoWatch
<1>3. /\ page'[t].conn = page[t].conn /\ page'[t].opened = page[t].opened
      /\ page'[t].connected = page[t].connected /\ page'[t].watching = w
      /\ page'[t].catalog = page[t].catalog
      /\ \A u \in Tabs \ {t} : page'[u] = page[u]
  BY <1>1 DEF Inv, PageShape
<1>4. page[t].opened => page[t].connected
  BY DEF Shown, Typed, PageTyped
<1>5. /\ posts' \in Seq(Post)
      /\ page[t].connected => onTheirWay(posts', t) # {} /\ Tells(posts', t, w)
      /\ \A u \in Tabs \ {t} : /\ onTheirWay(posts', u) = onTheirWay(posts, u)
                               /\ \A r \in onTheirWay(posts, u) : posts'[r] = posts[r]
  <2>1. CASE page[t].connected
    <3>1. posts' = Append(posts, posted(t, w))
      BY <1>1, <2>1
    <3> QED
      BY <1>2, <3>1, Asking
  <2>2. CASE ~page[t].connected
    BY <1>1, <2>2 DEF Shown, Typed
  <2> QED
    BY <2>1, <2>2
<1>6. Typed(hub, page', conns, posts')
  <2>1. PageTyped(page')
    BY <1>2, <1>3 DEF Shown, Typed, PageTyped
  <2> QED
    BY <1>5, <2>1 DEF Shown, Typed
<1>7. Unopened(hub, page', conns)
  <2>1. \A u \in Tabs : page'[u].conn = page[u].conn /\ page'[u].opened = page[u].opened
    BY <1>3
  <2> QED
    BY <2>1 DEF Shown, Unopened
<1>8. ASSUME network.tidy PROVE AllServed(hub, page', conns, posts')
  <2> SUFFICES ASSUME NEW u \in Tabs, reads(page', conns, u)
               PROVE  Served(hub.engine, posts', u, conns[page'[u].conn].events, page'[u])
    BY DEF AllServed
  <2>1. reads(page, conns, u) /\ page'[u].conn = page[u].conn
    BY <1>3 DEF reads
  <2>2. Served(hub.engine, posts, u, conns[page[u].conn].events, page[u])
    BY <1>8, <2>1 DEF Shown, AllServed
  <2>3. CASE u # t
    <3>1. /\ page'[u] = page[u] /\ onTheirWay(posts', u) = onTheirWay(posts, u)
          /\ \A r \in onTheirWay(posts, u) : posts'[r] = posts[r]
      BY <1>3, <1>5, <2>3
    <3> QED
      BY <2>2, <3>1 DEF Served, Tells
  <2>4. CASE u = t
    <3>1. Fresh(conns[page'[t].conn].events, shown(hub.engine), page'[t])
      BY <1>3, <2>2, <2>4 DEF Served, Fresh
    <3> QED
      BY <1>3, <1>4, <1>5, <2>4, <3>1 DEF Served
  <2> QED
    BY <2>3, <2>4
<1> QED
  BY <1>1, <1>6, <1>7, <1>8 DEF Shown

\* Where requests may be lost nothing is promised.
LEMMA LoseShows ==
  ASSUME Inv, Shown, NEW r \in DOMAIN posts, Lose(r)
  PROVE  Shown'
<1>1. /\ UNCHANGED <<hub, conns, page, network>> /\ ~network.tidy
      /\ posts' = [posts EXCEPT ![r] = answered(posts[r].tab)]
  BY DEF Lose
<1> DEFINE q == answered(posts[r].tab)
           qs == posts'
<1>2. posts \in Seq(Post) /\ posts[r].tab \in Tabs
  <2>1. posts \in Seq(Post) /\ posts[r] \in Post
    BY ElementOfSeq, LenProperties DEF Shown, Typed
  <2> QED
    BY <2>1 DEF Post
<1>3. q \in Post
  BY <1>2 DEF answered, Post, NoWatch, AnyWatch
<1>4. qs = [posts EXCEPT ![r] = q]
  BY <1>1
<1> HIDE DEF q, qs
<1>5. qs \in Seq(Post)
  BY <1>2, <1>3, <1>4, PostChanged
<1> QED
  BY <1>1, <1>5 DEF qs, Shown, Typed

----------------------------------------------------------------------------

\* A stream that never arrived is nobody's.
LEMMA VanishShows ==
  ASSUME Inv, Shown, NEW k \in DOMAIN conns, Vanish(k)
  PROVE  Shown'
<1>1. /\ UNCHANGED <<hub, posts, page, network>> /\ DOMAIN conns' = DOMAIN conns
      /\ \A j \in DOMAIN conns :
           /\ conns'[j].events = conns[j].events
           /\ conns'[j].overtaken = conns[j].overtaken
           /\ conns'[j].at = conns[j].at \/ conns'[j].at = "ended"
  BY DEF Vanish, Inv, ConnsShape, ConnShape
<1>2. Typed(hub, page, conns', posts)
  BY <1>1 DEF Shown, Typed
<1>3. Unopened(hub, page, conns')
  BY <1>1 DEF Shown, Unopened, Inv, Owned, Pending
<1>4. network.tidy => AllServed(hub, page, conns', posts)
  <2>1. \A t \in Tabs : reads(page, conns', t) =>
          reads(page, conns, t) /\ conns'[page[t].conn].events = conns[page[t].conn].events
    BY <1>1 DEF reads, Inv, Owned
  <2> QED
    BY <2>1, Unmoved DEF Shown
<1> QED
  BY <1>1, <1>2, <1>3, <1>4 DEF Shown

LEMMA InitShown == Init => Shown
<1> SUFFICES ASSUME Init PROVE Shown
  OBVIOUS
<1>1. /\ hub.version = 0 /\ hub.current = Cold /\ hub.engine = NewEngine
      /\ conns = << >> /\ posts = << >>
  BY DEF Init, HubInit
<1>2. /\ NewEngine.watches \in [Tabs -> AnyWatch] /\ NewEngine.replica = 0
      /\ NewEngine.pulled = 0 /\ \A t \in Tabs : NewEngine.streams[t] = Cold
  BY DEF NewEngine, AnyWatch, NoWatch, Cold
<1>3. HubTyped(hub) /\ Fetching(hub)
  BY <1>1, <1>2, SavedAssumption DEF HubTyped, Fetching, Versions
<1>4. \A t \in Tabs : /\ page[t].conn = Cold /\ ~page[t].opened
                      /\ page[t].watching \in AnyWatch
  <2>1. \A t \in Tabs : /\ page[t].conn = Cold /\ ~page[t].opened
                        /\ page[t].watching = network.first[t]
    BY DEF Init
  <2>2. network.first \in [Tabs -> Watches \cup {NoWatch}]
    BY WatchesAssumption DEF Init
  <2>3. Watches \cup {NoWatch} \subseteq AnyWatch
    BY WatchesAssumption DEF AnyWatch, NoWatch
  <2> QED
    BY <2>1, <2>2, <2>3
<1>5. Typed(hub, page, conns, posts)
  <2>1. << >> \in Seq(Post)
    OBVIOUS
  <2> QED
    BY <1>1, <1>3, <1>4, <2>1 DEF Typed, PageTyped
<1>6. Unopened(hub, page, conns) /\ AllServed(hub, page, conns, posts)
  BY <1>1, <1>2, <1>4 DEF Unopened, AllServed, reads
<1> QED
  BY <1>3, <1>5, <1>6 DEF Shown

LEMMA StepShown == Inv /\ Inv' /\ Shown /\ [Next]_vars => Shown'
<1> SUFFICES ASSUME Inv, Inv', Shown, [Next]_vars PROVE Shown'
  OBVIOUS
<1>1. CASE Serve /\ UNCHANGED <<page, network, budget>>
  <2>1. ASSUME NEW k \in DOMAIN conns, Arrive(k) \/ Counted(k) \/ Open(k) \/ Close(k)
        PROVE  Shown'
    BY <1>1, <2>1, QuestionShows, OpenShows, CloseShows
  <2>2. ASSUME NEW r \in DOMAIN posts, inTurn(posts, r), Take(r) \/ CountedFor(r) \/ Dispatch(r)
        PROVE  Shown'
    <3>1. CASE Take(r) \/ CountedFor(r)
      <4>1. UNCHANGED <<hub, conns>>
        BY <3>1 DEF Take, CountedFor
      <4> QED
        BY <1>1, <3>1, <4>1, PostMoves
    <3> QED
      BY <1>1, <2>2, <3>1, DispatchShows
  <2> QED
    BY <1>1, <2>1, <2>2, PublishShows, QuietShows, UnloadShows DEF Serve
<1>2. CASE Happen /\ UNCHANGED <<page, network>>
  BY <1>2, QuietShows, UnloadShows DEF Happen
<1>3. CASE \E t \in Tabs : \/ Connect(t) \/ Hear(t) \/ Over(t) \/ Drop(t)
                           \/ Refused(t) \/ SignOut(t) \/ SignIn(t) \/ Watch(t)
  BY <1>3, ConnectShows, HearShows, GoneShows, SignInShows, WatchShows
<1>4. CASE \E r \in DOMAIN posts : Lose(r)
  BY <1>4, LoseShows
<1>5. CASE UNCHANGED vars
  BY <1>5 DEF vars, hubVars, Shown
<1>6. CASE \E k \in DOMAIN conns : Vanish(k)
  BY <1>6, VanishShows
<1> QED
  BY <1>1, <1>2, <1>3, <1>4, <1>5, <1>6 DEF Next

----------------------------------------------------------------------------
(* Where requests arrive in order no stream is overtaken.                  *)

\* A stream that got further than sent has none of its tab before it still to
\* open.
Orderly(cs) ==
  /\ \A k \in DOMAIN cs : ~cs[k].overtaken
  /\ \A j, k \in DOMAIN cs :
       /\ j < k /\ cs[j].tab = cs[k].tab
       /\ cs[k].at \in {"asking", "asserted", "open"}
       => cs[j].at \notin Pending
Ordered == network.tidy => Orderly(conns)

\* Streams that change how far they are: none gets further than sent out of
\* turn, and one that ended or opened is not asked for again.
LEMMA StillOrderly ==
  ASSUME NEW cs, NEW ds, Orderly(cs), DOMAIN ds = DOMAIN cs,
         \A k \in DOMAIN cs :
           /\ ds[k].tab = cs[k].tab /\ ~ds[k].overtaken
           /\ ds[k].at \in Pending => cs[k].at \in Pending
           /\ ds[k].at \in {"asking", "asserted", "open"} =>
                \/ cs[k].at \in {"asking", "asserted", "open"}
                \/ \A j \in DOMAIN cs :
                     j < k /\ cs[j].tab = cs[k].tab => cs[j].at \notin Pending
  PROVE  Orderly(ds)
BY DEF Orderly

LEMMA StepOrdered == Inv /\ Ordered /\ [Next]_vars => Ordered'
<1> SUFFICES ASSUME Inv, Orderly(conns), network.tidy, [Next]_vars, UNCHANGED network
             PROVE  Orderly(conns')
  <2>1. [Next]_vars => UNCHANGED network
    BY DEF Next, vars, hubVars, Connect, Hear, Over, Drop, Refused, SignOut, SignIn, Watch,
           Lose, Vanish
  <2> QED
    BY <2>1 DEF Ordered
<1>1. /\ \A k \in DOMAIN conns : ConnShape(conns[k]) /\ ~conns[k].overtaken
      /\ \E n \in Nat : conns = [k \in 1 .. n |-> conns[k]]
  BY DEF Inv, ConnsShape, Orderly
<1>2. CASE Serve \/ Happen
  <2>1. CASE UNCHANGED conns
    BY <2>1
  <2>2. ASSUME NEW k \in DOMAIN conns, inTurn(conns, k), Arrive(k) \/ Counted(k) \/ Open(k)
        PROVE  Orderly(conns')
    <3>1. /\ conns[k].at \in Pending
          /\ \A j \in DOMAIN conns : j < k /\ conns[j].tab = conns[k].tab =>
               conns[j].at \notin Pending
      <4>1. \A j \in DOMAIN conns : j < k => j \in 1 .. (k - 1)
        BY <1>1
      <4> QED
        BY <2>2, <4>1 DEF inTurn, under, Pending, Arrive, Counted, Open
    <3>2. CASE Arrive(k) \/ Counted(k)
      <4>1. /\ DOMAIN conns' = DOMAIN conns
            /\ \A j \in DOMAIN conns :
                 /\ conns'[j].tab = conns[j].tab /\ ~conns'[j].overtaken
                 /\ j # k => conns'[j].at = conns[j].at
        BY <1>1, <3>2 DEF Arrive, Counted, ConnShape
      <4> QED
        BY <3>1, <4>1, StillOrderly
    <3>3. ASSUME conns' = [conns EXCEPT ![k].at = "refused"] PROVE Orderly(conns')
      <4>1. /\ DOMAIN conns' = DOMAIN conns
            /\ \A j \in DOMAIN conns :
                 /\ conns'[j].tab = conns[j].tab /\ ~conns'[j].overtaken
                 /\ conns'[j].at \in {conns[j].at, "refused"}
        BY <1>1, <3>3 DEF ConnShape
      <4> QED
        BY <4>1, StillOrderly DEF Pending
    <3>4. ASSUME NEW e, NEW x, NEW events, conns' = sent(openedOn(conns, k, e), x, events)
          PROVE  Orderly(conns')
      <4> DEFINE cs == openedOn(conns, k, e)
      <4>1. /\ ConnsShape(cs) /\ DOMAIN cs = DOMAIN conns
            /\ cs[k].at = "open" /\ cs[k].tab = conns[k].tab
            /\ cs[k].overtaken = conns[k].overtaken
            /\ \A j \in DOMAIN conns \ {k} :
                 /\ cs[j].tab = conns[j].tab /\ cs[j].at = conns[j].at
                 /\ cs[j].overtaken <=>
                      \/ conns[j].overtaken
                      \/ j > k /\ conns[j].tab = conns[k].tab /\ conns[j].at = "open"
        BY OpenedOn DEF Inv
      <4>2. conns' = sent(cs, x, events)
        BY <3>4
      <4> HIDE DEF cs
      <4>3. /\ DOMAIN conns' = DOMAIN cs
            /\ \A j \in DOMAIN cs : Alike(cs[j], conns'[j])
        BY <4>1, <4>2, Sent
      <4>4. \A j \in DOMAIN conns \ {k} : ~cs[j].overtaken
        <5>1. \A j \in DOMAIN conns : j > k <=> k < j
          BY <1>1
        <5> QED
          BY <1>1, <3>1, <4>1, <5>1 DEF Orderly
      <4>5. \A j \in DOMAIN conns :
              /\ conns'[j].tab = conns[j].tab /\ ~conns'[j].overtaken
              /\ j # k => conns'[j].at = conns[j].at
              /\ j = k => conns'[j].at = "open"
        BY <1>1, <4>1, <4>3, <4>4 DEF Alike
      <4> QED
        BY <3>1, <4>1, <4>3, <4>5, StillOrderly DEF Pending
    <3> QED
      BY <2>2, <3>2, <3>3, <3>4 DEF Open
  <2>3. ASSUME NEW x, NEW events, conns' = sent(conns, x, events) PROVE Orderly(conns')
    <3>1. /\ DOMAIN conns' = DOMAIN conns
          /\ \A j \in DOMAIN conns : Alike(conns[j], conns'[j])
      BY <2>3, Sent DEF Inv
    <3> QED
      BY <1>1, <3>1, StillOrderly DEF Alike
  <2>4. ASSUME DOMAIN conns' = DOMAIN conns,
               \A j \in DOMAIN conns :
                 /\ conns'[j].tab = conns[j].tab /\ ~conns'[j].overtaken
                 /\ conns'[j].at \in {conns[j].at, "ended"}
        PROVE  Orderly(conns')
    BY <2>4, StillOrderly DEF Pending
  <2>5. ASSUME NEW k \in DOMAIN conns, Close(k) PROVE Orderly(conns')
    BY <1>1, <2>4, <2>5 DEF Close, ConnShape
  <2>6. CASE Unload \/ Restart
    <3>1. /\ DOMAIN conns' = DOMAIN conns
          /\ \A j \in DOMAIN conns :
               \/ conns'[j] = conns[j]
               \/ conns'[j] = [conns[j] EXCEPT !.at = "ended", !.engine = Cold]
               \/ conns'[j] = [conns[j] EXCEPT !.at = "ended", !.engine = Cold,
                                               !.events = << >>]
      BY <2>6 DEF Unload, Restart
    <3>2. \A j \in DOMAIN conns :
            /\ conns'[j].tab = conns[j].tab /\ conns'[j].overtaken = conns[j].overtaken
            /\ conns'[j].at \in {conns[j].at, "ended"}
      BY <1>1, <3>1 DEF ConnShape
    <3> QED
      BY <1>1, <2>4, <3>1, <3>2
  <2>7. CASE \E r \in DOMAIN posts : Take(r) \/ CountedFor(r) \/ Dispatch(r)
    BY <2>1, <2>3, <2>7 DEF Take, CountedFor, Dispatch
  <2>8. CASE Start \/ Pull \/ Land \/ IdleUnload
    BY <2>1, <2>3, <2>8 DEF Start, Pull, Land, IdleUnload
  <2>9. CASE Write \/ DeleteUser
    BY <2>1, <2>9 DEF Write, DeleteUser
  <2> QED
    BY <1>2, <2>2, <2>5, <2>6, <2>7, <2>8, <2>9 DEF Serve, Happen
<1>3. ASSUME NEW t \in Tabs, Connect(t) PROVE Orderly(conns')
  <2>1. PICK n \in Nat :
          /\ DOMAIN conns = 1 .. n /\ DOMAIN conns' = 1 .. n + 1
          /\ \A k \in 1 .. n : conns'[k] = conns[k]
          /\ conns'[n + 1] = asked(t)
    BY <1>3, Connecting
  <2>2. /\ conns'[n + 1].at = "sent" /\ ~conns'[n + 1].overtaken
    BY <2>1 DEF asked
  <2>3. \A k \in DOMAIN conns' : k = n + 1 \/ (k \in DOMAIN conns /\ conns'[k] = conns[k])
    BY <2>1
  <2>4. \A j, k \in DOMAIN conns' : j < k => j \in DOMAIN conns
    BY <2>1
  <2>5. \A k \in DOMAIN conns' : ~conns'[k].overtaken
    BY <1>1, <2>2, <2>3
  <2>6. ASSUME NEW j \in DOMAIN conns', NEW k \in DOMAIN conns', j < k,
               conns'[j].tab = conns'[k].tab,
               conns'[k].at \in {"asking", "asserted", "open"}
        PROVE  conns'[j].at \notin Pending
    <3>1. k \in DOMAIN conns /\ conns'[k] = conns[k]
      BY <2>2, <2>3, <2>6
    <3>2. j \in DOMAIN conns /\ conns'[j] = conns[j]
      BY <2>1, <2>4, <2>6
    <3> QED
      BY <2>6, <3>1, <3>2 DEF Orderly
  <2> QED
    BY <2>5, <2>6 DEF Orderly
<1>4. ASSUME NEW k \in DOMAIN conns, conns' = [conns EXCEPT ![k].events = Tail(@)]
             \/ conns' = [conns EXCEPT ![k].events = << >>]
             \/ conns' = [conns EXCEPT ![k].at = "ended"]
      PROVE  Orderly(conns')
  <2>1. /\ DOMAIN conns' = DOMAIN conns
        /\ \A j \in DOMAIN conns :
             /\ conns'[j].tab = conns[j].tab /\ ~conns'[j].overtaken
             /\ conns'[j].at \in {conns[j].at, "ended"}
    BY <1>1, <1>4 DEF ConnShape
  <2> QED
    BY <2>1, StillOrderly DEF Pending
<1>5. ASSUME NEW t \in Tabs, Hear(t) \/ Over(t) \/ Drop(t) \/ Refused(t) \/ SignOut(t)
                              \/ SignIn(t) \/ Watch(t)
      PROVE  Orderly(conns')
  <2>1. page[t].conn # Cold => page[t].conn \in DOMAIN conns
    BY DEF Inv, Owned
  <2> QED
    BY <1>4, <1>5, <2>1 DEF Hear, Over, Drop, Refused, SignOut, SignIn, Watch, abandoned, hubVars
<1>6. CASE (\E r \in DOMAIN posts : Lose(r)) \/ UNCHANGED vars
  BY <1>6 DEF Lose, vars, hubVars
<1>7. CASE \E k \in DOMAIN conns : Vanish(k)
  BY <1>4, <1>7 DEF Vanish
<1> QED
  BY <1>2, <1>3, <1>5, <1>6, <1>7 DEF Next

(***************************************************************************)
(* A page that is connected and has settled, where streams and requests    *)
(* arrive and in order, shows what it watches as of the user's latest      *)
(* data, in the layout it asked for or the one saved now (client.ts:46-48, *)
(* :236-255; engine.ts:283-367): for any number of tabs, whatever streams  *)
(* were replaced and engines loaded anew on the way.                       *)
(***************************************************************************)
THEOREM PagesShowWhatTheyWatch == Spec => []ShowsWhatItWatches
<1>1. Inv /\ Ordered /\ Shown => ShowsWhatItWatches
  <2> SUFFICES ASSUME Inv, Ordered, Shown, NEW t \in Tabs, network.tidy, settled(t),
                      page[t].watching.view # None
               PROVE  page[t].view = asOf(hub.version, page[t].watching)
    BY DEF ShowsWhatItWatches, asOf
  <2>1. reads(page, conns, t)
    BY DEF settled, streaming, reads, Inv, Owned, Ordered, Orderly
  <2>2. /\ page[t].opened /\ conns[page[t].conn].events = << >>
        /\ hub.current # Cold /\ hub.engine.ready /\ ~hub.engine.due /\ ~hub.engine.pulling
        /\ \A r \in DOMAIN posts : posts[r].tab = t => ~under(posts[r])
    BY DEF settled
  <2>3. onTheirWay(posts, t) = {}
    BY <2>2 DEF onTheirWay, under, Pending
  <2>4. shown(hub.engine) = hub.version
    BY <2>2 DEF Shown, Fetching, shown
  <2>5. Served(hub.engine, posts, t, << >>, page[t])
    BY <2>1, <2>2 DEF Shown, AllServed
  <2>6. Comes(<< >>, hub.version, page[t])
    BY <2>2, <2>3, <2>4, <2>5 DEF Served
  <2> QED
    BY <2>6 DEF Comes
<1>2. Spec => []Shown
  BY Invariant, InitShown, StepShown, PTL DEF Spec
<1>3. Init => Ordered
  BY DEF Init, HubInit, Ordered, Orderly
<1>4. Spec => []Ordered
  BY Invariant, <1>3, StepOrdered, PTL DEF Spec
<1> QED
  BY <1>1, <1>2, <1>4, Invariant, PTL
=============================================================================
