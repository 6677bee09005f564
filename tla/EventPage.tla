------------------------------- MODULE EventPage -------------------------------
(***************************************************************************)
(* The pages of one user before the hub (client.ts): each keeps an event   *)
(* stream open while signed in, posts what it watches and takes from the   *)
(* stream what is for it.  Streams break, end with their token and are     *)
(* opened again; the server restarts; the account is deleted.              *)
(*                                                                         *)
(* The tokens a page needs on the way are in CookieSession: here a call is *)
(* let through or refused for good.                                        *)
(***************************************************************************)
EXTENDS EngineHub

CONSTANTS
  Watches,   \* what a page may come to show, beside nothing
  Networks   \* [tabs, first, budget, tidy]: what may happen, how often

VARIABLES page, network, budget

vars == <<hubVars, page, network, budget>>

Nothing == [topic |-> "view", key |-> None, layout |-> None, version |-> 0]

ASSUME WatchesAssumption ==
  /\ Watches \subseteq [view: Views, layout: Layouts \cup {None}]
  /\ \A n \in Networks : n.first \in [Tabs -> Watches \cup {NoWatch}]

Init ==
  /\ HubInit
  /\ network \in Networks
  /\ budget = network.budget
  /\ page = [t \in Tabs |->
       [signedIn |-> t \in network.tabs, connected |-> FALSE, opened |-> FALSE, conn |-> Cold,
        watching |-> network.first[t],
        catalog |-> 0, view |-> Nothing]]

spend(what) ==
  /\ budget[what] > 0
  /\ budget' = [budget EXCEPT ![what] = @ - 1]

\* The page stops reading its stream.  One it gave up on before the head came
\* is still under way, and opens all the same.
abandoned(t) ==
  IF page[t].conn = Cold THEN conns ELSE [conns EXCEPT ![page[t].conn].events = << >>]

----------------------------------------------------------------------------
(* listen: the stream, opened again whenever it ended.                     *)

Connect(t) ==
  /\ page[t].signedIn
  /\ page[t].conn = Cold
  /\ Len(conns) < MaxConns
  /\ conns' = Append(conns, asked(t))
  /\ page' = [page EXCEPT ![t].conn = Len(conns) + 1]
  /\ UNCHANGED <<hub, posts, network, budget>>

mine(p, event) ==
  event.topic = "view" =>
    /\ event.key = p.watching.view
    /\ event.layout = layoutOf(p.watching, p.catalog)

receive(p, event) ==
  IF ~mine(p, event) THEN p
  ELSE IF event.topic = "view" THEN [p EXCEPT !.view = event]
  ELSE [p EXCEPT !.catalog = event.version]

\* Mutated: the page does not say again what it watches.
resentNever(t) == posts
resent(t) ==
  IF page[t].watching.view = None THEN posts
  ELSE Append(posts, posted(t, page[t].watching))

\* The first event opens the stream for the page.
Hear(t) ==
  LET k == page[t].conn
      heard == receive(page[t], Head(conns[k].events))
  IN /\ k # Cold
     /\ conns[k].events # << >>
     /\ page[t].opened \/ Len(posts) < MaxPosts
     /\ conns' = [conns EXCEPT ![k].events = Tail(@)]
     /\ posts' = IF page[t].opened THEN posts ELSE resent(t)
     /\ page' = [page EXCEPT ![t] = [heard EXCEPT !.opened = TRUE, !.connected = TRUE]]
     /\ UNCHANGED <<hub, network, budget>>

\* The server ended it: a stream that lived is opened again at once, and the
\* page stays connected meanwhile.
Over(t) ==
  LET k == page[t].conn
  IN /\ k # Cold
     /\ conns[k].at = "ended"
     /\ conns[k].events = << >>
     /\ \E lived \in {FALSE, page[t].opened} :
          page' = [page EXCEPT ![t].conn = Cold, ![t].opened = FALSE,
                               ![t].connected = @ /\ lived]
     /\ UNCHANGED <<hubVars, network, budget>>

\* The network cut it, the head did not come in OPEN_MS, or nothing did for
\* SILENT_MS.
Drop(t) ==
  /\ page[t].conn # Cold
  /\ spend("drops")
  /\ conns' = abandoned(t)
  /\ page' = [page EXCEPT ![t].conn = Cold, ![t].opened = FALSE, ![t].connected = FALSE]
  /\ UNCHANGED <<hub, posts, network>>

----------------------------------------------------------------------------
(* Signing in and out; a refused call signs out.                           *)

end(t) ==
  [page EXCEPT ![t] = [@ EXCEPT !.signedIn = FALSE, !.connected = FALSE, !.opened = FALSE,
                                !.conn = Cold, !.catalog = 0, !.view = Nothing]]

Refused(t) ==
  /\ page[t].signedIn
  /\ \/ /\ page[t].conn # Cold
        /\ conns[page[t].conn].at = "refused"
        /\ UNCHANGED posts
     \/ \E r \in DOMAIN posts :
          /\ posts[r].tab = t
          /\ posts[r].at = "refused"
          /\ posts' = [posts EXCEPT ![r] = answered(t)]
  /\ page' = end(t)
  /\ conns' = abandoned(t)
  /\ UNCHANGED <<hub, network, budget>>

\* By the user, or by another tab that removed the hint.
SignOut(t) ==
  /\ page[t].signedIn
  /\ spend("signOuts")
  /\ page' = end(t)
  /\ conns' = abandoned(t)
  /\ UNCHANGED <<hub, posts, network>>

SignIn(t) ==
  /\ ~page[t].signedIn
  /\ t \in network.tabs
  /\ hub.alive
  /\ page' = [page EXCEPT ![t].signedIn = TRUE]
  /\ UNCHANGED <<hubVars, network, budget>>

----------------------------------------------------------------------------

\* The page shows something else; its watch is posted and forgotten.
Watch(t) ==
  \E watch \in Watches \cup {NoWatch} :
    LET now == [page[t] EXCEPT !.watching = watch, !.view = Nothing]
    IN /\ page[t].signedIn
       /\ watch # page[t].watching
       /\ spend("watches")
       /\ page[t].connected => Len(posts) < MaxPosts
       /\ page' = [page EXCEPT ![t] = now]
       /\ posts' = IF page[t].connected THEN Append(posts, posted(t, watch)) ELSE posts
       /\ UNCHANGED <<hub, conns, network>>

\* A request that does not arrive, or whose answer does not.
Lose(r) ==
  /\ ~network.tidy
  /\ posts[r].at = "sent"
  /\ posts' = [posts EXCEPT ![r] = answered(@.tab)]
  /\ UNCHANGED <<hub, conns, page, network, budget>>

\* A stream the page gave up on, cut before the server saw the request.
Vanish(k) ==
  /\ conns[k].at = "sent"
  /\ page[conns[k].tab].conn # k
  /\ conns' = [conns EXCEPT ![k].at = "ended"]
  /\ UNCHANGED <<hub, posts, page, network, budget>>

under(x) == x.at \in {"sent", "asking", "asserted"}

\* Two streams of a tab, or two of its requests, may overtake one another.
inTurn(xs, i) ==
  network.tidy => \A j \in 1..(i - 1) : xs[j].tab = xs[i].tab => ~under(xs[j])

Serve ==
  \/ \E k \in DOMAIN conns : inTurn(conns, k) /\ (Arrive(k) \/ Counted(k) \/ Open(k))
  \/ \E k \in DOMAIN conns : Close(k)
  \/ \E r \in DOMAIN posts : inTurn(posts, r) /\ (Take(r) \/ CountedFor(r) \/ Dispatch(r))
  \/ Start \/ Pull \/ Land \/ IdleUnload \/ Unload

Happen ==
  \/ spend("writes") /\ Write
  \/ spend("restarts") /\ Restart
  \/ spend("deletes") /\ DeleteUser

Next ==
  \/ Serve /\ UNCHANGED <<page, network, budget>>
  \/ Happen /\ UNCHANGED <<page, network>>
  \/ \E t \in Tabs : \/ Connect(t) \/ Hear(t) \/ Over(t) \/ Drop(t)
                     \/ Refused(t) \/ SignOut(t) \/ SignIn(t) \/ Watch(t)
  \/ \E r \in DOMAIN posts : Lose(r)
  \/ \E k \in DOMAIN conns : Vanish(k)

Spec == Init /\ [][Next]_vars

----------------------------------------------------------------------------

streaming(t) == page[t].conn # Cold /\ conns[page[t].conn].at = "open"

\* The stream the page reads is its tab's on the engine that is loaded.
placed(t) ==
  /\ conns[page[t].conn].engine = hub.current
  /\ hub.current # Cold
  /\ hub.engine.streams[t] = page[t].conn

(***************************************************************************)
(* The stream a page reads is the one its tab has on the current engine,   *)
(* unless one the page had given up on before its head came opened after   *)
(* it: whatever older stream of the tab ends late and whichever idle timer *)
(* was set before (engine-hub.ts:93-105, :222-231).  A stream that is not  *)
(* gets the pings and no event: the page calls itself connected and hears  *)
(* nothing.                                                                *)
(***************************************************************************)
ConnectedHears ==
  \A t \in Tabs : streaming(t) /\ ~conns[page[t].conn].overtaken => placed(t)

(***************************************************************************)
(* The same without the exception: `connected' means that "what the topics *)
(* show is the server's" (client.ts:46-48).  It is not so: the controller  *)
(* awaits the database and listens for the close of the request only       *)
(* afterwards (engine.controller.ts:65-88), so a stream given up on while  *)
(* it waits still takes its tab's place (engine-hub.ts:96), from the one   *)
(* that was opened instead.                                                *)
(***************************************************************************)
EveryStreamHears == \A t \in Tabs : page[t].connected /\ streaming(t) => placed(t)

\* Everything of the tab has arrived, and the engine has nothing to fetch.
settled(t) ==
  /\ page[t].connected /\ page[t].opened
  /\ streaming(t)
  /\ conns[page[t].conn].events = << >>
  /\ \A r \in DOMAIN posts : posts[r].tab = t => ~under(posts[r])
  /\ hub.current # Cold
  /\ hub.engine.ready /\ ~hub.engine.due /\ ~hub.engine.pulling

(***************************************************************************)
(* A connected page whose streams and requests arrived, each in the order  *)
(* they were sent, shows the view it watches, in the layout it asked for   *)
(* or the one saved now, as of the user's latest data (client.ts:46-48,    *)
(* :236-255; engine.ts:283-367).  The stream, the watches and the saved    *)
(* layout travel apart.                                                    *)
(***************************************************************************)
ShowsWhatItWatches ==
  \A t \in Tabs :
    /\ network.tidy
    /\ settled(t)
    /\ page[t].watching.view # None
    => page[t].view = [topic |-> "view", key |-> page[t].watching.view,
                       layout |-> layoutOf(page[t].watching, hub.version),
                       version |-> hub.version]
=============================================================================
