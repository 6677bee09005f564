---------------------------- MODULE CookieSession ----------------------------
(***************************************************************************)
(* The tabs of one browser.  The refresh token is a cookie no page can     *)
(* read: the browser attaches the one in its jar to each request and puts  *)
(* the one in each answer back, whatever the page makes of the answer.  A  *)
(* page holds only an access token and shares one refresh among its own    *)
(* callers; between pages there is no lock.  What a sign-in or a sign-out  *)
(* settles (adopt) is not overwritten by a refresh started before it.      *)
(***************************************************************************)
EXTENDS SessionService, CookiePromise, FiniteSets

CONSTANT
  MaxLoads   \* bound on pages loaded

VARIABLES
  hint,     \* the localStorage hint that a cookie may exist
  removed,  \* tabs yet to hear that the hint was removed
  flights,  \* [Requests -> the refresh a request is an attempt of]
  loads

browserVars == <<jar, hint, removed, tabs, awaiting, flights, loads, lost>>
cookieVars == <<serverVars, browserVars>>

None == "none"
NoFlight == [tab |-> None]
page(held, issued, inflight) == [held |-> held, issued |-> issued, inflight |-> inflight]
\* What a page awaits the answer of: a sign-in, by the session it started, or a
\* sign-out, which the server has served or never will.
NoAsk == [what |-> None]
askIn(s) == [what |-> "in", sid |-> s, at |-> clock]
askOut(served) == [what |-> "out", served |-> served]
Closed == page("closed", 0, None)
Ended == page("ended", 0, None)

\* A browser opened again after it was closed while signed in.
CookieInit ==
  /\ \E s \in Sids :
       /\ session = [i \in Sids |-> IF i = s THEN [NoSession EXCEPT !.exists = TRUE]
                                             ELSE NoSession]
       /\ jar = [sid |-> s, generation |-> 0]
  /\ requests = [r \in Requests |-> NoRequest]
  /\ open = {}
  /\ clock = 0
  /\ hint = TRUE
  /\ removed = {}
  /\ tabs = [t \in Tabs |-> Closed]
  /\ awaiting = [t \in Tabs |-> NoAsk]
  /\ flights = [r \in Requests |-> NoFlight]
  /\ loads = 0
  /\ lost = 0

asksOf(t) == IF awaiting[t] = NoAsk THEN 0 ELSE 1
of(t) == {r \in Requests : flights[r].tab = t}

\* Mutated: the refresh under way stays of the page's generation.
adoptAlone(t, next) ==
  /\ tabs' = [tabs EXCEPT ![t] = next]
  /\ UNCHANGED flights

\* adopt: a later generation of the page's session.
adopt(t, next) ==
  /\ tabs' = [tabs EXCEPT ![t] = next]
  /\ flights' = [r \in Requests |->
       IF r \in of(t) THEN [flights[r] EXCEPT !.overtaken = TRUE] ELSE flights[r]]

\* Signed out here: the hint goes, and the other tabs will hear of it.
forget(t) ==
  /\ hint' = FALSE
  /\ removed' = IF hint THEN removed \cup {u \in Tabs \ {t} : tabs[u] # Closed}
                ELSE removed

----------------------------------------------------------------------------
(* Pages come and go.                                                      *)

Load(t) ==
  /\ tabs[t] = Closed
  /\ loads < MaxLoads
  /\ loads' = loads + 1
  /\ tabs' = [tabs EXCEPT ![t] = IF hint THEN page("restoring", 0, None) ELSE Ended]
  /\ UNCHANGED <<serverVars, jar, hint, removed, awaiting, flights, lost>>

\* A page that goes takes its requests along: their cookies never arrive.
Close(t) ==
  /\ tabs[t] # Closed
  /\ lost' = lost + Cardinality(of(t)) + asksOf(t)
  /\ lost' <= MaxLost
  /\ tabs' = [tabs EXCEPT ![t] = Closed]
  /\ awaiting' = [awaiting EXCEPT ![t] = NoAsk]
  /\ flights' = [r \in Requests |-> IF r \in of(t) THEN NoFlight ELSE flights[r]]
  /\ removed' = removed \ {t}
  /\ hangUp(of(t))
  /\ UNCHANGED <<session, clock, jar, hint, loads>>

----------------------------------------------------------------------------
(* Refreshing.                                                             *)

expiring(t) ==
  \/ tabs[t].held \in {"restoring", "unknown"}
  \/ tabs[t].held = "granted" /\ clock - tabs[t].issued >= AccessLife

\* A caller finds no usable token and no refresh under way.
Refresh(t) ==
  /\ expiring(t)
  /\ tabs[t].inflight = None
  /\ \E r \in Requests :
       /\ send(r, jar)
       /\ flights' = [flights EXCEPT ![r] = [tab |-> t, again |-> FALSE, overtaken |-> FALSE]]
       /\ tabs' = [tabs EXCEPT ![t].inflight = r]
  /\ UNCHANGED <<session, clock, jar, hint, removed, awaiting, loads, lost>>

\* begin: the first refresh of a loaded page shows it signed in.
restored(r) == ~flights[r].overtaken /\ tabs[flights[r].tab].held = "restoring"

landed(r) == [flights EXCEPT ![r] = NoFlight]

\* The browser takes the cookie first; the page then ignores an answer an
\* adopt has overtaken.
Renewed(r) ==
  /\ r \in open /\ requests[r].at = "granted"
  /\ jar' = answer(requests[r])
  /\ tabs' = IF flights[r].overtaken THEN tabs
             ELSE [tabs EXCEPT ![flights[r].tab] = page("granted", requests[r].now, None)]
  /\ hint' = (hint \/ restored(r))
  /\ flights' = landed(r)
  /\ hangUp({r})
  /\ UNCHANGED <<session, clock, removed, awaiting, loads, lost>>

\* A dead cookie is cleared and the page, if it still asks, is signed out.
Refused(r) ==
  /\ r \in open /\ requests[r].at = "refused"
  /\ jar' = IF requests[r].token = NoToken THEN jar ELSE NoToken
  /\ IF flights[r].overtaken
     THEN UNCHANGED <<tabs, hint, removed>>
     ELSE /\ tabs' = [tabs EXCEPT ![flights[r].tab] = Ended]
          /\ forget(flights[r].tab)
  /\ flights' = landed(r)
  /\ hangUp({r})
  /\ UNCHANGED <<session, clock, awaiting, loads, lost>>

\* No answer: once more with the cookie the jar then holds, then the refresh
\* fails and a later caller starts another.
Unanswered(r) ==
  /\ r \in open
  /\ lost < MaxLost
  /\ lost' = lost + 1
  /\ LET t == flights[r].tab
         current == tabs[t].inflight = r
     IN \/ /\ ~flights[r].again
           /\ \E q \in Requests :
                /\ resend(r, q, jar)
                /\ flights' = [landed(r) EXCEPT ![q] = [flights[r] EXCEPT !.again = TRUE]]
                /\ tabs' = IF current THEN [tabs EXCEPT ![t].inflight = q] ELSE tabs
           /\ UNCHANGED hint
        \/ /\ flights[r].again
           /\ hangUp({r})
           /\ flights' = landed(r)
           /\ tabs' = IF ~current THEN tabs
                      ELSE [tabs EXCEPT ![t] =
                              page(IF restored(r) THEN "unknown" ELSE @.held, @.issued, None)]
           /\ hint' = (hint \/ restored(r))
  /\ UNCHANGED <<session, clock, jar, removed, awaiting, loads>>

----------------------------------------------------------------------------
(* Signing in and out.                                                     *)

\* A sign-in or a registration, one at a time: the server has started the
\* session when its answer is on the way.
SignIn(t) ==
  /\ tabs[t].held = "ended" /\ awaiting[t] = NoAsk
  /\ \E s \in Sids :
       /\ start(s)
       /\ awaiting' = [awaiting EXCEPT ![t] = askIn(s)]
  /\ UNCHANGED <<requests, open, clock, jar, hint, removed, tabs, flights, loads, lost>>

SignedIn(t) ==
  /\ awaiting[t].what = "in"
  /\ jar' = [sid |-> awaiting[t].sid, generation |-> 0]
  /\ adopt(t, page("granted", awaiting[t].at, None))
  /\ awaiting' = [awaiting EXCEPT ![t] = NoAsk]
  /\ hint' = TRUE
  /\ UNCHANGED <<serverVars, removed, loads, lost>>

\* No answer: the session lives at the server, and nobody has its cookie.
SignInFails(t) ==
  /\ awaiting[t].what = "in"
  /\ lost < MaxLost /\ lost' = lost + 1
  /\ awaiting' = [awaiting EXCEPT ![t] = NoAsk]
  /\ UNCHANGED <<serverVars, jar, hint, removed, tabs, flights, loads>>

\* The server revokes the session of the cookie, or is not reached. (An access
\* token that ended is renewed first: Refresh.)
SignOut(t) ==
  /\ tabs[t].held = "granted" /\ ~expiring(t) /\ awaiting[t] = NoAsk
  /\ \E served \in BOOLEAN :
       /\ awaiting' = [awaiting EXCEPT ![t] = askOut(served)]
       /\ session' = IF served /\ jar # NoToken THEN revoked(jar.sid) ELSE session
       /\ lost' = IF served THEN lost ELSE lost + 1
  /\ lost' <= MaxLost
  /\ UNCHANGED <<requests, open, clock, jar, hint, removed, tabs, flights, loads>>

\* The answer clears the cookie, or none came; the page forgets either way,
\* unless another tab's sign-out did it first.
SignedOut(t) ==
  /\ awaiting[t].what = "out"
  /\ \/ awaiting[t].served /\ jar' = NoToken /\ UNCHANGED lost
     \/ awaiting[t].served /\ lost < MaxLost /\ lost' = lost + 1 /\ UNCHANGED jar
     \/ ~awaiting[t].served /\ UNCHANGED <<jar, lost>>
  /\ awaiting' = [awaiting EXCEPT ![t] = NoAsk]
  /\ IF tabs[t].held = "ended" THEN UNCHANGED <<tabs, flights, hint, removed>>
     ELSE adopt(t, Ended) /\ forget(t)
  /\ UNCHANGED <<serverVars, loads>>

\* The storage event: another tab signed out.
OnStorage(t) ==
  /\ t \in removed
  /\ removed' = removed \ {t}
  /\ IF tabs[t].held = "ended" THEN UNCHANGED <<tabs, flights>> ELSE adopt(t, Ended)
  /\ UNCHANGED <<serverVars, jar, hint, awaiting, loads, lost>>

----------------------------------------------------------------------------

CookieNext ==
  \/ \E t \in Tabs :
       \/ Load(t) \/ Close(t) \/ Refresh(t) \/ OnStorage(t)
       \/ SignIn(t) \/ SignedIn(t) \/ SignInFails(t)
       \/ SignOut(t) \/ SignedOut(t)
  \/ \E r \in Requests : Renewed(r) \/ Refused(r) \/ Unanswered(r)
  \/ ((\E r \in Requests : Serve(r)) \/ Tick) /\ UNCHANGED browserVars

CookieSpec == CookieInit /\ [][CookieNext]_cookieVars
=============================================================================
