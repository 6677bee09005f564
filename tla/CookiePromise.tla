---------------------------- MODULE CookiePromise ----------------------------
(***************************************************************************)
(* What the tabs that share a cookie promise: CookieSession keeps it.      *)
(***************************************************************************)
EXTENDS SessionState

CONSTANT Tabs

VARIABLES
  jar,      \* the cookie every tab shares, or NoToken
  tabs,     \* [Tabs -> what the page holds]
  awaiting  \* [Tabs -> the sign-in or sign-out a page awaits the answer of]

(***************************************************************************)
(* The cookie is one the session has issued, and never one of a generation *)
(* its row does not know: a refresh that read the row rotates it in a      *)
(* later statement, and would take back what others rotated in between     *)
(* (session.service.ts:110-125).  The newest cookie were then taken for    *)
(* stolen.                                                                 *)
(***************************************************************************)
CookieIsIssued == jar # NoToken => jar.generation <= session[jar.sid].generation

(***************************************************************************)
(* What an adopt settled stays settled (auth.ts:244-246): a page that was  *)
(* signed out gets a token only by the answer to its own sign-in or by     *)
(* being loaded again, and a refresh that was asked before answers into    *)
(* nothing.                                                                *)
(***************************************************************************)
EndedStaysEnded ==
  [][\A t \in Tabs : tabs[t].held = "ended" =>
       \/ tabs'[t].held \in {"ended", "closed"}
       \/ /\ tabs'[t].held = "granted"
          /\ awaiting[t].what = "in"
          /\ jar' = [sid |-> awaiting[t].sid, generation |-> 0]]_tabs
=============================================================================
