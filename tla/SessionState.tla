---------------------------- MODULE SessionState ----------------------------
(***************************************************************************)
(* What the promises of the session clients speak of: the server's rows    *)
(* and the refresh requests at it.  What happens to them is SessionService *)
(* and, before it, StoredSession and CookieSession.                        *)
(***************************************************************************)
EXTENDS Integers

CONSTANTS
  Sids,      \* identities of sessions
  Requests   \* refresh requests the server can have under way

VARIABLES
  session,   \* [Sids -> row]
  requests,  \* [Requests -> request]
  lost       \* answers lost so far

Never == -1
NoToken == [sid |-> "none", generation |-> Never]
=============================================================================
