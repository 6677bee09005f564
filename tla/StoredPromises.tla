--------------------------- MODULE StoredPromises ---------------------------
(***************************************************************************)
(* What the processes that share a stored session promise: StoredSession   *)
(* keeps it.                                                               *)
(***************************************************************************)
EXTENDS SessionState

CONSTANT Procs

VARIABLES
  auth,   \* the store's row, or NoAuth
  procs,  \* [Procs -> state of a process]
  cut     \* a renewal was killed, or refused for a reason of its own

NoAuth == [token |-> NoToken, access |-> Never]
Idling == [pc |-> "idle"]

(***************************************************************************)
(* A lost answer and parallel processes are not mistaken for theft         *)
(* (plan-d-auth-design.md:8-9): reuse detection meets no request while at  *)
(* most one answer was lost and no renewal was cut short.  It takes the    *)
(* re-read under the lock, the retry, and a grace period that outlasts     *)
(* both attempts.                                                          *)
(***************************************************************************)
NotMistakenForTheft ==
  lost <= 1 /\ ~cut => \A r \in Requests : requests[r].at # "reuse"

(***************************************************************************)
(* After a sign-out only a sign-in puts a session in the store (run.ts:    *)
(* 150-162): a renewal that was under way does not put its own back.       *)
(***************************************************************************)
OnlySignInStores ==
  [][auth = NoAuth /\ auth' # NoAuth =>
       \E p \in Procs : procs[p].pc = "save" /\ procs'[p] = Idling]_auth
=============================================================================
