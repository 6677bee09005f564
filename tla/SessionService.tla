--------------------------- MODULE SessionService ---------------------------
(***************************************************************************)
(* The server's sessions and the requests that refresh them.  A session is *)
(* a row; every refresh moves it to the next generation, and the token of  *)
(* a generation is spent by the move.  A refresh is not one transaction:   *)
(* it reads the row and then, in a statement of its own, rotates it if it  *)
(* still is as read, or revokes it.  A spent token is answered with its    *)
(* successor for Grace after the rotation and revokes the session later.   *)
(*                                                                         *)
(* StoredSession and CookieSession put the two kinds of client before it.  *)
(***************************************************************************)
EXTENDS SessionState

CONSTANTS
  Grace, Idle, Absolute,  \* GRACE_MS, IDLE_MS, ABSOLUTE_MS in clock ticks
  Timeout,   \* how long a client waits for an answer
  Stall,     \* how long after it was sent the server may still work on one
  AccessLife, \* from signing an access token until a client renews it
  MaxTime,   \* bound on the clock
  MaxLost    \* bound on lost answers

TimesAreNat ==
  /\ {Grace, Idle, Absolute, MaxTime} \subseteq Nat
  /\ Timeout \in Nat \ {0} /\ Stall \in Nat

LifeOutlastsGrace == AccessLife \in Nat /\ AccessLife > Grace

VARIABLES
  open,   \* the requests whose client still waits
  clock

serverVars == <<session, requests, open, clock>>

NoRequest == [at |-> "free"]

NoSession == [exists |-> FALSE, revoked |-> FALSE, generation |-> 0,
              rotatedAt |-> Never, lastUsedAt |-> 0, createdAt |-> 0]

ServerInit ==
  /\ session = [s \in Sids |-> NoSession]
  /\ requests = [r \in Requests |-> NoRequest]
  /\ open = {}
  /\ clock = 0

\* A sign-in: the row and the first token of a new session.
start(s) ==
  /\ ~session[s].exists
  /\ session' = [session EXCEPT ![s] =
       [NoSession EXCEPT !.exists = TRUE, !.lastUsedAt = clock, !.createdAt = clock]]

revoked(s) == [session EXCEPT ![s].revoked = TRUE]

----------------------------------------------------------------------------
(* One refresh request.                                                    *)

\* A client sends its token, or NoToken when it has no cookie.
asked(token) == [at |-> "sent", token |-> token, sentAt |-> clock]

send(r, token) ==
  /\ requests[r] = NoRequest
  /\ requests' = [requests EXCEPT ![r] = asked(token)]
  /\ open' = open \cup {r}

\* What the server does with a request does not end with the connection:
\* one it is working on it finishes, and nobody hears the answer.
ended(r) == IF requests[r].at \in {"sent", "refused", "granted"}
            THEN NoRequest ELSE requests[r]

hangUp(R) ==
  /\ requests' = [r \in Requests |-> IF r \in R THEN ended(r) ELSE requests[r]]
  /\ open' = open \ R

\* r was lost; q asks again.
resend(r, q, token) ==
  /\ requests[q] = NoRequest
  /\ requests' = [requests EXCEPT ![r] = ended(r), ![q] = asked(token)]
  /\ open' = (open \ {r}) \cup {q}

concluded(r, at) ==
  [requests EXCEPT ![r] = IF r \in open THEN [@ EXCEPT !.at = at] ELSE NoRequest]

\* The server takes a request while its client waits, and reads its clock
\* once for all that follows.
Receive(r) ==
  /\ requests[r].at = "sent"
  /\ requests' = [requests EXCEPT ![r] =
       [at |-> IF @.token = NoToken THEN "refused" ELSE "lookup",
        token |-> @.token, sentAt |-> @.sentAt, now |-> clock]]
  /\ UNCHANGED <<session, open, clock>>

expired(row, now) ==
  \/ now - row.createdAt > Absolute
  \/ now - row.lastUsedAt > Idle

graced(row, token, now) ==
  /\ token.generation = row.generation - 1
  /\ row.rotatedAt # Never
  /\ now - row.rotatedAt <= Grace

\* The row is read and what to do about it decided.
Lookup(r) ==
  LET request == requests[r]
      row == session[request.token.sid]
      next(at) == requests' = [requests EXCEPT ![r].at = at]
  IN /\ request.at = "lookup"
     /\ \/ /\ row.revoked
           /\ requests' = concluded(r, "refused")
        \/ /\ ~row.revoked
           /\ expired(row, request.now)
           /\ next("expire")
        \/ /\ ~row.revoked
           /\ ~expired(row, request.now)
           /\ \/ /\ request.token.generation = row.generation
                 /\ next("rotate")
              \/ /\ graced(row, request.token, request.now)
                 /\ requests' = concluded(r, "granted")
              \/ /\ request.token.generation # row.generation
                 /\ ~graced(row, request.token, request.now)
                 /\ next("reuse")
     /\ UNCHANGED <<session, open, clock>>

\* Mutated: the row is rotated as it was read, whatever became of it.
RotateAsRead(r) ==
  LET request == requests[r]
  IN  /\ request.at = "rotate"
      /\ session' = [session EXCEPT ![request.token.sid].generation =
                                        request.token.generation + 1,
                                    ![request.token.sid].rotatedAt = request.now,
                                    ![request.token.sid].lastUsedAt = request.now]
      /\ requests' = concluded(r, "granted")
      /\ UNCHANGED <<open, clock>>

\* The rotation, if the row still is as it was read; otherwise it is read
\* again, with the same clock.
Rotate(r) ==
  LET request == requests[r]
      sid == request.token.sid
      asRead == /\ session[sid].generation = request.token.generation
                /\ ~session[sid].revoked
  IN /\ request.at = "rotate"
     /\ \/ /\ asRead
           /\ session' = [session EXCEPT ![sid].generation = @ + 1,
                                         ![sid].rotatedAt = request.now,
                                         ![sid].lastUsedAt = request.now]
           /\ requests' = concluded(r, "granted")
        \/ /\ ~asRead
           /\ requests' = [requests EXCEPT ![r].at = "lookup"]
           /\ UNCHANGED session
     /\ UNCHANGED <<open, clock>>

\* An expired session, or one whose spent token came back, ends for everyone.
RevokeById(r) ==
  /\ requests[r].at \in {"expire", "reuse"}
  /\ session' = revoked(requests[r].token.sid)
  /\ requests' = concluded(r, "refused")
  /\ UNCHANGED <<open, clock>>

Serve(r) == Receive(r) \/ Lookup(r) \/ Rotate(r) \/ RevokeById(r)

\* A client waits no longer than Timeout, and no request outlives Stall.
Tick ==
  /\ clock < MaxTime
  /\ \A r \in Requests : requests[r] # NoRequest =>
       clock < requests[r].sentAt + (IF r \in open THEN Timeout ELSE Stall)
  /\ clock' = clock + 1
  /\ UNCHANGED <<session, requests, open>>

\* The token a granted request carries: always the successor of the one it
\* presented.  The access token beside it is named by the time it was signed.
answer(request) ==
  [sid |-> request.token.sid, generation |-> request.token.generation + 1]
=============================================================================
