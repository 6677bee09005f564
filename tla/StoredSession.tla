---------------------------- MODULE StoredSession ----------------------------
(***************************************************************************)
(* The terminal clients.  Processes on one machine share the session kept  *)
(* in the store.  A process whose access token runs out renews it under    *)
(* the store's write lock, which it holds while it waits for the server:   *)
(* the refresh token rotates on every use, so the next process re-reads    *)
(* inside the lock and takes what the first stored.  Signing in and out    *)
(* write the store under the same lock, after having talked to the server. *)
(***************************************************************************)
EXTENDS SessionService, StoredPromises

\* Both attempts fit in the grace period (3 s each by default, and 30 s), and
\* none stalls until the next renewal.
RetriesInTime == 2 * Timeout <= Grace /\ Stall < AccessLife

VARIABLE lock   \* the process that holds the store's write lock, or Free

clientVars == <<auth, lock, procs, lost, cut>>
vars == <<serverVars, clientVars>>

Free == "free"

Init ==
  /\ ServerInit
  /\ auth = NoAuth
  /\ lock = Free
  /\ procs = [p \in Procs |-> Idling]
  /\ lost = 0
  /\ cut = FALSE

become(p, state) == procs' = [procs EXCEPT ![p] = state]

----------------------------------------------------------------------------
(* Renewing.                                                               *)

\* A command finds the access token it read expiring.
Expire(p) ==
  /\ procs[p] = Idling
  /\ auth # NoAuth
  /\ clock - auth.access >= AccessLife
  /\ become(p, [pc |-> "renew", refused |-> auth.access])
  /\ UNCHANGED <<serverVars, auth, lock, lost, cut>>

\* Mutated: the lock is not held while the server is asked.
RenewUnlocked(p) ==
  /\ procs[p].pc = "renew"
  /\ lock = Free
  /\ \/ /\ auth.access # procs[p].refused
        /\ become(p, Idling)
        /\ UNCHANGED serverVars
     \/ /\ auth.access = procs[p].refused
        /\ \E r \in Requests :
             /\ send(r, auth.token)
             /\ become(p, [pc |-> "asking", request |-> r, again |-> FALSE])
        /\ UNCHANGED <<session, clock>>
  /\ UNCHANGED <<auth, lock, lost, cut>>

\* Inside the lock the row is read again: there may be none, or one another
\* process renewed, and only otherwise the server is asked.
Renew(p) ==
  /\ procs[p].pc = "renew"
  /\ lock = Free
  /\ \/ /\ auth.access # procs[p].refused
        /\ become(p, Idling)
        /\ UNCHANGED <<serverVars, lock>>
     \/ /\ auth.access = procs[p].refused
        /\ \E r \in Requests :
             /\ send(r, auth.token)
             /\ become(p, [pc |-> "asking", request |-> r, again |-> FALSE])
        /\ lock' = p
        /\ UNCHANGED <<session, clock>>
  /\ UNCHANGED <<auth, lost, cut>>

\* The wait for the lock has its own deadline.
GiveUpWaiting(p) ==
  /\ procs[p].pc \in {"renew", "save", "clear"}
  /\ lock # Free
  /\ become(p, Idling)
  /\ UNCHANGED <<serverVars, auth, lock, lost, cut>>

answered(p, at) ==
  /\ procs[p].pc = "asking"
  /\ requests[procs[p].request].at = at

\* The end of the callback: the store's transaction commits or rolls back.
leave(p) ==
  /\ hangUp({procs[p].request})
  /\ lock' = Free
  /\ become(p, Idling)
  /\ UNCHANGED <<session, clock>>

Granted(p) ==
  /\ answered(p, "granted")
  /\ LET request == requests[procs[p].request]
     IN auth' = [token |-> answer(request), access |-> request.now]
  /\ leave(p)
  /\ UNCHANGED <<lost, cut>>

Invalid(p) ==
  /\ answered(p, "refused")
  /\ auth' = NoAuth
  /\ leave(p)
  /\ UNCHANGED <<lost, cut>>

\* No answer: the first time the same token is sent again, the second time
\* the error ends the callback.
Lost(p) ==
  /\ procs[p].pc = "asking"
  /\ lost < MaxLost
  /\ lost' = lost + 1
  /\ \/ /\ ~procs[p].again
        /\ \E q \in Requests :
             /\ resend(procs[p].request, q, auth.token)
             /\ become(p, [pc |-> "asking", request |-> q, again |-> TRUE])
        /\ UNCHANGED <<session, clock, lock>>
     \/ procs[p].again /\ leave(p)
  /\ UNCHANGED <<auth, cut>>

\* A refusal that is not about the token (429, a proxy's 502) is an answer
\* and is not retried; a killed process gives its lock back too.
CutShort(p) ==
  /\ procs[p].pc = "asking"
  /\ leave(p)
  /\ cut' = TRUE
  /\ UNCHANGED <<auth, lost>>

----------------------------------------------------------------------------
(* Signing in and out.                                                     *)

Login(p) ==
  /\ procs[p] = Idling
  /\ \E s \in Sids :
       /\ start(s)
       /\ become(p, [pc |-> "save", token |-> [sid |-> s, generation |-> 0],
                     access |-> clock])
  /\ UNCHANGED <<requests, open, clock, auth, lock, lost, cut>>

Save(p) ==
  /\ procs[p].pc = "save"
  /\ lock = Free
  /\ auth' = [token |-> procs[p].token, access |-> procs[p].access]
  /\ become(p, Idling)
  /\ UNCHANGED <<serverVars, lock, lost, cut>>

\* The server is told first, if it is reached; the tokens go either way.
Logout(p) ==
  /\ procs[p] = Idling
  /\ auth # NoAuth
  /\ session' = revoked(auth.token.sid) \/ UNCHANGED session
  /\ become(p, [pc |-> "clear"])
  /\ UNCHANGED <<requests, open, clock, auth, lock, lost, cut>>

\* Mutated: the row is deleted without waiting for the lock.
ClearAtOnce(p) ==
  /\ procs[p].pc = "clear"
  /\ auth' = NoAuth
  /\ become(p, Idling)
  /\ UNCHANGED <<serverVars, lock, lost, cut>>

Clear(p) ==
  /\ procs[p].pc = "clear"
  /\ lock = Free
  /\ auth' = NoAuth
  /\ become(p, Idling)
  /\ UNCHANGED <<serverVars, lock, lost, cut>>

----------------------------------------------------------------------------

Client(p) ==
  \/ Expire(p) \/ Renew(p) \/ GiveUpWaiting(p)
  \/ Granted(p) \/ Invalid(p) \/ Lost(p) \/ CutShort(p)
  \/ Login(p) \/ Save(p) \/ Logout(p) \/ Clear(p)

Server == (\E r \in Requests : Serve(r)) \/ Tick

Next ==
  \/ \E p \in Procs : Client(p)
  \/ Server /\ UNCHANGED clientVars

Spec == Init /\ [][Next]_vars
=============================================================================
