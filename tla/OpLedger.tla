------------------------------ MODULE OpLedger ------------------------------
(***************************************************************************)
(* What the outbox and the server together promise about each operation a  *)
(* client mints: it stays in the outbox until its verdict is known, is     *)
(* judged at most once, and leaves only as its verdict says, or because    *)
(* the request it travelled in was turned away whole.  Sync is shown to    *)
(* implement this.                                                         *)
(***************************************************************************)
CONSTANTS
  Ops,
  Unstorable  \* operations the database refuses to carry out

VARIABLES
  place,      \* where the client has it: unminted, pending, failed or absent
  effect,     \* the verdict the server recorded, or none
  turnedAway  \* input: operations of a request the server answered, unread,
              \* with a refusal the client has still to take in

Done == {"applied", "superseded"}
Refused == {"rejected", "conflict"}

Init ==
  /\ place = [op \in Ops |-> "unminted"]
  /\ effect = [op \in Ops |-> "none"]

Queued(op) ==
  /\ place[op] = "unminted"
  /\ place'[op] = "pending"
  /\ effect'[op] = effect[op]

\* Only an operation somebody minted is ever judged, and only once; one
\* the database refuses is never recorded as carried out.
Judged(op) ==
  /\ place[op] # "unminted"
  /\ effect[op] = "none"
  /\ effect'[op] \in Refused \cup (IF op \in Unstorable THEN {} ELSE Done)
  /\ place'[op] = place[op]

\* A pending operation leaves the outbox with a verdict; a refused one, and
\* one whose request was not even read, may wait there as failed until the
\* user has seen it.
Settled(op) ==
  /\ place[op] = "pending"
  /\ \/ effect[op] \in Done /\ place'[op] = "absent"
     \/ /\ effect[op] \in Refused \/ op \in Unstorable \cup turnedAway
        /\ place'[op] \in {"failed", "absent"}
  /\ effect'[op] = effect[op]

Dropped(op) ==
  /\ place[op] = "failed"
  /\ place'[op] = "absent"
  /\ effect'[op] = effect[op]

Unmoved(op) == place'[op] = place[op] /\ effect'[op] = effect[op]

\* One answer settles many operations at once.
Next ==
  \A op \in Ops :
    Queued(op) \/ Judged(op) \/ Settled(op) \/ Dropped(op) \/ Unmoved(op)

Spec == Init /\ [][Next]_<<place, effect>>
=============================================================================
