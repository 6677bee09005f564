---------------------------- MODULE SessionProofs ----------------------------
(***************************************************************************)
(* What holds of any number of clients.  Of processes that share a stored  *)
(* session: a lost answer and parallel renewals do not look like theft to  *)
(* the server, and only a sign-in puts a session in the store.  Of tabs    *)
(* that share a cookie: a refresh that an adopt has overtaken answers into *)
(* nothing, so a page that was signed out stays signed out until somebody  *)
(* signs in on it; and the cookie is one its session knows of.             *)
(***************************************************************************)
EXTENDS StoredSession, CookieSession, TLAPS

----------------------------------------------------------------------------
(* The invariant.                                                          *)

Token == [sid : Sids, generation : Nat]
Row == [exists : BOOLEAN, revoked : BOOLEAN, generation : Nat,
        rotatedAt : Nat \cup {Never}, lastUsedAt : Nat, createdAt : Nat]
Received == [at : {"lookup", "rotate", "expire", "reuse", "granted", "refused"},
             token : Token, sentAt : Nat, now : Nat]
Request == [at : {"sent"}, token : Token, sentAt : Nat] \cup Received
Process ==
  {Idling} \cup [pc : {"renew"}, refused : Nat]
    \cup [pc : {"asking"}, request : Requests, again : BOOLEAN]
    \cup [pc : {"save"}, token : Token, access : Nat] \cup [pc : {"clear"}]
Stored == [token : Token, access : Nat]

TypeOK ==
  /\ session \in [Sids -> Row]
  /\ requests \in [Requests -> Request \cup {NoRequest}]
  /\ open \in SUBSET Requests
  /\ clock \in Nat
  /\ auth \in Stored \cup {NoAuth}
  /\ lock \in Procs \cup {Free}
  /\ procs \in [Procs -> Process]
  /\ lost \in Nat
  /\ cut \in BOOLEAN

live == {r \in Requests : requests[r] # NoRequest}
asking(p) == procs[p].pc = "asking"
sid(r) == requests[r].token.sid
row(r) == session[sid(r)]

\* Whoever asks holds the lock, and has its one request open.
Locked ==
  /\ \A p \in Procs : asking(p) <=> lock = p
  /\ lock = Free => open = {}
  /\ \A p \in Procs : asking(p) =>
       /\ open = {procs[p].request}
       /\ procs[p].again => lost >= 1
       /\ auth # NoAuth
  /\ open \subseteq live
  /\ \A r \in live : requests[r].at \in {"sent", "granted", "refused"} => r \in open

\* Requests are answered or given up in time.
InTime ==
  /\ \A r \in live :
       /\ requests[r].sentAt <= clock
       /\ clock <= requests[r].sentAt + Timeout \/ clock <= requests[r].sentAt + Stall
       /\ r \in open => clock <= requests[r].sentAt + Timeout
       /\ requests[r].at # "sent" =>
            /\ requests[r].sentAt <= requests[r].now
            /\ requests[r].now <= requests[r].sentAt + Timeout
  /\ \A p \in Procs : procs[p].pc = "renew" => clock - procs[p].refused >= AccessLife

\* A session that is not stored yet is nobody else's and was not refreshed.
Unstored ==
  /\ \A r \in live : row(r).exists
  /\ auth # NoAuth => session[auth.token.sid].exists
  /\ \A p \in Procs : procs[p].pc = "save" =>
       LET s == procs[p].token.sid
       IN /\ session[s].exists
          /\ session[s].generation = procs[p].token.generation
          /\ auth # NoAuth => auth.token.sid # s
          /\ \A r \in live : sid(r) # s
          /\ \A q \in Procs \ {p} : procs[q].pc = "save" => procs[q].token.sid # s

Good == lost <= 1 /\ ~cut

\* The requests of a session carry one token, sent within Timeout of each other.
Together ==
  \A x, y \in live : sid(x) = sid(y) =>
    /\ requests[x].token = requests[y].token
    /\ requests[x].sentAt <= requests[y].sentAt + Timeout

\* A request's token is the session's, or the one before it for a while.
Recent ==
  \A r \in live :
    /\ \/ row(r).generation = requests[r].token.generation
       \/ /\ row(r).generation = requests[r].token.generation + 1
          /\ row(r).rotatedAt # Never
          /\ requests[r].sentAt <= row(r).rotatedAt + Timeout
    /\ requests[r].at = "granted" =>
         row(r).generation = requests[r].token.generation + 1
    /\ requests[r].at # "reuse"

\* Whoever asks presents the stored token, the first time as the only one.
Current ==
  \A p \in Procs : asking(p) =>
    LET r == procs[p].request
    IN /\ requests[r].token = auth.token
       /\ \A x \in live : sid(x) = sid(r) => requests[x].sentAt <= requests[r].sentAt
       /\ ~procs[p].again =>
            /\ \A x \in live \ {r} : sid(x) # sid(r)
            /\ row(r).generation = requests[r].token.generation + 1 =>
                 requests[r].sentAt <= row(r).rotatedAt

\* Between renewals the store holds the newest token, and what is still under
\* way presents the one before.
Settled ==
  lock = Free /\ auth # NoAuth =>
    /\ session[auth.token.sid].generation = auth.token.generation
    /\ \A x \in live : sid(x) = auth.token.sid =>
         /\ requests[x].token.generation + 1 = auth.token.generation
         /\ requests[x].sentAt <= auth.access

Orderly == Good => Together /\ Recent /\ Current /\ Settled

Inv == TypeOK /\ Locked /\ InTime /\ Unstored /\ Orderly

Assumptions == TimesAreNat /\ LifeOutlastsGrace /\ RetriesInTime /\ Free \notin Procs

----------------------------------------------------------------------------
(* Shapes.                                                                 *)

LEMMA Shapes ==
  ASSUME TypeOK
  PROVE  /\ \A r \in Requests : requests[r].at = "sent" =>
              requests[r] \in [at : {"sent"}, token : Token, sentAt : Nat]
         /\ \A r \in Requests :
              requests[r].at \in {"lookup", "rotate", "expire", "reuse", "granted", "refused"} =>
                requests[r] \in Received
         /\ \A r \in live :
              /\ requests[r] \in Request
              /\ requests[r].token \in Token /\ requests[r].sentAt \in Nat
              /\ sid(r) \in Sids /\ row(r) \in Row
         /\ \A r \in Requests : r \in live <=> requests[r].at # "free"
<1>1. \A r \in Requests : requests[r] \in Request \cup {NoRequest}
  BY DEF TypeOK
<1>2. NoRequest.at = "free"
  BY DEF NoRequest
<1>3. \A q \in Request : q.token \in Token /\ q.sentAt \in Nat /\ q.at # "free"
  BY DEF Request, Received
<1>4. \A q \in Received : q.at # "sent"
  BY DEF Received
<1>5. \A q \in Request : q.at = "sent" => q \in [at : {"sent"}, token : Token, sentAt : Nat]
  BY <1>4 DEF Request
<1>6. \A q \in Request : q.at # "sent" => q \in Received
  BY DEF Request
<1>7. \A k \in Token : k.sid \in Sids
  BY DEF Token
<1>8. session \in [Sids -> Row]
  BY DEF TypeOK
<1>9. \A r \in live : requests[r] \in Request
  BY <1>1 DEF live
<1>10. \A r \in Requests : r \in live <=> requests[r].at # "free"
  BY <1>1, <1>2, <1>3 DEF live
<1>11. \A r \in live : sid(r) \in Sids /\ row(r) \in Row
  BY <1>3, <1>7, <1>8, <1>9 DEF sid, row
<1>12. \A r \in Requests : requests[r].at # "free" => requests[r] \in Request
  BY <1>9, <1>10
<1> QED
  BY <1>3, <1>5, <1>6, <1>9, <1>10, <1>11, <1>12

LEMMA ProcessShapes ==
  ASSUME TypeOK, NEW p \in Procs
  PROVE  /\ asking(p) => procs[p].request \in Requests /\ procs[p].again \in BOOLEAN
         /\ procs[p].pc = "renew" => procs[p].refused \in Nat
         /\ procs[p].pc = "save" => procs[p].token \in Token /\ procs[p].access \in Nat
<1>1. procs[p] \in Process
  BY DEF TypeOK
<1>2. Idling.pc = "idle"
  BY DEF Idling
<1> QED
  BY <1>1, <1>2 DEF Process, asking

LEMMA AuthShape ==
  ASSUME TypeOK
  PROVE  /\ auth # NoAuth => auth.token \in Token /\ auth.access \in Nat /\ auth.token.sid \in Sids
         /\ auth.access \in Nat => auth # NoAuth
<1>1. auth \in Stored \cup {NoAuth}
  BY DEF TypeOK
<1>2. NoAuth.access \notin Nat
  BY DEF NoAuth, Never
<1> QED
  BY <1>1, <1>2 DEF Stored, Token

LEMMA InitInv ==
  ASSUME Assumptions, Init
  PROVE  Inv
<1> USE DEF Init, ServerInit
<1>1. live = {}
  BY DEF live
<1>2. \A p \in Procs : procs[p].pc = "idle"
  BY DEF Idling
<1>3. TypeOK
  <2>1. NoSession \in Row
    BY DEF NoSession, Row, Never
  <2>2. NoRequest \in Request \cup {NoRequest} /\ Idling \in Process
    BY DEF Process
  <2> QED
    BY <2>1, <2>2 DEF TypeOK, Assumptions
<1>4. Locked
  BY <1>1, <1>2, Zenon DEF Locked, asking, Assumptions
<1>5. InTime
  BY <1>1, <1>2 DEF InTime
<1>6. Unstored
  BY <1>1, <1>2 DEF Unstored
<1>7. Orderly
  BY <1>1, <1>2 DEF Orderly, Together, Recent, Current, Settled, asking
<1> QED
  BY <1>3, <1>4, <1>5, <1>6, <1>7 DEF Inv

----------------------------------------------------------------------------
(* Types.                                                                  *)

RequestsOK(f) == f \in [Requests -> Request \cup {NoRequest}]

LEMMA HangUpTypes ==
  ASSUME NEW R, TypeOK, R \subseteq Requests, hangUp(R)
  PROVE  RequestsOK(requests') /\ open' \in SUBSET Requests
<1>1. \A r \in Requests : requests[r] \in Request \cup {NoRequest} /\ ended(r) \in Request \cup {NoRequest}
  BY DEF TypeOK, ended
<1> QED
  BY <1>1 DEF hangUp, RequestsOK, TypeOK

LEMMA AskedType ==
  ASSUME TypeOK, NEW token \in Token
  PROVE  asked(token) \in Request
BY DEF asked, Request, TypeOK

LEMMA SendTypes ==
  ASSUME NEW r \in Requests, NEW token \in Token, TypeOK, send(r, token)
  PROVE  RequestsOK(requests') /\ open' \in SUBSET Requests
BY AskedType DEF send, RequestsOK, TypeOK

LEMMA ResendTypes ==
  ASSUME NEW r \in Requests, NEW q \in Requests, NEW token \in Token, TypeOK, resend(r, q, token)
  PROVE  RequestsOK(requests') /\ open' \in SUBSET Requests
<1>1. asked(token) \in Request
  BY AskedType
<1>2. ended(r) \in Request \cup {NoRequest}
  BY DEF TypeOK, ended
<1> QED
  BY <1>1, <1>2 DEF resend, RequestsOK, TypeOK

LEMMA BecomeTypes ==
  ASSUME NEW p \in Procs, NEW state \in Process, TypeOK, become(p, state)
  PROVE  procs' \in [Procs -> Process]
BY DEF become, TypeOK

LEMMA MarkedType ==
  ASSUME NEW r \in Requests, TypeOK, requests[r] \in Received,
         NEW at \in {"lookup", "rotate", "expire", "reuse", "granted", "refused"}
  PROVE  /\ [requests[r] EXCEPT !.at = at] \in Received
         /\ RequestsOK([requests EXCEPT ![r].at = at])
         /\ RequestsOK(concluded(r, at))
<1>1. [requests[r] EXCEPT !.at = at] \in Received
  BY DEF Received
<1>2. [requests[r] EXCEPT !.at = at] \in Request
  BY <1>1 DEF Request
<1> QED
  BY <1>1, <1>2 DEF RequestsOK, TypeOK, concluded

LEMMA ClientTypes ==
  ASSUME NEW p \in Procs, Inv, Client(p)
  PROVE  TypeOK'
<1> TypeOK /\ Locked
  BY DEF Inv
<1> USE ProcessShapes
<1>0. Idling \in Process
  BY DEF Process
<1>1. CASE Expire(p)
  <2>1. auth.access \in Nat
    BY <1>1, AuthShape DEF Expire
  <2>2. [pc |-> "renew", refused |-> auth.access] \in Process
    BY <2>1 DEF Process
  <2>3. procs' \in [Procs -> Process]
    BY <1>1, <2>2, BecomeTypes DEF Expire
  <2> QED
    BY <1>1, <2>3 DEF Expire, TypeOK, serverVars
<1>2. CASE Renew(p)
  <2>1. CASE auth.access # procs[p].refused
    <3>1. procs' \in [Procs -> Process]
      BY <1>0, <1>2, <2>1, BecomeTypes DEF Renew
    <3> QED
      BY <1>2, <2>1, <3>1 DEF Renew, TypeOK, serverVars
  <2>2. CASE auth.access = procs[p].refused
    <3>1. PICK r \in Requests : /\ send(r, auth.token)
                                /\ become(p, [pc |-> "asking", request |-> r, again |-> FALSE])
      BY <1>2, <2>2 DEF Renew
    <3>2. auth.token \in Token
      BY <1>2, <2>2, AuthShape DEF Renew
    <3>3. [pc |-> "asking", request |-> r, again |-> FALSE] \in Process
      BY DEF Process
    <3>4. procs' \in [Procs -> Process]
      BY <3>1, <3>3, BecomeTypes
    <3>5. RequestsOK(requests') /\ open' \in SUBSET Requests
      BY <3>1, <3>2, SendTypes
    <3> QED
      BY <1>2, <2>2, <3>4, <3>5 DEF Renew, TypeOK, RequestsOK
  <2> QED
    BY <2>1, <2>2
<1>3. CASE GiveUpWaiting(p)
  <2>1. procs' \in [Procs -> Process]
    BY <1>0, <1>3, BecomeTypes DEF GiveUpWaiting
  <2> QED
    BY <1>3, <2>1 DEF GiveUpWaiting, TypeOK, serverVars
<1>4. ASSUME asking(p), leave(p)
      PROVE  RequestsOK(requests') /\ open' \in SUBSET Requests /\ procs' \in [Procs -> Process]
             /\ session' = session /\ clock' = clock /\ lock' = Free
  <2>1. RequestsOK(requests') /\ open' \in SUBSET Requests
    BY <1>4, HangUpTypes DEF leave
  <2>2. procs' \in [Procs -> Process]
    BY <1>0, <1>4, BecomeTypes DEF leave
  <2> QED
    BY <1>4, <2>1, <2>2 DEF leave
<1>5. CASE Granted(p)
  <2> DEFINE r == procs[p].request
  <2>1. r \in Requests /\ requests[r].at = "granted" /\ asking(p)
    BY <1>5 DEF Granted, answered, asking
  <2>2. requests[r] \in Received
    BY <2>1, Shapes
  <2>3. answer(requests[r]) \in Token /\ requests[r].now \in Nat
    BY <2>2 DEF answer, Received, Token
  <2>4. auth' = [token |-> answer(requests[r]), access |-> requests[r].now]
    BY <1>5 DEF Granted
  <2>5. auth' \in Stored
    BY <2>3, <2>4 DEF Stored
  <2> QED
    BY <1>4, <1>5, <2>1, <2>5 DEF Granted, TypeOK, RequestsOK
<1>6. CASE Invalid(p)
  BY <1>4, <1>6 DEF Invalid, answered, asking, TypeOK, RequestsOK
<1>7. CASE Lost(p)
  <2>1. asking(p) /\ lost' \in Nat /\ auth' = auth /\ cut' = cut
    BY <1>7 DEF Lost, asking, TypeOK
  <2>2. CASE leave(p)
    BY <1>4, <2>1, <2>2 DEF TypeOK, RequestsOK
  <2>3. CASE ~leave(p)
    <3>1. PICK q \in Requests : /\ resend(procs[p].request, q, auth.token)
                                /\ become(p, [pc |-> "asking", request |-> q, again |-> TRUE])
      BY <1>7, <2>3 DEF Lost
    <3>2. UNCHANGED <<session, clock, lock>>
      BY <1>7, <2>3 DEF Lost
    <3>3. auth.token \in Token
      BY <2>1, AuthShape DEF Locked
    <3>4. RequestsOK(requests') /\ open' \in SUBSET Requests
      BY <2>1, <3>1, <3>3, ResendTypes
    <3>5. [pc |-> "asking", request |-> q, again |-> TRUE] \in Process
      BY DEF Process
    <3>6. procs' \in [Procs -> Process]
      BY <3>1, <3>5, BecomeTypes
    <3> QED
      BY <2>1, <3>2, <3>4, <3>6 DEF TypeOK, RequestsOK
  <2> QED
    BY <2>2, <2>3
<1>8. CASE CutShort(p)
  BY <1>4, <1>8 DEF CutShort, asking, TypeOK, RequestsOK
<1>9. CASE Login(p)
  <2>1. PICK s \in Sids : /\ start(s)
                          /\ become(p, [pc |-> "save", token |-> [sid |-> s, generation |-> 0],
                                        access |-> clock])
    BY <1>9 DEF Login
  <2>2. [NoSession EXCEPT !.exists = TRUE, !.lastUsedAt = clock, !.createdAt = clock] \in Row
    BY DEF NoSession, Row, TypeOK, Never
  <2>3. session' \in [Sids -> Row]
    BY <2>1, <2>2 DEF start, TypeOK
  <2>4. [pc |-> "save", token |-> [sid |-> s, generation |-> 0], access |-> clock] \in Process
    BY DEF Process, Token, TypeOK
  <2>5. procs' \in [Procs -> Process]
    BY <2>1, <2>4, BecomeTypes
  <2> QED
    BY <1>9, <2>3, <2>5 DEF Login, TypeOK
<1>10. CASE Save(p)
  <2>1. procs' \in [Procs -> Process]
    BY <1>0, <1>10, BecomeTypes DEF Save
  <2>2. auth' \in Stored
    BY <1>10 DEF Save, Stored
  <2> QED
    BY <1>10, <2>1, <2>2 DEF Save, TypeOK, serverVars
<1>11. CASE Logout(p)
  <2>1. auth.token.sid \in Sids
    BY <1>11, AuthShape DEF Logout
  <2>2. revoked(auth.token.sid) \in [Sids -> Row]
    BY <2>1 DEF revoked, TypeOK, Row
  <2>3. session' \in [Sids -> Row]
    BY <1>11, <2>2 DEF Logout, TypeOK
  <2>4. [pc |-> "clear"] \in Process
    BY DEF Process
  <2>5. procs' \in [Procs -> Process]
    BY <1>11, <2>4, BecomeTypes DEF Logout
  <2> QED
    BY <1>11, <2>3, <2>5 DEF Logout, TypeOK
<1>12. CASE Clear(p)
  <2>1. procs' \in [Procs -> Process]
    BY <1>0, <1>12, BecomeTypes DEF Clear
  <2> QED
    BY <1>12, <2>1 DEF Clear, TypeOK, serverVars
<1> QED
  BY <1>1, <1>2, <1>3, <1>5, <1>6, <1>7, <1>8, <1>9, <1>10, <1>11, <1>12 DEF Client

LEMMA ServerTypes ==
  ASSUME Inv, Server, UNCHANGED clientVars
  PROVE  TypeOK'
<1> TypeOK
  BY DEF Inv
<1> SUFFICES /\ session' \in [Sids -> Row]
             /\ RequestsOK(requests')
             /\ open' \in SUBSET Requests
             /\ clock' \in Nat
  BY DEF TypeOK, RequestsOK, clientVars
<1>1. ASSUME NEW r \in Requests, Receive(r)
      PROVE  RequestsOK(requests')
  <2>1. requests[r].token \in Token /\ requests[r].sentAt \in Nat /\ clock \in Nat
    BY <1>1, Shapes DEF Receive, TypeOK
  <2> DEFINE x == [at |-> IF requests[r].token = NoToken THEN "refused" ELSE "lookup",
                   token |-> requests[r].token, sentAt |-> requests[r].sentAt, now |-> clock]
  <2>2. x \in Request
    BY <2>1 DEF Request, Received
  <2>3. requests' = [requests EXCEPT ![r] = x]
    BY <1>1 DEF Receive
  <2> HIDE DEF x
  <2> QED
    BY <2>2, <2>3 DEF RequestsOK, TypeOK
<1>2. ASSUME NEW r \in Requests, Lookup(r)
      PROVE  RequestsOK(requests')
  <2>1. requests[r] \in Received
    BY <1>2, Shapes DEF Lookup
  <2> QED
    BY <1>2, <2>1, MarkedType DEF Lookup
<1>3. ASSUME NEW r \in Requests, Rotate(r)
      PROVE  RequestsOK(requests') /\ session' \in [Sids -> Row]
  <2>1. requests[r] \in Received /\ sid(r) \in Sids /\ r \in live
    BY <1>3, Shapes DEF Rotate
  <2>2. RequestsOK(requests')
    BY <1>3, <2>1, MarkedType DEF Rotate
  <2>3. requests[r].now \in Nat
    BY <2>1 DEF Received
  <2>4. CASE session' = session
    BY <2>2, <2>4 DEF TypeOK
  <2>5. CASE session' # session
    <3>1. session' = [session EXCEPT ![sid(r)].generation = @ + 1,
                                     ![sid(r)].rotatedAt = requests[r].now,
                                     ![sid(r)].lastUsedAt = requests[r].now]
      BY <1>3, <2>5 DEF Rotate, sid
    <3>2. session[sid(r)] \in Row
      BY <2>1 DEF TypeOK
    <3>3. [session[sid(r)] EXCEPT !.generation = @ + 1, !.rotatedAt = requests[r].now,
                                  !.lastUsedAt = requests[r].now] \in Row
      <4>1. \A w \in Row, g \in Nat, n \in Nat :
              [w EXCEPT !.generation = g, !.rotatedAt = n, !.lastUsedAt = n] \in Row
        BY DEF Row
      <4>2. session[sid(r)].generation + 1 \in Nat
        BY <3>2 DEF Row
      <4> QED
        BY <2>3, <3>2, <4>1, <4>2
    <3>4. session' = [session EXCEPT ![sid(r)] =
             [session[sid(r)] EXCEPT !.generation = @ + 1, !.rotatedAt = requests[r].now,
                                     !.lastUsedAt = requests[r].now]]
      BY <2>1, <3>1 DEF TypeOK
    <3> QED
      BY <2>2, <3>3, <3>4 DEF TypeOK
  <2> QED
    BY <2>4, <2>5
<1>4. ASSUME NEW r \in Requests, RevokeById(r)
      PROVE  RequestsOK(requests') /\ session' \in [Sids -> Row]
  <2>1. requests[r] \in Received /\ sid(r) \in Sids /\ r \in live
    BY <1>4, Shapes DEF RevokeById
  <2>2. RequestsOK(requests')
    BY <1>4, <2>1, MarkedType DEF RevokeById
  <2>3. session' \in [Sids -> Row]
    BY <1>4, <2>1 DEF RevokeById, revoked, TypeOK, Row, sid
  <2> QED
    BY <2>2, <2>3
<1>5. CASE Tick
  BY <1>5 DEF Tick, TypeOK, RequestsOK
<1>6. ASSUME NEW r \in Requests, Serve(r)
      PROVE  session' \in [Sids -> Row] /\ RequestsOK(requests')
  <2>1. CASE Receive(r)
    BY <1>1, <2>1 DEF Receive, TypeOK
  <2>2. CASE Lookup(r)
    BY <1>2, <2>2 DEF Lookup, TypeOK
  <2> QED
    BY <1>3, <1>4, <1>6, <2>1, <2>2 DEF Serve
<1>7. ASSUME NEW r \in Requests, Serve(r)
      PROVE  open' = open /\ clock' = clock
  BY <1>7 DEF Serve, Receive, Lookup, Rotate, RevokeById
<1> QED
  BY <1>5, <1>6, <1>7 DEF Server, TypeOK

----------------------------------------------------------------------------
(* What a step does to the requests.                                       *)

Waiting == {"sent", "granted", "refused"}  \* what ends when nobody waits

\* r is the request it was, further on perhaps.
Same(r) ==
  /\ r \in live
  /\ requests'[r].token = requests[r].token
  /\ requests'[r].sentAt = requests[r].sentAt

LEMMA HangUpLive ==
  ASSUME NEW R, TypeOK, R \subseteq Requests, hangUp(R)
  PROVE  /\ open' = open \ R
         /\ \A x \in live' : x \in live /\ requests'[x] = requests[x]
         /\ \A x \in live' : x \in R => requests[x].at \notin Waiting
         /\ \A x \in live : x \notin R => x \in live'
BY DEF hangUp, live, ended, Waiting, TypeOK

LEMMA SendLive ==
  ASSUME NEW r \in Requests, NEW token \in Token, TypeOK, send(r, token)
  PROVE  /\ open' = open \cup {r}
         /\ r \notin live /\ live' = live \cup {r}
         /\ requests'[r] = asked(token)
         /\ \A x \in live : requests'[x] = requests[x]
<1>1. asked(token) # NoRequest
  BY DEF asked, NoRequest
<1> QED
  BY <1>1 DEF send, live, TypeOK

LEMMA ResendLive ==
  ASSUME NEW r \in live, NEW q \in Requests, NEW token \in Token, TypeOK, resend(r, q, token)
  PROVE  /\ open' = (open \ {r}) \cup {q}
         /\ q \notin live /\ q \in live'
         /\ requests'[q] = asked(token)
         /\ \A x \in live' \ {q} : x \in live /\ requests'[x] = requests[x]
         /\ r \in live' => requests[r].at \notin Waiting
         /\ \A x \in live : x # r => x \in live'
<1>1. asked(token) # NoRequest
  BY DEF asked, NoRequest
<1>2. r # q /\ r \in Requests
  BY DEF resend, live
<1>3. \A x \in Requests : requests'[x] = IF x = q THEN asked(token)
                                         ELSE IF x = r THEN ended(r) ELSE requests[x]
  BY <1>2 DEF resend, TypeOK
<1> QED
  BY <1>1, <1>2, <1>3 DEF resend, live, ended, Waiting

marked(r, at) == [requests EXCEPT ![r].at = at]

LEMMA MarkedLive ==
  ASSUME NEW r \in Requests, NEW at, TypeOK, requests[r] \in Received, at # "free"
  PROVE  /\ marked(r, at)[r] # NoRequest
         /\ \A x \in Requests \ {r} : marked(r, at)[x] = requests[x]
         /\ r \in open => concluded(r, at) = marked(r, at)
         /\ r \notin open => concluded(r, at) = [requests EXCEPT ![r] = NoRequest]
         /\ marked(r, at)[r].at = at
         /\ marked(r, at)[r].token = requests[r].token
         /\ marked(r, at)[r].sentAt = requests[r].sentAt
         /\ marked(r, at)[r].now = requests[r].now
<1> USE DEF marked
<1>1. [requests[r] EXCEPT !.at = at].at = at
  BY DEF Received
<1>2. [requests[r] EXCEPT !.at = at] # NoRequest
  BY <1>1 DEF NoRequest
<1> QED
  BY <1>1, <1>2 DEF Received, TypeOK, concluded

\* The server goes on with a request, or is done with one nobody waits for.
Served(r) ==
  /\ r \in live
  /\ \A x \in Requests \ {r} : requests'[x] = requests[x]
  /\ r \in open => r \in live'
  /\ r \in live' =>
       /\ Same(r)
       /\ requests'[r].at # "sent"
       /\ requests'[r].at \in Waiting => r \in open
       /\ \/ requests[r].at = "sent" /\ requests'[r].now = clock
          \/ requests[r].at # "sent" /\ requests'[r].now = requests[r].now
  /\ open' = open /\ clock' = clock

LEMMA ServeLive ==
  ASSUME NEW r \in Requests, Inv, Serve(r)
  PROVE  Served(r)
<1> TypeOK /\ Locked
  BY DEF Inv
<1>0. open' = open /\ clock' = clock
  BY DEF Serve, Receive, Lookup, Rotate, RevokeById
<1>1. ASSUME requests[r] \in Received, r \in live,
             NEW at \in {"lookup", "rotate", "expire", "reuse", "granted", "refused"},
             \/ requests' = concluded(r, at)
             \/ requests' = marked(r, at) /\ at \notin Waiting
      PROVE  Served(r)
  <2>1. requests[r].at # "sent"
    BY <1>1 DEF Received
  <2>5. at # "free" /\ requests[r] \in Received /\ TypeOK
    BY <1>1
  <2>2. CASE requests' = marked(r, at) /\ (r \in open \/ at \notin Waiting)
    <3>1. /\ requests'[r] # NoRequest
          /\ \A x \in Requests \ {r} : requests'[x] = requests[x]
          /\ requests'[r].at = at
          /\ requests'[r].token = requests[r].token
          /\ requests'[r].sentAt = requests[r].sentAt
          /\ requests'[r].now = requests[r].now
      BY <2>2, <2>5, MarkedLive
    <3> QED
      BY <1>0, <1>1, <2>1, <2>2, <3>1 DEF Served, Same, live
  <2>3. CASE requests' = concluded(r, at) /\ r \notin open
    <3>1. requests' = [requests EXCEPT ![r] = NoRequest]
      BY <1>1, <2>3, MarkedLive
    <3>2. r \notin live' /\ \A x \in Requests \ {r} : requests'[x] = requests[x]
      BY <3>1 DEF live, TypeOK
    <3> QED
      BY <1>0, <1>1, <2>3, <3>2 DEF Served
  <2>4. requests' = concluded(r, at) /\ r \in open => requests' = marked(r, at)
    BY <2>5, MarkedLive
  <2> QED
    BY <1>1, <2>2, <2>3, <2>4
<1>2. CASE Receive(r)
  <2>1. r \in live /\ requests[r].at = "sent"
    BY <1>2, Shapes DEF Receive
  <2>2. r \in open
    BY <2>1 DEF Locked
  <2>3. requests' = [requests EXCEPT ![r] =
          [at |-> IF requests[r].token = NoToken THEN "refused" ELSE "lookup",
           token |-> requests[r].token, sentAt |-> requests[r].sentAt, now |-> clock]]
    BY <1>2 DEF Receive
  <2>4. /\ requests'[r] = [at |-> IF requests[r].token = NoToken THEN "refused" ELSE "lookup",
                           token |-> requests[r].token, sentAt |-> requests[r].sentAt,
                           now |-> clock]
        /\ \A x \in Requests \ {r} : requests'[x] = requests[x]
    BY <2>3 DEF TypeOK
  <2>5. /\ requests'[r].at # "sent" /\ requests'[r].at # "free"
        /\ requests'[r].token = requests[r].token
        /\ requests'[r].sentAt = requests[r].sentAt
        /\ requests'[r].now = clock
    BY <2>4
  <2>6. requests'[r] # NoRequest
    BY <2>5 DEF NoRequest
  <2> QED
    BY <1>0, <2>1, <2>2, <2>4, <2>5, <2>6 DEF Served, Same, live
<1>3. CASE Lookup(r)
  <2>1. requests[r] \in Received /\ r \in live
    BY <1>3, Shapes DEF Lookup
  <2> QED
    BY <1>1, <1>3, <2>1 DEF Lookup, Waiting, marked
<1>4. CASE Rotate(r)
  <2>1. requests[r] \in Received /\ r \in live
    BY <1>4, Shapes DEF Rotate
  <2> QED
    BY <1>1, <1>4, <2>1 DEF Rotate, Waiting, marked
<1>5. CASE RevokeById(r)
  <2>1. requests[r] \in Received /\ r \in live
    BY <1>5, Shapes DEF RevokeById
  <2> QED
    BY <1>1, <1>5, <2>1 DEF RevokeById, Waiting
<1> QED
  BY <1>2, <1>3, <1>4, <1>5 DEF Serve

\* What a step of the server does to the rows, and what that makes of r.
Moved(r) ==
  /\ requests[r].at = "rotate"
  /\ row(r).generation = requests[r].token.generation
  /\ session'[sid(r)].generation = row(r).generation + 1
  /\ session'[sid(r)].rotatedAt = requests[r].now
  /\ r \in live' => requests'[r].at = "granted"

Stayed(r) ==
  /\ session'[sid(r)].generation = row(r).generation
  /\ session'[sid(r)].rotatedAt = row(r).rotatedAt
  /\ r \in live' /\ requests'[r].at = "granted" =>
       requests[r].at = "lookup" /\ graced(row(r), requests[r].token, requests[r].now)
  /\ r \in live' /\ requests'[r].at = "reuse" =>
       /\ requests[r].at = "lookup"
       /\ requests[r].token.generation # row(r).generation
       /\ ~graced(row(r), requests[r].token, requests[r].now)

LEMMA ServeRows ==
  ASSUME NEW r \in Requests, Inv, Serve(r)
  PROVE  /\ r \in live /\ sid(r) \in Sids
         /\ \A s \in Sids : session'[s].exists = session[s].exists
         /\ \A s \in Sids \ {sid(r)} : session'[s] = session[s]
         /\ Moved(r) \/ Stayed(r)
<1> TypeOK /\ Locked
  BY DEF Inv
<1>0. r \in live /\ sid(r) \in Sids /\ row(r) \in Row
  BY ServeLive, Shapes DEF Served
<1>1. CASE Receive(r)
  <2>1. requests'[r].at \notin {"granted", "reuse"}
    BY <1>1 DEF Receive, TypeOK
  <2>2. session' = session
    BY <1>1 DEF Receive
  <2> QED
    BY <1>0, <2>1, <2>2 DEF Stayed, row
<1>2. ASSUME requests[r] \in Received, NEW at, at # "free",
             requests' = marked(r, at) \/ requests' = concluded(r, at)
      PROVE  r \in live' => requests'[r].at = at
  <2>1. CASE requests' = marked(r, at)
    BY <1>2, <2>1, MarkedLive
  <2>2. CASE requests' = concluded(r, at) /\ r \in open
    BY <1>2, <2>2, MarkedLive
  <2>3. CASE requests' = concluded(r, at) /\ r \notin open
    <3>1. requests' = [requests EXCEPT ![r] = NoRequest]
      BY <1>2, <2>3, MarkedLive
    <3> QED
      BY <3>1 DEF live, TypeOK
  <2> QED
    BY <1>2, <2>1, <2>2, <2>3
<1>3. CASE Lookup(r)
  <2>1. requests[r] \in Received /\ requests[r].at = "lookup" /\ session' = session
    BY <1>3, Shapes DEF Lookup
  <2>2. \/ requests' = concluded(r, "refused")
        \/ requests' = marked(r, "expire")
        \/ requests' = marked(r, "rotate")
        \/ /\ graced(row(r), requests[r].token, requests[r].now)
           /\ requests' = concluded(r, "granted")
        \/ /\ requests[r].token.generation # row(r).generation
           /\ ~graced(row(r), requests[r].token, requests[r].now)
           /\ requests' = marked(r, "reuse")
    BY <1>3 DEF Lookup, marked, row, sid
  <2>3. Stayed(r)
    <3>1. CASE requests' = concluded(r, "refused")
      BY <1>2, <2>1, <3>1 DEF Stayed, row
    <3>2. CASE requests' = marked(r, "expire")
      BY <1>2, <2>1, <3>2 DEF Stayed, row
    <3>3. CASE requests' = marked(r, "rotate")
      BY <1>2, <2>1, <3>3 DEF Stayed, row
    <3>4. CASE /\ graced(row(r), requests[r].token, requests[r].now)
               /\ requests' = concluded(r, "granted")
      BY <1>2, <2>1, <3>4 DEF Stayed, row
    <3>5. CASE /\ requests[r].token.generation # row(r).generation
               /\ ~graced(row(r), requests[r].token, requests[r].now)
               /\ requests' = marked(r, "reuse")
      BY <1>2, <2>1, <3>5 DEF Stayed, row
    <3> QED
      BY <2>2, <3>1, <3>2, <3>3, <3>4, <3>5
  <2> QED
    BY <1>0, <2>1, <2>3
<1>4. CASE Rotate(r)
  <2>1. requests[r] \in Received /\ requests[r].at = "rotate"
    BY <1>4, Shapes DEF Rotate
  <2>2. CASE requests' = marked(r, "lookup") /\ session' = session
    <3>1. r \in live' => requests'[r].at = "lookup"
      BY <1>2, <2>1, <2>2
    <3> QED
      BY <1>0, <2>2, <3>1 DEF Stayed, row
  <2>3. CASE ~(requests' = marked(r, "lookup") /\ session' = session)
    <3>1. /\ row(r).generation = requests[r].token.generation
          /\ session' = [session EXCEPT ![sid(r)].generation = @ + 1,
                                        ![sid(r)].rotatedAt = requests[r].now,
                                        ![sid(r)].lastUsedAt = requests[r].now]
          /\ requests' = concluded(r, "granted")
      BY <1>4, <2>3 DEF Rotate, row, sid, marked
    <3>2. r \in live' => requests'[r].at = "granted"
      BY <1>2, <2>1, <3>1
    <3>3. /\ \A s \in Sids \ {sid(r)} : session'[s] = session[s]
          /\ session'[sid(r)].exists = session[sid(r)].exists
          /\ session'[sid(r)].generation = session[sid(r)].generation + 1
          /\ session'[sid(r)].rotatedAt = requests[r].now
      BY <1>0, <3>1 DEF TypeOK, Row
    <3> QED
      BY <1>0, <2>1, <3>1, <3>2, <3>3 DEF Moved, row
  <2> QED
    BY <2>2, <2>3
<1>5. CASE RevokeById(r)
  <2>1. requests[r] \in Received
    BY <1>5, Shapes DEF RevokeById
  <2>2. requests' = concluded(r, "refused") /\ session' = [session EXCEPT ![sid(r)].revoked = TRUE]
    BY <1>5 DEF RevokeById, revoked, sid
  <2>3. r \in live' => requests'[r].at = "refused"
    BY <1>2, <2>1, <2>2
  <2>4. /\ \A s \in Sids \ {sid(r)} : session'[s] = session[s]
        /\ session'[sid(r)].exists = session[sid(r)].exists
        /\ session'[sid(r)].generation = session[sid(r)].generation
        /\ session'[sid(r)].rotatedAt = session[sid(r)].rotatedAt
    BY <1>0, <2>2 DEF TypeOK, Row
  <2> QED
    BY <1>0, <2>3, <2>4 DEF Stayed, row
<1> QED
  BY <1>1, <1>3, <1>4, <1>5 DEF Serve

----------------------------------------------------------------------------
(* The server keeps the invariant.                                         *)

LEMMA ServerLocked ==
  ASSUME Inv, Server, UNCHANGED clientVars
  PROVE  Locked'
<1> TypeOK /\ Locked
  BY DEF Inv
<1> UNCHANGED <<auth, lock, procs, lost, cut>>
  BY DEF clientVars
<1>1. CASE Tick
  <2>1. live' = live /\ requests' = requests /\ open' = open
    BY <1>1 DEF Tick, live
  <2> QED
    BY <2>1 DEF Locked, asking
<1>2. ASSUME NEW r \in Requests, Serve(r)
      PROVE  Locked'
  <2>1. Served(r)
    BY <1>2, ServeLive
  <2>2. \A x \in live : x # r => x \in live' /\ requests'[x] = requests[x]
    BY <2>1 DEF Served, live
  <2>3. \A x \in live' : x # r => x \in live
    BY <2>1 DEF Served, live
  <2>4. \A x \in live' : requests'[x].at \in Waiting => x \in open
    BY <2>1, <2>2, <2>3 DEF Served, Locked, Waiting
  <2>5. open' = open /\ open \subseteq live'
    BY <2>1, <2>2 DEF Served, Locked
  <2> QED
    BY <2>4, <2>5 DEF Locked, asking, Waiting
<1> QED
  BY <1>1, <1>2 DEF Server

LEMMA ServerInTime ==
  ASSUME Assumptions, Inv, Server, UNCHANGED clientVars
  PROVE  InTime'
<1> TypeOK /\ Locked /\ InTime
  BY DEF Inv
<1> UNCHANGED <<auth, lock, procs, lost, cut>>
  BY DEF clientVars
<1>0. Timeout \in Nat /\ Stall \in Nat /\ AccessLife \in Nat
  BY DEF Assumptions, TimesAreNat, LifeOutlastsGrace
<1>1. CASE Tick
  <2>1. live' = live /\ requests' = requests /\ open' = open /\ clock' = clock + 1 /\ clock \in Nat
    BY <1>1 DEF Tick, live, TypeOK
  <2>2. \A x \in live : /\ x \in open => clock < requests[x].sentAt + Timeout
                        /\ x \notin open => clock < requests[x].sentAt + Stall
    BY <1>1 DEF Tick, live
  <2>3. \A x \in live : requests[x].sentAt \in Nat
    BY Shapes
  <2>4. \A p \in Procs : procs[p].pc = "renew" => procs[p].refused \in Nat
    BY ProcessShapes
  <2>5. \A p \in Procs : procs'[p].pc = "renew" => clock' - procs'[p].refused >= AccessLife
    BY <1>0, <2>1, <2>4 DEF InTime
  <2>6. \A x \in live : /\ requests[x].sentAt <= clock'
                        /\ clock' <= requests[x].sentAt + Timeout \/ clock' <= requests[x].sentAt + Stall
                        /\ x \in open => clock' <= requests[x].sentAt + Timeout
    BY <1>0, <2>1, <2>2, <2>3 DEF InTime
  <2> QED
    BY <2>1, <2>5, <2>6 DEF InTime
<1>2. ASSUME NEW r \in Requests, Serve(r)
      PROVE  InTime'
  <2>1. Served(r)
    BY <1>2, ServeLive
  <2>2. \A x \in live' : x # r => x \in live /\ requests'[x] = requests[x]
    BY <2>1 DEF Served, live
  <2>3. clock' = clock /\ open' = open
    BY <2>1 DEF Served
  <2>4. requests[r].at = "sent" => r \in open
    BY <2>1 DEF Served, Locked
  <2>5. \A x \in live' :
          /\ requests'[x].sentAt <= clock'
          /\ clock' <= requests'[x].sentAt + Timeout \/ clock' <= requests'[x].sentAt + Stall
          /\ x \in open' => clock' <= requests'[x].sentAt + Timeout
          /\ requests'[x].at # "sent" =>
               /\ requests'[x].sentAt <= requests'[x].now
               /\ requests'[x].now <= requests'[x].sentAt + Timeout
    <3> TAKE x \in live'
    <3>1. CASE x # r
      BY <2>2, <2>3, <3>1 DEF InTime
    <3>2. CASE x = r
      BY <2>1, <2>3, <2>4, <3>2 DEF Served, Same, InTime
    <3> QED
      BY <3>1, <3>2
  <2> QED
    BY <2>3, <2>5 DEF InTime
<1> QED
  BY <1>1, <1>2 DEF Server

LEMMA ServerUnstored ==
  ASSUME Inv, Server, UNCHANGED clientVars
  PROVE  Unstored'
<1> TypeOK /\ Locked /\ Unstored
  BY DEF Inv
<1> UNCHANGED <<auth, lock, procs, lost, cut>>
  BY DEF clientVars
<1>1. CASE Tick
  <2>1. live' = live /\ requests' = requests /\ session' = session
    BY <1>1 DEF Tick, live
  <2> QED
    BY <2>1 DEF Unstored, row, sid
<1>2. ASSUME NEW r \in Requests, Serve(r)
      PROVE  Unstored'
  <2>1. Served(r) /\ r \in live
    BY <1>2, ServeLive DEF Served
  <2>2. \A x \in live' : x \in live /\ requests'[x].token = requests[x].token
    BY <2>1 DEF Served, live, Same
  <2>3. /\ \A s \in Sids : session'[s].exists = session[s].exists
        /\ \A s \in Sids \ {sid(r)} : session'[s] = session[s]
    BY <1>2, ServeRows
  <2>4. \A x \in live' : sid(x)' = sid(x) /\ sid(x) \in Sids
    BY <2>2, Shapes DEF sid
  <2>5. \A x \in live' : row(x)'.exists
    BY <2>2, <2>3, <2>4 DEF Unstored, row
  <2>6. auth # NoAuth => session'[auth.token.sid].exists
    BY <2>3, AuthShape DEF Unstored
  <2>7. \A p \in Procs : procs[p].pc = "save" =>
          /\ procs[p].token.sid \in Sids
          /\ session'[procs[p].token.sid] = session[procs[p].token.sid]
    BY <2>1, <2>3, ProcessShapes DEF Unstored, Token
  <2> QED
    BY <2>2, <2>4, <2>5, <2>6, <2>7 DEF Unstored
<1> QED
  BY <1>1, <1>2 DEF Server

LEMMA ServerOrderly ==
  ASSUME Assumptions, Inv, Server, UNCHANGED clientVars
  PROVE  Orderly'
<1> TypeOK /\ Locked /\ InTime /\ Orderly
  BY DEF Inv
<1> UNCHANGED <<auth, lock, procs, lost, cut>>
  BY DEF clientVars
<1> SUFFICES ASSUME Good PROVE (Together /\ Recent /\ Current /\ Settled)'
  BY DEF Orderly, Good
<1> Together /\ Recent /\ Current /\ Settled
  BY DEF Orderly
<1>0. Timeout \in Nat /\ Grace \in Nat /\ 2 * Timeout <= Grace
  BY DEF Assumptions, TimesAreNat, RetriesInTime
<1>1. CASE Tick
  <2>1. live' = live /\ requests' = requests /\ session' = session
    BY <1>1 DEF Tick, live
  <2> QED
    BY <2>1 DEF Together, Recent, Current, Settled, row, sid, asking
<1>2. ASSUME NEW r \in Requests, Serve(r)
      PROVE  (Together /\ Recent /\ Current /\ Settled)'
  <2>1. Served(r) /\ r \in live
    BY <1>2, ServeLive DEF Served
  <2>2. \A x \in live' : /\ x \in live
                         /\ requests'[x].token = requests[x].token
                         /\ requests'[x].sentAt = requests[x].sentAt
                         /\ x # r => requests'[x] = requests[x]
    BY <2>1 DEF Served, live, Same
  <2>3. /\ \A s \in Sids \ {sid(r)} : session'[s] = session[s]
        /\ Moved(r) \/ Stayed(r)
        /\ sid(r) \in Sids
    BY <1>2, ServeRows
  <2>4. \A x \in live' : sid(x)' = sid(x) /\ sid(x) \in Sids
    BY <2>2, Shapes DEF sid
  <2>5. \A x \in live : /\ requests[x].sentAt \in Nat /\ requests[x].token.generation \in Nat
                        /\ row(x) \in Row
    BY Shapes DEF Token
  <2>6. \A w \in Row : w.generation \in Nat /\ w.rotatedAt \in Nat \cup {Never}
    BY DEF Row
  <2>7. requests[r].at # "sent" => requests[r].now \in Nat
    <3>1. requests[r] \in Request
      BY <2>1, Shapes
    <3> QED
      BY <3>1 DEF Request, Received
  <2>8. requests[r].at # "sent" => /\ requests[r].sentAt <= requests[r].now
                                   /\ requests[r].now <= requests[r].sentAt + Timeout
    BY <2>1 DEF InTime
  <2>9. Together'
    BY <2>2, <2>4 DEF Together
  <2>10. \A x \in live' : sid(x) # sid(r) => row(x)' = row(x)
    BY <2>2, <2>3, <2>4 DEF row
  <2>11. \A x \in live' : sid(x) = sid(r) => row(x)' = session'[sid(r)]
    BY <2>2, <2>4 DEF row
  <2>12. Never \notin Nat
    BY DEF Never
  <2>13. Recent'
    <3> SUFFICES ASSUME NEW x \in live'
                 PROVE  /\ \/ row(x)'.generation = requests[x].token.generation
                           \/ /\ row(x)'.generation = requests[x].token.generation + 1
                              /\ row(x)'.rotatedAt # Never
                              /\ requests[x].sentAt <= row(x)'.rotatedAt + Timeout
                        /\ requests'[x].at = "granted" =>
                             row(x)'.generation = requests[x].token.generation + 1
                        /\ requests'[x].at # "reuse"
      BY <2>2 DEF Recent
    <3>0. x \in live
      BY <2>2
    <3>1. CASE sid(x) # sid(r)
      <4>1. x # r /\ requests'[x] = requests[x] /\ row(x)' = row(x)
        BY <2>2, <2>10, <3>1
      <4> QED
        BY <3>0, <4>1 DEF Recent
    <3>2. CASE sid(x) = sid(r) /\ Moved(r)
      <4>1. /\ requests[x].token = requests[r].token
            /\ requests[x].sentAt <= requests[r].sentAt + Timeout
        BY <2>1, <3>0, <3>2 DEF Together
      <4>2. /\ row(x)'.generation = requests[x].token.generation + 1
            /\ row(x)'.rotatedAt = requests[r].now
        BY <2>11, <3>2, <4>1 DEF Moved
      <4>3. requests[r].at = "rotate"
        BY <3>2 DEF Moved
      <4>4. row(x)'.rotatedAt # Never /\ requests[x].sentAt <= row(x)'.rotatedAt + Timeout
        BY <1>0, <2>1, <2>5, <2>7, <2>8, <2>12, <3>0, <4>1, <4>2, <4>3
      <4>5. requests'[x].at # "reuse"
        BY <2>2, <3>0, <3>2 DEF Moved, Recent
      <4> QED
        BY <4>2, <4>4, <4>5
    <3>3. CASE sid(x) = sid(r) /\ Stayed(r)
      <4>1. row(x) = row(r)
        BY <3>3 DEF row
      <4>2. row(x)'.generation = row(x).generation /\ row(x)'.rotatedAt = row(x).rotatedAt
        BY <2>11, <3>3, <4>1 DEF Stayed
      <4>3. \/ row(x)'.generation = requests[x].token.generation
            \/ /\ row(x)'.generation = requests[x].token.generation + 1
               /\ row(x)'.rotatedAt # Never
               /\ requests[x].sentAt <= row(x)'.rotatedAt + Timeout
        BY <3>0, <4>2 DEF Recent
      <4>4. CASE x # r
        BY <2>2, <3>0, <4>2, <4>3, <4>4 DEF Recent
      <4>5. CASE x = r
        <5>1. requests'[r].at = "granted" => row(r).generation = requests[r].token.generation + 1
          BY <2>1, <2>5, <2>6, <3>3, <4>5 DEF Stayed, graced
        <5>2. requests'[r].at # "reuse"
          <6> SUFFICES ASSUME requests'[r].at = "reuse" PROVE FALSE
            OBVIOUS
          <6>1. /\ requests[r].at = "lookup"
                /\ requests[r].token.generation # row(r).generation
                /\ ~graced(row(r), requests[r].token, requests[r].now)
            BY <3>3, <4>5 DEF Stayed
          <6>2. /\ row(r).generation = requests[r].token.generation + 1
                /\ row(r).rotatedAt # Never
                /\ requests[r].sentAt <= row(r).rotatedAt + Timeout
            BY <2>1, <6>1 DEF Recent
          <6>3. requests[r].now - row(r).rotatedAt <= Grace
            BY <1>0, <2>1, <2>5, <2>6, <2>7, <2>8, <6>1, <6>2
          <6> QED
            BY <2>1, <2>5, <2>6, <6>1, <6>2, <6>3 DEF graced
        <5> QED
          BY <4>2, <4>3, <4>5, <5>1, <5>2
      <4> QED
        BY <4>4, <4>5
    <3> QED
      BY <2>3, <3>1, <3>2, <3>3
  <2>14. Current'
    <3> SUFFICES ASSUME NEW p \in Procs, asking(p), NEW r0, r0 = procs[p].request
                 PROVE  /\ requests'[r0].token = auth.token
                        /\ \A x \in live' : sid(x)' = sid(r0)' =>
                             requests'[x].sentAt <= requests'[r0].sentAt
                        /\ ~procs[p].again =>
                             /\ \A x \in live' \ {r0} : sid(x)' # sid(r0)'
                             /\ row(r0)'.generation = requests'[r0].token.generation + 1 =>
                                  requests'[r0].sentAt <= row(r0)'.rotatedAt
      BY DEF Current, asking
    <3>1. r0 \in live /\ r0 \in live'
      <4>1. r0 \in open /\ r0 \in live
        BY DEF Locked
      <4> QED
        BY <2>1, <4>1 DEF Served, live
    <3>2. /\ requests'[r0].token = auth.token
          /\ \A x \in live' : sid(x)' = sid(r0)' =>
               requests'[x].sentAt <= requests'[r0].sentAt
      BY <2>2, <2>4, <3>1 DEF Current
    <3>3. ASSUME ~procs[p].again
          PROVE  /\ \A x \in live' \ {r0} : sid(x)' # sid(r0)'
                 /\ row(r0)'.generation = requests'[r0].token.generation + 1 =>
                      requests'[r0].sentAt <= row(r0)'.rotatedAt
      <4>1. \A x \in live \ {r0} : sid(x) # sid(r0)
        BY <3>3 DEF Current
      <4>2. row(r0).generation = requests[r0].token.generation + 1 =>
              requests[r0].sentAt <= row(r0).rotatedAt
        BY <3>3 DEF Current
      <4>3. CASE sid(r) # sid(r0)
        BY <2>2, <2>4, <2>10, <3>1, <4>1, <4>2, <4>3
      <4>4. CASE sid(r) = sid(r0)
        <5>1. r = r0
          BY <2>1, <4>1, <4>4
        <5>2. CASE Moved(r)
          BY <2>2, <2>4, <2>8, <2>11, <3>1, <4>1, <5>1, <5>2 DEF Moved
        <5>3. CASE Stayed(r)
          BY <2>2, <2>4, <2>11, <3>1, <4>1, <4>2, <5>1, <5>3 DEF Stayed
        <5> QED
          BY <2>3, <5>2, <5>3
      <4> QED
        BY <4>3, <4>4
    <3> QED
      BY <3>2, <3>3
  <2>15. Settled'
    <3> SUFFICES ASSUME lock = Free, auth # NoAuth
                 PROVE  /\ session'[auth.token.sid].generation = auth.token.generation
                        /\ \A x \in live' : sid(x)' = auth.token.sid =>
                             /\ requests'[x].token.generation + 1 = auth.token.generation
                             /\ requests'[x].sentAt <= auth.access
      BY DEF Settled
    <3>1. auth.token.sid \in Sids
      BY AuthShape
    <3>2. session'[auth.token.sid].generation = session[auth.token.sid].generation
      <4>1. CASE sid(r) # auth.token.sid
        BY <2>3, <3>1, <4>1
      <4>2. CASE sid(r) = auth.token.sid
        <5>1. /\ requests[r].token.generation + 1 = auth.token.generation
              /\ row(r).generation = auth.token.generation
          BY <2>1, <4>2 DEF Settled, row
        <5>2. ~Moved(r)
          BY <2>1, <2>5, <5>1 DEF Moved
        <5> QED
          BY <2>3, <4>2, <5>2 DEF Stayed, row
      <4> QED
        BY <4>1, <4>2
    <3> QED
      BY <2>2, <2>4, <3>2 DEF Settled
  <2> QED
    BY <2>9, <2>13, <2>14, <2>15
<1> QED
  BY <1>1, <1>2 DEF Server

----------------------------------------------------------------------------
(* The steps of a process that leave the requests alone.                   *)

Stores(p) ==
  /\ procs[p].pc = "save"
  /\ auth' = [token |-> procs[p].token, access |-> procs[p].access]

Quiet(p) ==
  /\ ~asking(p) /\ ~asking(p)'
  /\ \A q \in Procs \ {p} : procs'[q] = procs[q]
  /\ UNCHANGED <<requests, open, clock, lock, lost, cut>>
  /\ \A s \in Sids : session[s].exists =>
       /\ session'[s].exists
       /\ session'[s].generation = session[s].generation
       /\ session'[s].rotatedAt = session[s].rotatedAt
  /\ \/ auth' = auth
     \/ /\ lock = Free
        /\ auth' = NoAuth \/ Stores(p)
  /\ procs'[p].pc = "renew" => clock - procs'[p].refused >= AccessLife

LEMMA QuietFacts ==
  ASSUME NEW p \in Procs, Inv, Quiet(p)
  PROVE  /\ live' = live
         /\ \A x \in live : /\ sid(x)' = sid(x) /\ sid(x) \in Sids
                            /\ row(x)'.exists
                            /\ row(x)'.generation = row(x).generation
                            /\ row(x)'.rotatedAt = row(x).rotatedAt
         /\ \A q \in Procs : asking(q)' <=> asking(q)
         /\ \A q \in Procs : asking(q) => procs'[q] = procs[q] /\ auth' = auth
<1> TypeOK /\ Locked /\ Unstored
  BY DEF Inv
<1>1. live' = live
  BY DEF Quiet, live
<1>2. \A x \in live : sid(x)' = sid(x) /\ sid(x) \in Sids
  BY Shapes DEF Quiet, sid
<1>3. \A x \in live : /\ row(x)'.exists
                      /\ row(x)'.generation = row(x).generation
                      /\ row(x)'.rotatedAt = row(x).rotatedAt
  BY <1>2 DEF Quiet, row, Unstored
<1>4. \A q \in Procs : asking(q)' <=> asking(q)
  BY DEF Quiet, asking
<1>5. \A q \in Procs : asking(q) => procs'[q] = procs[q]
  BY DEF Quiet
<1>6. \A q \in Procs : asking(q) => lock = q /\ lock # Free
  BY DEF Locked, TypeOK
<1>7. \A q \in Procs : asking(q) => auth' = auth
  BY <1>6 DEF Quiet
<1> QED
  BY <1>1, <1>2, <1>3, <1>4, <1>5, <1>7

LEMMA QuietKeeps ==
  ASSUME NEW p \in Procs, Assumptions, Inv, Quiet(p)
  PROVE  Locked' /\ InTime' /\ Orderly'
<1> TypeOK /\ Locked /\ InTime /\ Unstored /\ Orderly
  BY DEF Inv
<1>1. /\ live' = live
      /\ \A x \in live : /\ sid(x)' = sid(x) /\ sid(x) \in Sids
                         /\ row(x)'.exists
                         /\ row(x)'.generation = row(x).generation
                         /\ row(x)'.rotatedAt = row(x).rotatedAt
      /\ \A q \in Procs : asking(q)' <=> asking(q)
      /\ \A q \in Procs : asking(q) => procs'[q] = procs[q] /\ auth' = auth
  BY QuietFacts
<1>2. UNCHANGED <<requests, open, clock, lock, lost, cut>>
  BY DEF Quiet
<1>3. \A q \in Procs : asking(q) => procs[q].request \in live
  BY DEF Locked
<1>4. Locked'
  BY <1>1, <1>2 DEF Locked
<1>5. InTime'
  <2>1. \A q \in Procs : procs'[q].pc = "renew" => clock - procs'[q].refused >= AccessLife
    BY DEF Quiet, InTime
  <2> QED
    BY <1>1, <1>2, <2>1 DEF InTime
<1>6. ASSUME Good
      PROVE  (Together /\ Recent /\ Current /\ Settled)'
  <2>0. Together /\ Recent /\ Current /\ Settled
    BY <1>6 DEF Orderly
  <2>1. Together'
    BY <1>1, <1>2, <2>0 DEF Together
  <2>2. Recent'
    BY <1>1, <1>2, <2>0 DEF Recent
  <2>3. Current'
    <3> SUFFICES ASSUME NEW q \in Procs, asking(q), NEW r, r = procs[q].request
                 PROVE  /\ requests[r].token = auth.token
                        /\ \A x \in live : sid(x) = sid(r) => requests[x].sentAt <= requests[r].sentAt
                        /\ ~procs[q].again =>
                             /\ \A x \in live \ {r} : sid(x) # sid(r)
                             /\ row(r)'.generation = requests[r].token.generation + 1 =>
                                  requests[r].sentAt <= row(r)'.rotatedAt
      BY <1>1, <1>2, <1>3 DEF Current
    <3> QED
      BY <1>1, <1>3, <2>0 DEF Current
  <2>4. Settled'
    <3> SUFFICES ASSUME lock = Free, auth' # NoAuth
                 PROVE  /\ session'[auth'.token.sid].generation = auth'.token.generation
                        /\ \A x \in live : sid(x) = auth'.token.sid =>
                             /\ requests[x].token.generation + 1 = auth'.token.generation
                             /\ requests[x].sentAt <= auth'.access
      BY <1>1, <1>2 DEF Settled
    <3>1. CASE auth' = auth
      <4>1. auth.token.sid \in Sids /\ session[auth.token.sid].exists
        BY <3>1, AuthShape DEF Unstored
      <4>2. session'[auth.token.sid].generation = session[auth.token.sid].generation
        BY <4>1 DEF Quiet
      <4> QED
        BY <2>0, <3>1, <4>2 DEF Settled
    <3>2. CASE Stores(p)
      <4>1. procs[p].pc = "save" /\ auth'.token = procs[p].token
        BY <3>2 DEF Stores
      <4>2. procs[p].token.sid \in Sids /\ session[procs[p].token.sid].exists
        BY <4>1, ProcessShapes DEF Unstored, Token
      <4>3. session'[procs[p].token.sid].generation = procs[p].token.generation
        BY <4>1, <4>2 DEF Quiet, Unstored
      <4>4. \A x \in live : sid(x) # procs[p].token.sid
        BY <4>1 DEF Unstored
      <4> QED
        BY <4>1, <4>3, <4>4
    <3> QED
      BY <3>1, <3>2 DEF Quiet
  <2> QED
    BY <2>1, <2>2, <2>3, <2>4
<1> QED
  BY <1>2, <1>4, <1>5, <1>6 DEF Orderly, Good

\* The store that remains is that of a session nobody else is to store.
LEMMA QuietUnstored ==
  ASSUME NEW p \in Procs, Inv, Quiet(p), procs'[p].pc # "save"
  PROVE  Unstored'
<1> TypeOK /\ Locked /\ Unstored
  BY DEF Inv
<1>1. /\ live' = live
      /\ \A x \in live : sid(x)' = sid(x) /\ sid(x) \in Sids /\ row(x)'.exists
  BY QuietFacts
<1>2. \A q \in Procs : procs'[q].pc = "save" => q # p /\ procs'[q] = procs[q]
  BY DEF Quiet
<1>3. auth' # NoAuth =>
        /\ session'[auth'.token.sid].exists
        /\ \A q \in Procs : procs'[q].pc = "save" => auth'.token.sid # procs[q].token.sid
  <2> SUFFICES ASSUME auth' # NoAuth
               PROVE  /\ session'[auth'.token.sid].exists
                      /\ \A q \in Procs : procs'[q].pc = "save" => auth'.token.sid # procs[q].token.sid
    OBVIOUS
  <2>1. CASE auth' = auth
    BY <1>2, <2>1, AuthShape DEF Quiet, Unstored
  <2>2. CASE Stores(p)
    <3>1. procs[p].pc = "save" /\ auth'.token = procs[p].token
      BY <2>2 DEF Stores
    <3>2. procs[p].token.sid \in Sids /\ session[procs[p].token.sid].exists
      BY <3>1, ProcessShapes DEF Unstored, Token
    <3>3. \A q \in Procs \ {p} : procs[q].pc = "save" => procs[q].token.sid # procs[p].token.sid
      BY <3>1 DEF Unstored
    <3> QED
      BY <1>2, <3>1, <3>2, <3>3 DEF Quiet
  <2> QED
    BY <2>1, <2>2 DEF Quiet
<1>4. \A q \in Procs : procs'[q].pc = "save" =>
        LET s == procs[q].token.sid
        IN /\ session'[s].exists
           /\ session'[s].generation = procs[q].token.generation
           /\ \A r \in live : sid(r) # s
           /\ \A o \in Procs \ {q} : procs'[o].pc = "save" => procs'[o].token.sid # s
  <2> TAKE q \in Procs
  <2> HAVE procs'[q].pc = "save"
  <2>1. procs[q].pc = "save" /\ procs[q].token.sid \in Sids
    BY <1>2, ProcessShapes DEF Token
  <2> QED
    BY <1>2, <2>1 DEF Quiet, Unstored
<1> QED
  BY <1>1, <1>2, <1>3, <1>4 DEF Unstored

LEMMA LoginUnstored ==
  ASSUME NEW p \in Procs, Inv, Login(p)
  PROVE  Unstored'
<1> TypeOK /\ Locked /\ Unstored
  BY DEF Inv
<1>1. PICK s \in Sids : /\ start(s)
                        /\ become(p, [pc |-> "save", token |-> [sid |-> s, generation |-> 0],
                                      access |-> clock])
  BY DEF Login
<1>2. /\ \A t \in Sids \ {s} : session'[t] = session[t]
      /\ session'[s].exists /\ session'[s].generation = 0
      /\ ~session[s].exists
  BY <1>1 DEF start, TypeOK, NoSession
<1>3. /\ \A q \in Procs \ {p} : procs'[q] = procs[q]
      /\ procs'[p].token = [sid |-> s, generation |-> 0]
  BY <1>1 DEF become, TypeOK
<1>4. live' = live /\ requests' = requests /\ auth' = auth
  BY DEF Login, live
<1>5. \A x \in live : sid(x)' = sid(x) /\ sid(x) \in Sids /\ sid(x) # s
  BY <1>2, <1>4, Shapes DEF sid, row, Unstored
<1>6. \A x \in live : row(x)' = row(x)
  BY <1>2, <1>5 DEF row
<1>7. auth # NoAuth => /\ auth.token.sid # s
                       /\ session'[auth.token.sid] = session[auth.token.sid]
  BY <1>2, AuthShape DEF Unstored
<1>8. \A q \in Procs \ {p} : procs'[q].pc = "save" =>
        /\ procs[q].token.sid # s
        /\ session'[procs[q].token.sid] = session[procs[q].token.sid]
  BY <1>2, <1>3, ProcessShapes DEF Unstored, Token
<1>9. \A x \in live' : row(x)'.exists
  BY <1>4, <1>6 DEF Unstored
<1>10. auth' # NoAuth => session'[auth'.token.sid].exists
  BY <1>4, <1>7 DEF Unstored
<1>11. ASSUME NEW q \in Procs, procs'[q].pc = "save", NEW u, u = procs'[q].token.sid
       PROVE  /\ session'[u].exists
              /\ session'[u].generation = procs'[q].token.generation
              /\ auth' # NoAuth => auth'.token.sid # u
              /\ \A r \in live' : sid(r)' # u
              /\ \A o \in Procs \ {q} : procs'[o].pc = "save" => procs'[o].token.sid # u
  <2>1. CASE q = p
    BY <1>2, <1>3, <1>4, <1>5, <1>7, <1>8, <1>11, <2>1
  <2>2. CASE q # p
    BY <1>3, <1>4, <1>5, <1>8, <1>11, <2>2 DEF Unstored
  <2> QED
    BY <2>1, <2>2
<1> QED
  BY <1>9, <1>10, <1>11 DEF Unstored

----------------------------------------------------------------------------
(* The end of a renewal.                                                   *)

Takes(p) ==
  LET request == requests[procs[p].request]
  IN /\ request.at = "granted"
     /\ auth' = [token |-> answer(request), access |-> request.now]

Leaves(p) ==
  /\ asking(p)
  /\ leave(p)
  /\ Good' => Good
  /\ \/ auth' = auth /\ ~Good'
     \/ auth' = NoAuth
     \/ Takes(p)

LEMMA LeavingKeeps ==
  ASSUME NEW p \in Procs, Assumptions, Inv, Leaves(p)
  PROVE  Locked' /\ InTime' /\ Unstored' /\ Orderly'
<1> TypeOK /\ Locked /\ InTime /\ Unstored /\ Orderly
  BY DEF Inv
<1> DEFINE r == procs[p].request
<1>1. asking(p) /\ lock = p /\ r \in Requests /\ r \in live /\ open = {r}
  <2>1. asking(p) /\ lock = p /\ open = {r}
    BY DEF Leaves, Locked
  <2> QED
    BY <2>1 DEF Locked, live
<1>2. /\ open' = {}
      /\ \A x \in live' : x \in live /\ requests'[x] = requests[x]
      /\ \A x \in live' : requests[x].at \notin Waiting
  <2>1. hangUp({r})
    BY DEF Leaves, leave
  <2>2. /\ open' = open \ {r}
        /\ \A x \in live' : x \in live /\ requests'[x] = requests[x]
        /\ \A x \in live' : x \in {r} => requests[x].at \notin Waiting
    BY <1>1, <2>1, HangUpLive
  <2>3. \A x \in live' : requests[x].at \in Waiting => x \in open
    BY <2>2 DEF Locked, Waiting
  <2> QED
    BY <1>1, <2>2, <2>3
<1>3. session' = session /\ clock' = clock /\ lock' = Free
  BY DEF Leaves, leave
<1>4. procs'[p] = Idling /\ \A q \in Procs \ {p} : procs'[q] = procs[q]
  BY DEF Leaves, leave, become, TypeOK
<1>5. Idling.pc = "idle"
  BY DEF Idling
<1>6. \A q \in Procs : ~asking(q)'
  BY <1>1, <1>4, <1>5 DEF Locked, asking
<1>7. \A x \in live' : sid(x)' = sid(x) /\ row(x)' = row(x)
  BY <1>2, <1>3 DEF sid, row
<1> HIDE DEF r
<1>8. Locked'
  <2>1. Free \notin Procs
    BY DEF Assumptions
  <2>2. \A x \in live' : requests'[x].at \notin Waiting
    BY <1>2
  <2> QED
    BY <1>2, <1>3, <1>6, <2>1, <2>2 DEF Locked, Waiting
<1>9. InTime'
  <2>1. \A q \in Procs : procs'[q].pc = "renew" => procs'[q] = procs[q]
    BY <1>4, <1>5
  <2> QED
    BY <1>2, <1>3, <2>1 DEF InTime
<1>10. Takes(p) => /\ auth'.token.sid = sid(r)
                   /\ auth'.token.generation = requests[r].token.generation + 1
                   /\ auth'.access = requests[r].now
                   /\ requests[r].at = "granted"
  BY DEF Takes, answer, sid, r
<1>11. Unstored'
  <2>1. auth' # NoAuth => /\ session[auth'.token.sid].exists
                          /\ \A q \in Procs : procs[q].pc = "save" =>
                               auth'.token.sid # procs[q].token.sid
    BY <1>1, <1>10 DEF Leaves, Unstored, row
  <2>2. \A q \in Procs : procs'[q].pc = "save" => procs'[q] = procs[q]
    BY <1>4, <1>5
  <2>3. \A x \in live' : row(x)'.exists
    BY <1>2, <1>7 DEF Unstored
  <2>4. ASSUME NEW q \in Procs, procs'[q].pc = "save", NEW s, s = procs[q].token.sid
        PROVE  /\ session[s].exists
               /\ session[s].generation = procs[q].token.generation
               /\ \A x \in live' : sid(x) # s
               /\ \A o \in Procs \ {q} : procs'[o].pc = "save" => procs'[o].token.sid # s
    BY <1>2, <2>2, <2>4 DEF Unstored
  <2> QED
    BY <1>3, <1>7, <2>1, <2>2, <2>3, <2>4 DEF Unstored
<1>12. Orderly'
  <2> SUFFICES ASSUME Good' PROVE (Together /\ Recent /\ Current /\ Settled)'
    BY DEF Orderly
  <2>1. Together /\ Recent /\ Current /\ Settled
    BY DEF Leaves, Orderly
  <2>2. Together'
    BY <1>2, <1>7, <2>1 DEF Together
  <2>3. Recent'
    BY <1>2, <1>7, <2>1 DEF Recent
  <2>4. Current'
    BY <1>6 DEF Current
  <2>5. Settled'
    <3> SUFFICES ASSUME auth' # NoAuth
                 PROVE  /\ session[auth'.token.sid].generation = auth'.token.generation
                        /\ \A x \in live' : sid(x) = auth'.token.sid =>
                             /\ requests[x].token.generation + 1 = auth'.token.generation
                             /\ requests[x].sentAt <= auth'.access
      BY <1>2, <1>3, <1>7 DEF Settled
    <3>1. Takes(p)
      BY DEF Leaves
    <3>2. row(r).generation = requests[r].token.generation + 1
      BY <1>1, <1>10, <2>1, <3>1 DEF Recent
    <3>3. requests[r].sentAt <= requests[r].now
      BY <1>1, <1>10, <3>1 DEF InTime
    <3>4. requests[r].sentAt \in Nat /\ requests[r].now \in Nat
      <4>1. requests[r] \in Received
        BY <1>1, <1>10, <3>1, Shapes
      <4> QED
        BY <4>1 DEF Received
    <3>5. ASSUME NEW x \in live', sid(x) = sid(r)
          PROVE  /\ requests[x].token = requests[r].token
                 /\ requests[x].sentAt <= requests[r].now
      <4>1. x \in live /\ requests[x].sentAt \in Nat
        BY <1>2, Shapes
      <4>2. requests[x].token = requests[r].token
        BY <1>1, <2>1, <3>5, <4>1 DEF Together
      <4>3. requests[x].sentAt <= requests[r].sentAt
        BY <1>1, <2>1, <3>5, <4>1 DEF Current, r
      <4> QED
        BY <3>3, <3>4, <4>1, <4>2, <4>3
    <3> QED
      BY <1>10, <3>1, <3>2, <3>5 DEF row
  <2> QED
    BY <2>2, <2>3, <2>4, <2>5
<1> QED
  BY <1>8, <1>9, <1>11, <1>12

----------------------------------------------------------------------------
(* The beginning of a renewal.                                             *)

LEMMA RenewKeeps ==
  ASSUME NEW p \in Procs, Assumptions, Inv, Renew(p), auth.access = procs[p].refused
  PROVE  Locked' /\ InTime' /\ Unstored' /\ Orderly'
<1> TypeOK /\ Locked /\ InTime /\ Unstored /\ Orderly
  BY DEF Inv
<1>0. Timeout \in Nat /\ Stall \in Nat /\ AccessLife \in Nat /\ Timeout < AccessLife /\ Stall < AccessLife
  BY DEF Assumptions, TimesAreNat, LifeOutlastsGrace, RetriesInTime
<1>1. procs[p].pc = "renew" /\ lock = Free /\ lock' = p
      /\ UNCHANGED <<session, clock, auth, lost, cut>>
  BY DEF Renew
<1>2. PICK r \in Requests : /\ send(r, auth.token)
                            /\ become(p, [pc |-> "asking", request |-> r, again |-> FALSE])
  BY DEF Renew
<1>3. auth # NoAuth /\ auth.token \in Token /\ auth.token.sid \in Sids /\ auth.access \in Nat
      /\ clock \in Nat
  BY <1>1, ProcessShapes, AuthShape DEF TypeOK
<1>4. /\ open' = open \cup {r}
      /\ r \notin live /\ live' = live \cup {r}
      /\ requests'[r] = asked(auth.token)
      /\ \A x \in live : requests'[x] = requests[x]
  BY <1>2, <1>3, SendLive
<1>5. requests'[r].token = auth.token /\ requests'[r].sentAt = clock /\ requests'[r].at = "sent"
  BY <1>4 DEF asked
<1>6. open = {} /\ open' = {r} /\ \A q \in Procs : ~asking(q)
  <2>1. Free \notin Procs
    BY DEF Assumptions
  <2> QED
    BY <1>1, <1>4, <2>1 DEF Locked
<1>7. /\ \A q \in Procs \ {p} : procs'[q] = procs[q]
      /\ procs'[p].pc = "asking" /\ procs'[p].request = r /\ procs'[p].again = FALSE
  BY <1>2 DEF become, TypeOK
<1>8. \A x \in live : sid(x)' = sid(x) /\ row(x)' = row(x)
  BY <1>1, <1>4 DEF sid, row
<1>9. sid(r)' = auth.token.sid /\ row(r)' = session[auth.token.sid]
  BY <1>1, <1>5 DEF sid, row
<1>10. Locked'
  <2>1. \A q \in Procs : asking(q)' <=> q = p
    BY <1>6, <1>7 DEF asking
  <2>2. \A x \in live' : requests'[x].at \in {"sent", "granted", "refused"} => x \in open'
    BY <1>4, <1>6 DEF Locked
  <2>3. Free \notin Procs
    BY DEF Assumptions
  <2> QED
    BY <1>1, <1>3, <1>4, <1>6, <1>7, <2>1, <2>2, <2>3 DEF Locked
<1>11. InTime'
  <2>1. \A q \in Procs : procs'[q].pc = "renew" => procs'[q] = procs[q]
    BY <1>7
  <2>2. \A x \in live : x \notin open'
    BY <1>4, <1>6
  <2> QED
    BY <1>0, <1>1, <1>3, <1>4, <1>5, <2>1, <2>2 DEF InTime
<1>12. Unstored'
  <2>1. \A q \in Procs : procs'[q].pc = "save" => procs'[q] = procs[q]
    BY <1>7
  <2>2. \A x \in live' : row(x)'.exists
    BY <1>3, <1>4, <1>8, <1>9 DEF Unstored
  <2>3. ASSUME NEW q \in Procs, procs'[q].pc = "save", NEW s, s = procs[q].token.sid
        PROVE  /\ session[s].exists
               /\ session[s].generation = procs[q].token.generation
               /\ auth.token.sid # s
               /\ \A x \in live' : sid(x)' # s
               /\ \A o \in Procs \ {q} : procs'[o].pc = "save" => procs'[o].token.sid # s
    BY <1>3, <1>4, <1>8, <1>9, <2>1, <2>3 DEF Unstored
  <2> QED
    BY <1>1, <1>3, <2>1, <2>2, <2>3 DEF Unstored
<1>13. Orderly'
  <2> SUFFICES ASSUME Good' PROVE (Together /\ Recent /\ Current /\ Settled)'
    BY DEF Orderly
  <2>1. Together /\ Recent /\ Settled
    BY <1>1 DEF Orderly, Good
  <2>2. \A x \in live : sid(x) # auth.token.sid
    <3> SUFFICES ASSUME NEW x \in live, sid(x) = auth.token.sid PROVE FALSE
      OBVIOUS
    <3>1. requests[x].sentAt <= auth.access /\ requests[x].sentAt \in Nat
      BY <1>1, <1>3, <2>1, Shapes DEF Settled
    <3>2. clock - auth.access >= AccessLife
      BY <1>1 DEF InTime
    <3>3. clock <= requests[x].sentAt + Timeout \/ clock <= requests[x].sentAt + Stall
      BY DEF InTime
    <3> QED
      BY <1>0, <1>3, <3>1, <3>2, <3>3
  <2>3. Together'
    BY <1>0, <1>3, <1>4, <1>5, <1>8, <1>9, <2>1, <2>2 DEF Together
  <2>4. session[auth.token.sid].generation = auth.token.generation
    BY <1>1, <1>3, <2>1 DEF Settled
  <2>5. Recent'
    BY <1>4, <1>5, <1>8, <1>9, <2>1, <2>4 DEF Recent
  <2>6. Current'
    <3>1. \A q \in Procs : asking(q)' => q = p
      BY <1>6, <1>7 DEF asking
    <3>2. auth.token.generation \in Nat
      BY <1>3 DEF Token
    <3>3. row(r)'.generation # requests'[r].token.generation + 1
      BY <1>5, <1>9, <2>4, <3>2
    <3>4. \A x \in live' \ {r} : sid(x)' # sid(r)'
      BY <1>4, <1>8, <1>9, <2>2
    <3>5. requests'[r].sentAt <= requests'[r].sentAt
      BY <1>3, <1>5
    <3>6. \A x \in live' : sid(x)' = sid(r)' => requests'[x].sentAt <= requests'[r].sentAt
      BY <3>4, <3>5
    <3> QED
      BY <1>1, <1>5, <1>7, <3>1, <3>3, <3>4, <3>6 DEF Current
  <2>7. Settled'
    BY <1>1 DEF Settled, Assumptions
  <2> QED
    BY <2>3, <2>5, <2>6, <2>7
<1> QED
  BY <1>10, <1>11, <1>12, <1>13

\* The second attempt: the first may still be served, and is the only other
\* one of its session.
LEMMA RetryKeeps ==
  ASSUME NEW p \in Procs, Assumptions, Inv, Lost(p), ~leave(p)
  PROVE  Locked' /\ InTime' /\ Unstored' /\ Orderly'
<1> TypeOK /\ Locked /\ InTime /\ Unstored /\ Orderly
  BY DEF Inv
<1> DEFINE r == procs[p].request
<1>0. Timeout \in Nat /\ Stall \in Nat /\ Free \notin Procs /\ clock \in Nat /\ lost \in Nat
  BY DEF Assumptions, TimesAreNat, TypeOK
<1>1. PICK q \in Requests : /\ resend(r, q, auth.token)
                            /\ become(p, [pc |-> "asking", request |-> q, again |-> TRUE])
  BY DEF Lost
<1>2. /\ ~procs[p].again /\ lost' = lost + 1
      /\ UNCHANGED <<session, clock, auth, lock, cut>>
  BY DEF Lost
<1>3. asking(p) /\ lock = p /\ open = {r} /\ r \in live /\ auth # NoAuth
  <2>1. asking(p)
    BY DEF Lost, asking
  <2> QED
    BY <2>1 DEF Locked
<1>4. auth.token \in Token /\ auth.token.sid \in Sids
  BY <1>3, AuthShape
<1>5. /\ open' = (open \ {r}) \cup {q}
      /\ q \notin live /\ q \in live'
      /\ requests'[q] = asked(auth.token)
      /\ \A x \in live' \ {q} : x \in live /\ requests'[x] = requests[x]
      /\ r \in live' => requests[r].at \notin Waiting
  BY <1>1, <1>3, <1>4, ResendLive
<1>6. requests'[q].token = auth.token /\ requests'[q].sentAt = clock /\ requests'[q].at = "sent"
  BY <1>5 DEF asked
<1>7. /\ \A o \in Procs \ {p} : procs'[o] = procs[o]
      /\ procs'[p].pc = "asking" /\ procs'[p].request = q /\ procs'[p].again = TRUE
  BY <1>1 DEF become, TypeOK
<1>8. \A x \in live' \ {q} : sid(x)' = sid(x) /\ row(x)' = row(x)
  BY <1>2, <1>5 DEF sid, row
<1>9. sid(q)' = auth.token.sid /\ row(q)' = session[auth.token.sid]
  BY <1>2, <1>6 DEF sid, row
<1> HIDE DEF r
<1>10. Locked'
  <2>1. \A o \in Procs : asking(o)' <=> o = p
    BY <1>3, <1>7 DEF asking, Locked
  <2>2. open' = {q}
    BY <1>3, <1>5
  <2>3. \A x \in live' : requests'[x].at \in {"sent", "granted", "refused"} => x \in open'
    BY <1>3, <1>5, <2>2 DEF Locked, Waiting
  <2> QED
    BY <1>0, <1>2, <1>3, <1>5, <1>7, <2>1, <2>2, <2>3 DEF Locked
<1>11. InTime'
  <2>1. \A o \in Procs : procs'[o].pc = "renew" => procs'[o] = procs[o]
    BY <1>7
  <2>2. \A x \in live' : x # q => x \notin open'
    BY <1>3, <1>5
  <2> QED
    BY <1>0, <1>2, <1>5, <1>6, <2>1, <2>2 DEF InTime
<1>12. Unstored'
  <2>1. \A o \in Procs : procs'[o].pc = "save" => procs'[o] = procs[o]
    BY <1>7
  <2>2. \A x \in live' : row(x)'.exists
    BY <1>3, <1>5, <1>8, <1>9 DEF Unstored
  <2>3. ASSUME NEW o \in Procs, procs'[o].pc = "save", NEW s, s = procs[o].token.sid
        PROVE  /\ session[s].exists
               /\ session[s].generation = procs[o].token.generation
               /\ auth.token.sid # s
               /\ \A x \in live' : sid(x)' # s
               /\ \A u \in Procs \ {o} : procs'[u].pc = "save" => procs'[u].token.sid # s
    BY <1>3, <1>5, <1>8, <1>9, <2>1, <2>3 DEF Unstored
  <2> QED
    BY <1>2, <1>3, <2>1, <2>2, <2>3 DEF Unstored
<1>13. Orderly'
  <2> SUFFICES ASSUME Good' PROVE (Together /\ Recent /\ Current /\ Settled)'
    BY DEF Orderly
  <2>1. Together /\ Recent /\ Current
    <3>1. Good
      BY <1>0, <1>2 DEF Good
    <3> QED
      BY <3>1 DEF Orderly
  <2>2. /\ requests[r].token = auth.token
        /\ \A x \in live \ {r} : sid(x) # sid(r)
        /\ row(r).generation = requests[r].token.generation + 1 =>
             requests[r].sentAt <= row(r).rotatedAt
    BY <1>2, <1>3, <2>1 DEF Current, r
  <2>3. sid(r) = auth.token.sid /\ row(r) = row(q)'
    BY <1>9, <2>2 DEF sid, row
  <2>4. requests[r].sentAt \in Nat /\ requests[r].sentAt <= clock /\ clock <= requests[r].sentAt + Timeout
    BY <1>3, Shapes DEF InTime
  <2>5. \A x \in live' \ {q} : sid(x)' = sid(q)' => x = r
    BY <1>5, <1>8, <1>9, <2>2, <2>3
  <2>6. Together'
    <3> SUFFICES ASSUME NEW x \in live', NEW y \in live', sid(x)' = sid(y)'
                 PROVE  /\ requests'[x].token = requests'[y].token
                        /\ requests'[x].sentAt <= requests'[y].sentAt + Timeout
      BY <1>2 DEF Together
    <3>1. CASE x # q /\ y # q
      BY <1>5, <1>8, <2>1, <3>1 DEF Together
    <3>2. CASE x = q /\ y # q
      BY <1>5, <1>6, <2>2, <2>4, <2>5, <3>2
    <3>3. CASE x # q /\ y = q
      BY <1>0, <1>5, <1>6, <2>2, <2>4, <2>5, <3>3
    <3>4. CASE x = q /\ y = q
      BY <1>0, <1>6, <3>4
    <3> QED
      BY <3>1, <3>2, <3>3, <3>4
  <2>7. Recent'
    <3>1. \A w \in Row : w.rotatedAt \in Nat \cup {Never}
      BY DEF Row
    <3>2. row(r).rotatedAt \in Nat \cup {Never}
      BY <1>3, <3>1, Shapes
    <3>3. \/ row(r).generation = auth.token.generation
          \/ /\ row(r).generation = auth.token.generation + 1
             /\ row(r).rotatedAt # Never
             /\ clock <= row(r).rotatedAt + Timeout
      BY <1>0, <1>3, <2>1, <2>2, <2>4, <3>2 DEF Recent
    <3>4. \A x \in live' \ {q} :
            /\ \/ row(x)'.generation = requests'[x].token.generation
               \/ /\ row(x)'.generation = requests'[x].token.generation + 1
                  /\ row(x)'.rotatedAt # Never
                  /\ requests'[x].sentAt <= row(x)'.rotatedAt + Timeout
            /\ requests'[x].at = "granted" =>
                 row(x)'.generation = requests'[x].token.generation + 1
            /\ requests'[x].at # "reuse"
      BY <1>5, <1>8, <2>1 DEF Recent
    <3> QED
      BY <1>6, <2>3, <3>3, <3>4 DEF Recent
  <2>8. Current'
    <3>1. \A o \in Procs : asking(o)' => o = p
      BY <1>3, <1>7 DEF asking, Locked
    <3>2. \A x \in live' : requests'[x].sentAt <= requests'[q].sentAt
      BY <1>0, <1>5, <1>6 DEF InTime
    <3> QED
      BY <1>2, <1>6, <1>7, <3>1, <3>2 DEF Current
  <2>9. Settled'
    BY <1>0, <1>2, <1>3 DEF Settled
  <2> QED
    BY <2>6, <2>7, <2>8, <2>9
<1> QED
  BY <1>10, <1>11, <1>12, <1>13

----------------------------------------------------------------------------

LEMMA ClientKeeps ==
  ASSUME NEW p \in Procs, Assumptions, Inv, Client(p)
  PROVE  Inv'
<1> TypeOK /\ Locked /\ InTime /\ Unstored /\ Orderly
  BY DEF Inv
<1>0. TypeOK'
  BY ClientTypes
<1>1. Idling.pc = "idle"
  BY DEF Idling
<1>2. ASSUME Quiet(p), procs'[p].pc # "save"
      PROVE  Inv'
  BY <1>0, <1>2, QuietKeeps, QuietUnstored DEF Inv
<1>3. ASSUME NEW state, become(p, state)
      PROVE  procs'[p] = state /\ \A q \in Procs \ {p} : procs'[q] = procs[q]
  BY <1>3 DEF become, TypeOK
<1>4. CASE Expire(p)
  <2>1. /\ procs'[p] = [pc |-> "renew", refused |-> auth.access]
        /\ \A q \in Procs \ {p} : procs'[q] = procs[q]
    BY <1>3, <1>4 DEF Expire
  <2>3. ~asking(p) /\ ~asking(p)'
    BY <1>1, <1>4, <2>1 DEF Expire, asking
  <2>4. UNCHANGED <<session, requests, open, clock, lock, lost, cut>> /\ auth' = auth
    BY <1>4 DEF Expire, serverVars
  <2>5. procs'[p].pc = "renew" => clock - procs'[p].refused >= AccessLife
    BY <1>4, <2>1 DEF Expire
  <2>2. Quiet(p)
    BY <2>1, <2>3, <2>4, <2>5 DEF Quiet
  <2> QED
    BY <1>2, <2>1, <2>2
<1>5. CASE Renew(p)
  <2>1. CASE auth.access # procs[p].refused
    <3>1. procs'[p] = Idling /\ \A q \in Procs \ {p} : procs'[q] = procs[q]
      BY <1>3, <1>5, <2>1 DEF Renew
    <3>2. Quiet(p)
      BY <1>1, <1>5, <2>1, <3>1 DEF Renew, Quiet, asking, serverVars
    <3> QED
      BY <1>1, <1>2, <3>1, <3>2
  <2>2. CASE auth.access = procs[p].refused
    BY <1>0, <1>5, <2>2, RenewKeeps DEF Inv
  <2> QED
    BY <2>1, <2>2
<1>6. CASE GiveUpWaiting(p)
  <2>1. procs'[p] = Idling /\ \A q \in Procs \ {p} : procs'[q] = procs[q]
    BY <1>3, <1>6 DEF GiveUpWaiting
  <2>2. Quiet(p)
    BY <1>1, <1>6, <2>1 DEF GiveUpWaiting, Quiet, asking, serverVars
  <2> QED
    BY <1>1, <1>2, <2>1, <2>2
<1>7. CASE Granted(p)
  <2>1. Leaves(p)
    BY <1>7 DEF Granted, answered, Leaves, Takes, asking, Good
  <2> QED
    BY <1>0, <2>1, LeavingKeeps DEF Inv
<1>8. CASE Invalid(p)
  <2>1. Leaves(p)
    BY <1>8 DEF Invalid, answered, Leaves, asking, Good
  <2> QED
    BY <1>0, <2>1, LeavingKeeps DEF Inv
<1>9. CASE Lost(p)
  <2>1. CASE leave(p)
    <3>1. asking(p) /\ auth' = auth /\ lost' = lost + 1 /\ cut' = cut /\ lost \in Nat
      BY <1>9 DEF Lost, asking, TypeOK
    <3>2. procs[p].again
      <4>1. procs'[p] = Idling
        BY <1>3, <2>1 DEF leave
      <4>2. \A q : procs'[p] # [pc |-> "asking", request |-> q, again |-> TRUE]
        BY <1>1, <4>1
      <4>3. \A q : ~become(p, [pc |-> "asking", request |-> q, again |-> TRUE])
        BY <1>3, <4>2
      <4> QED
        BY <1>9, <4>3 DEF Lost
    <3>3. lost >= 1
      BY <3>1, <3>2 DEF Locked
    <3>4. ~Good'
      BY <3>1, <3>3 DEF Good
    <3>5. Leaves(p)
      BY <2>1, <3>1, <3>4 DEF Leaves
    <3> QED
      BY <1>0, <3>5, LeavingKeeps DEF Inv
  <2>2. CASE ~leave(p)
    BY <1>0, <1>9, <2>2, RetryKeeps DEF Inv
  <2> QED
    BY <2>1, <2>2
<1>10. CASE CutShort(p)
  <2>1. Leaves(p)
    BY <1>10 DEF CutShort, Leaves, asking, Good
  <2> QED
    BY <1>0, <2>1, LeavingKeeps DEF Inv
<1>11. CASE Login(p)
  <2>1. PICK s \in Sids : /\ start(s)
                          /\ become(p, [pc |-> "save", token |-> [sid |-> s, generation |-> 0],
                                        access |-> clock])
    BY <1>11 DEF Login
  <2>2. /\ procs'[p].pc = "save"
        /\ \A q \in Procs \ {p} : procs'[q] = procs[q]
    BY <1>3, <2>1
  <2>3. \A t \in Sids : session[t].exists => session'[t] = session[t]
    BY <2>1 DEF start, TypeOK
  <2>4. Quiet(p)
    BY <1>1, <1>11, <2>2, <2>3 DEF Login, Quiet, asking
  <2> QED
    BY <1>0, <1>11, <2>4, QuietKeeps, LoginUnstored DEF Inv
<1>12. CASE Save(p)
  <2>1. procs'[p] = Idling /\ \A q \in Procs \ {p} : procs'[q] = procs[q]
    BY <1>3, <1>12 DEF Save
  <2>2. Quiet(p)
    BY <1>1, <1>12, <2>1 DEF Save, Quiet, Stores, asking, serverVars
  <2> QED
    BY <1>1, <1>2, <2>1, <2>2
<1>13. CASE Logout(p)
  <2>1. procs'[p] = [pc |-> "clear"] /\ \A q \in Procs \ {p} : procs'[q] = procs[q]
    BY <1>3, <1>13 DEF Logout
  <2>2. \A t \in Sids : /\ session'[t].exists = session[t].exists
                        /\ session'[t].generation = session[t].generation
                        /\ session'[t].rotatedAt = session[t].rotatedAt
    BY <1>13, AuthShape DEF Logout, revoked, TypeOK, Row
  <2>3. Quiet(p)
    BY <1>1, <1>13, <2>1, <2>2 DEF Logout, Quiet, asking
  <2> QED
    BY <1>2, <2>1, <2>3
<1>14. CASE Clear(p)
  <2>1. procs'[p] = Idling /\ \A q \in Procs \ {p} : procs'[q] = procs[q]
    BY <1>3, <1>14 DEF Clear
  <2>2. Quiet(p)
    BY <1>1, <1>14, <2>1 DEF Clear, Quiet, asking, serverVars
  <2> QED
    BY <1>1, <1>2, <2>1, <2>2
<1> QED
  BY <1>4, <1>5, <1>6, <1>7, <1>8, <1>9, <1>10, <1>11, <1>12, <1>13, <1>14 DEF Client

LEMMA Unchanged ==
  ASSUME Inv, UNCHANGED vars
  PROVE  Inv'
<1>1. live' = live /\ UNCHANGED <<session, requests, open, clock, auth, lock, procs, lost, cut>>
  BY DEF vars, serverVars, clientVars, live
<1>2. /\ \A x : sid(x)' = sid(x) /\ row(x)' = row(x)
      /\ \A q : asking(q)' <=> asking(q)
  BY <1>1 DEF sid, row, asking
<1>3. TypeOK' /\ Locked' /\ InTime'
  BY <1>1, <1>2 DEF Inv, TypeOK, Locked, InTime
<1>4. Unstored'
  BY <1>1, <1>2 DEF Inv, Unstored
<1>5. Orderly'
  <2>1. Together => Together'
    BY <1>1, <1>2 DEF Together
  <2>2. Recent => Recent'
    BY <1>1, <1>2 DEF Recent
  <2>3. Current => Current'
    BY <1>1, <1>2 DEF Current
  <2>4. Settled => Settled'
    BY <1>1, <1>2 DEF Settled
  <2> QED
    BY <1>1, <2>1, <2>2, <2>3, <2>4 DEF Inv, Orderly, Good
<1> QED
  BY <1>3, <1>4, <1>5 DEF Inv

----------------------------------------------------------------------------
(* The theorems.                                                           *)

\* Of every machine whose times are as StoredSession says they are
\* (LifeOutlastsGrace, RetriesInTime), and whatever the number of processes.
THEOREM StoredInductive ==
  ASSUME Assumptions
  PROVE  Spec => []Inv
<1>1. Init => Inv
  BY InitInv
<1>2. Inv /\ [Next]_vars => Inv'
  <2> SUFFICES ASSUME Inv, [Next]_vars PROVE Inv'
    OBVIOUS
  <2>1. ASSUME NEW p \in Procs, Client(p)
        PROVE  Inv'
    BY <2>1, ClientKeeps
  <2>2. CASE Server /\ UNCHANGED clientVars
    BY <2>2, ServerTypes, ServerLocked, ServerInTime, ServerUnstored, ServerOrderly DEF Inv
  <2>3. CASE UNCHANGED vars
    BY <2>3, Unchanged
  <2> QED
    BY <2>1, <2>2, <2>3 DEF Next
<1> QED
  BY <1>1, <1>2, PTL DEF Spec

\* A lost answer and parallel processes are not mistaken for theft (auth.ts:
\* 41-47, :110-170; plan-d-auth-design.md:8-9): while at most one answer was
\* lost and no renewal was cut short, reuse detection meets no request.
THEOREM NoFalseTheft ==
  ASSUME Assumptions
  PROVE  Spec => []NotMistakenForTheft
<1>1. Inv => NotMistakenForTheft
  <2> SUFFICES ASSUME Inv, Good, NEW r \in Requests PROVE requests[r].at # "reuse"
    BY DEF NotMistakenForTheft, Good
  <2>1. TypeOK /\ Recent
    BY DEF Inv, Orderly
  <2> QED
    BY <2>1, Shapes DEF Recent
<1> QED
  BY <1>1, StoredInductive, PTL

\* After a sign-out only a sign-in puts a session in the store (run.ts:
\* 150-162): no renewal that was under way does.
THEOREM SignInStores ==
  ASSUME Assumptions
  PROVE  Spec => OnlySignInStores
<1>1. Inv /\ [Next]_vars =>
        [auth = NoAuth /\ auth' # NoAuth =>
           \E p \in Procs : procs[p].pc = "save" /\ procs'[p] = Idling]_auth
  <2> SUFFICES ASSUME Inv, Next, auth = NoAuth, auth' # NoAuth
               PROVE  \E p \in Procs : procs[p].pc = "save" /\ procs'[p] = Idling
    BY DEF vars, clientVars
  <2>1. auth' # auth
    OBVIOUS
  <2>2. PICK p \in Procs : Client(p)
    BY <2>1 DEF Next, clientVars
  <2>3. ~asking(p)
    BY DEF Inv, Locked
  <2>4. Save(p)
    BY <2>1, <2>2, <2>3 DEF Client, Expire, Renew, GiveUpWaiting, Granted, Invalid, Lost, CutShort,
                            answered, Login, Logout, Clear, asking
  <2>5. procs'[p] = Idling
    BY <2>4 DEF Save, become, Inv, TypeOK
  <2> QED
    BY <2>4, <2>5 DEF Save
<1> QED
  BY <1>1, StoredInductive, PTL DEF Spec, OnlySignInStores

----------------------------------------------------------------------------
(* The tabs that share a cookie.                                           *)

\* No tab and no request is called as what is there when there is none.
NoneApart == None \notin Tabs /\ None \notin Requests

Flight == [tab : Tabs, again : BOOLEAN, overtaken : BOOLEAN]
flying(r) == flights[r] \in Flight
isPage(p) == p = page(p.held, p.issued, p.inflight)

PageShapes ==
  /\ tabs = [t \in Tabs |-> tabs[t]]
  /\ \A t \in Tabs : isPage(tabs[t])
  /\ flights \in [Requests -> Flight \cup {NoFlight}]

\* A refresh that counts is the one its page waits for.
Awaited ==
  \A r \in Requests : flying(r) /\ ~flights[r].overtaken => tabs[flights[r].tab].inflight = r

\* A page that is signed out, or not there, waits for none.
NoneAwaited ==
  \A t \in Tabs : tabs[t].held \in {"ended", "closed"} => tabs[t].inflight = None

\* Every request is some page's refresh.
Owned == open \subseteq {r \in Requests : flying(r)}

PagesInv == PageShapes /\ Awaited /\ NoneAwaited /\ Owned

----------------------------------------------------------------------------
(* Pages.                                                                  *)

LEMMA PageFields ==
  ASSUME NEW h, NEW i, NEW f
  PROVE  /\ page(h, i, f).held = h /\ page(h, i, f).issued = i /\ page(h, i, f).inflight = f
         /\ isPage(page(h, i, f))
BY DEF page, isPage

LEMMA PageAwaits ==
  ASSUME NEW p, isPage(p), NEW f
  PROVE  [p EXCEPT !.inflight = f] = page(p.held, p.issued, f)
<1>1. \A a, b, c : [page(a, b, c) EXCEPT !.inflight = f] = page(a, b, f)
  BY DEF page
<1>2. [page(p.held, p.issued, p.inflight) EXCEPT !.inflight = f] = page(p.held, p.issued, f)
  BY <1>1
<1> QED
  BY <1>2, Zenon DEF isPage

LEMMA FlightShapes ==
  ASSUME NoneApart, PageShapes, NEW r \in Requests
  PROVE  /\ flying(r) => /\ flights[r].tab \in Tabs
                         /\ flights[r].again \in BOOLEAN /\ flights[r].overtaken \in BOOLEAN
         /\ NoFlight \notin Flight
         /\ \A t \in Tabs : flights[r].tab = t => flying(r)
<1>1. NoFlight.tab = None
  BY DEF NoFlight
<1>2. \A x \in Flight : x.tab \in Tabs /\ x.again \in BOOLEAN /\ x.overtaken \in BOOLEAN
  BY DEF Flight
<1>3. NoFlight \notin Flight
  BY <1>1, <1>2 DEF NoneApart
<1> QED
  BY <1>1, <1>2, <1>3 DEF PageShapes, flying, NoneApart

----------------------------------------------------------------------------
(* The steps.                                                              *)

\* Page t becomes p, and the requests R are no longer asked or are overtaken.
LEMMA PageStep ==
  ASSUME NEW t \in Tabs, NEW p, NoneApart, PagesInv,
         isPage(p), p.held \in {"ended", "closed"} => p.inflight = None,
         tabs' = [tabs EXCEPT ![t] = p],
         flights' \in [Requests -> Flight \cup {NoFlight}],
         \A r \in Requests : flights'[r] \in Flight /\ ~flights'[r].overtaken =>
           \/ flights'[r].tab = t /\ p.inflight = r
           \/ flights'[r].tab # t /\ flights'[r] = flights[r],
         open' \subseteq {r \in Requests : flights'[r] \in Flight}
  PROVE  PagesInv'
<1>1. tabs'[t] = p /\ \A u \in Tabs \ {t} : tabs'[u] = tabs[u]
  BY DEF PagesInv, PageShapes
<1>2. PageShapes'
  <2>1. tabs' = [u \in Tabs |-> tabs'[u]]
    BY DEF PagesInv, PageShapes
  <2>2. \A u \in Tabs : isPage(tabs'[u])
    BY <1>1 DEF PagesInv, PageShapes
  <2> QED
    BY <2>1, <2>2 DEF PageShapes, isPage
<1>3. Awaited'
  <2> SUFFICES ASSUME NEW r \in Requests, flights'[r] \in Flight, ~flights'[r].overtaken
               PROVE  tabs'[flights'[r].tab].inflight = r
    BY DEF Awaited, flying
  <2>1. CASE flights'[r].tab = t /\ p.inflight = r
    BY <1>1, <2>1
  <2>2. CASE flights'[r].tab # t /\ flights'[r] = flights[r]
    <3>1. flying(r) /\ flights[r].tab \in Tabs
      BY <2>2, FlightShapes DEF flying, PagesInv
    <3> QED
      BY <1>1, <2>2, <3>1 DEF PagesInv, Awaited
  <2> QED
    BY <2>1, <2>2
<1>4. NoneAwaited'
  BY <1>1 DEF PagesInv, NoneAwaited
<1>5. Owned'
  BY DEF Owned, flying
<1> QED
  BY <1>2, <1>3, <1>4, <1>5 DEF PagesInv

LEMMA InitPages ==
  ASSUME NoneApart, CookieInit
  PROVE  PagesInv
<1>1. Closed = page("closed", 0, None)
  BY DEF Closed
<1>2. isPage(Closed) /\ Closed.inflight = None
  BY <1>1, PageFields
<1>3. \A r \in Requests : ~flying(r)
  <2>1. NoFlight.tab = None
    BY DEF NoFlight
  <2> QED
    BY <2>1 DEF CookieInit, flying, Flight, NoneApart
<1>4. PageShapes
  BY <1>2 DEF CookieInit, PageShapes
<1> QED
  BY <1>2, <1>3, <1>4 DEF CookieInit, PagesInv, Awaited, NoneAwaited, Owned

\* Nobody is asked anew, and the page loses what its flights waited for.
LEMMA AdoptStep ==
  ASSUME NEW t \in Tabs, NEW p, NoneApart, PagesInv, adopt(t, p), isPage(p), p.inflight = None, open' = open
  PROVE  PagesInv'
<1> PageShapes
  BY DEF PagesInv
<1>1. \A r \in Requests : flights[r].tab = t => flying(r)
  BY FlightShapes
<1>2. \A x \in Flight : /\ [x EXCEPT !.overtaken = TRUE] \in Flight
                        /\ [x EXCEPT !.overtaken = TRUE].overtaken
  BY DEF Flight
<1>3. \A r \in Requests :
        /\ flights[r].tab = t => flights'[r] \in Flight /\ flights'[r].overtaken
        /\ flights[r].tab # t => flights'[r] = flights[r]
  BY <1>1, <1>2 DEF adopt, of, flying
<1>4. flights' \in [Requests -> Flight \cup {NoFlight}]
  <2>1. flights' = [r \in Requests |-> flights'[r]]
    BY DEF adopt
  <2>2. \A r \in Requests : flights'[r] \in Flight \cup {NoFlight}
    BY <1>3 DEF PageShapes
  <2> QED
    BY <2>1, <2>2
<1>5. open' \subseteq {r \in Requests : flights'[r] \in Flight}
  BY <1>3 DEF PagesInv, Owned, flying
<1>6. tabs' = [tabs EXCEPT ![t] = p]
  BY DEF adopt
<1>7. \A r \in Requests : flights'[r] \in Flight /\ ~flights'[r].overtaken =>
           \/ flights'[r].tab = t /\ p.inflight = r
           \/ flights'[r].tab # t /\ flights'[r] = flights[r]
  BY <1>3
<1> QED
  BY <1>4, <1>5, <1>6, <1>7, PageStep

\* r has landed, and its page becomes p.
LEMMA LandStep ==
  ASSUME NEW r \in Requests, NEW t \in Tabs, NEW p, NoneApart, PagesInv, flying(r), flights[r].tab = t,
         tabs' = [tabs EXCEPT ![t] = p], flights' = landed(r), open' = open \ {r},
         \/ p = tabs[t] /\ flights[r].overtaken
         \/ p = tabs[t] /\ tabs[t].inflight # r
         \/ isPage(p) /\ p.inflight = None /\ (tabs[t].inflight = r \/ ~flights[r].overtaken)
  PROVE  PagesInv'
<1> PageShapes /\ Awaited /\ NoneAwaited
  BY DEF PagesInv
<1>1. flights'[r] = NoFlight /\ \A x \in Requests \ {r} : flights'[x] = flights[x]
  BY DEF landed, PageShapes
<1>2. flights'[r] \notin Flight
  BY <1>1, FlightShapes
<1>3. flights' \in [Requests -> Flight \cup {NoFlight}]
  BY DEF landed, PageShapes
<1>4. isPage(p) /\ (p.held \in {"ended", "closed"} => p.inflight = None)
  BY DEF PageShapes, NoneAwaited
<1>5. ASSUME NEW x \in Requests, flights'[x] \in Flight, ~flights'[x].overtaken
      PROVE  \/ flights'[x].tab = t /\ p.inflight = x
             \/ flights'[x].tab # t /\ flights'[x] = flights[x]
  <2>1. x # r /\ flights'[x] = flights[x] /\ flying(x)
    BY <1>1, <1>2, <1>5 DEF flying
  <2>2. CASE flights[x].tab # t
    BY <2>1, <2>2
  <2>3. CASE flights[x].tab = t
    <3>1. tabs[t].inflight = x
      BY <1>5, <2>1, <2>3 DEF Awaited
    <3>2. ~flights[r].overtaken => tabs[t].inflight = r
      BY DEF Awaited
    <3>3. p = tabs[t]
      BY <2>1, <3>1, <3>2
    <3> QED
      BY <2>1, <2>3, <3>1, <3>3
  <2> QED
    BY <2>2, <2>3
<1>6. open' \subseteq {x \in Requests : flights'[x] \in Flight}
  BY <1>1 DEF PagesInv, Owned, flying
<1> QED
  BY <1>3, <1>4, <1>5, <1>6, PageStep

LEMMA TabStep ==
  ASSUME NEW t \in Tabs, NoneApart, PagesInv,
         \/ Load(t) \/ Close(t) \/ Refresh(t) \/ OnStorage(t)
         \/ SignIn(t) \/ SignedIn(t) \/ SignInFails(t) \/ SignOut(t) \/ SignedOut(t)
  PROVE  PagesInv'
<1> PageShapes /\ Awaited /\ NoneAwaited /\ Owned
  BY DEF PagesInv
<1>1. /\ isPage(Closed) /\ Closed.held = "closed" /\ Closed.inflight = None
      /\ isPage(Ended) /\ Ended.held = "ended" /\ Ended.inflight = None
  BY PageFields DEF Closed, Ended
<1>2. CASE Load(t)
  <2> DEFINE p == IF hint THEN page("restoring", 0, None) ELSE Ended
  <2>1. tabs' = [tabs EXCEPT ![t] = p] /\ flights' = flights /\ open' = open /\ tabs[t] = Closed
    BY <1>2 DEF Load, serverVars
  <2>2. isPage(p) /\ p.inflight = None
    BY <1>1, PageFields
  <2>3. \A r \in Requests : flights[r] \in Flight /\ ~flights[r].overtaken => flights[r].tab # t
    BY <1>1, <2>1 DEF Awaited, flying, NoneApart
  <2>4. flights' \in [Requests -> Flight \cup {NoFlight}] /\ open' \subseteq {r \in Requests : flights'[r] \in Flight}
    BY <2>1 DEF PageShapes, Owned, flying
  <2> HIDE DEF p
  <2> QED
    BY <2>1, <2>2, <2>3, <2>4, PageStep
<1>3. CASE Close(t)
  <2>1. tabs' = [tabs EXCEPT ![t] = Closed] /\ open' = open \ of(t)
    BY <1>3 DEF Close, hangUp
  <2>2. \A r \in Requests : /\ flights[r].tab = t => flights'[r] = NoFlight
                            /\ flights[r].tab # t => flights'[r] = flights[r]
    BY <1>3 DEF Close, of
  <2>3. flights' \in [Requests -> Flight \cup {NoFlight}]
    BY <1>3 DEF Close, PageShapes
  <2>4. \A r \in Requests : flights'[r] \in Flight => flights'[r].tab # t /\ flights'[r] = flights[r]
    BY <2>2, FlightShapes
  <2>5. open' \subseteq {r \in Requests : flights'[r] \in Flight}
    BY <2>1, <2>2 DEF Owned, of, flying
  <2> QED
    BY <1>1, <2>1, <2>3, <2>4, <2>5, PageStep
<1>4. CASE Refresh(t)
  <2>1. PICK r \in Requests :
          /\ send(r, jar)
          /\ flights' = [flights EXCEPT ![r] = [tab |-> t, again |-> FALSE, overtaken |-> FALSE]]
          /\ tabs' = [tabs EXCEPT ![t].inflight = r]
    BY <1>4 DEF Refresh
  <2> DEFINE p == page(tabs[t].held, tabs[t].issued, r)
  <2>2. [tabs[t] EXCEPT !.inflight = r] = p
    BY PageAwaits DEF PageShapes
  <2>3. tabs' = [tabs EXCEPT ![t] = p]
    BY <2>1, <2>2
  <2>4. isPage(p) /\ p.inflight = r /\ p.held = tabs[t].held
    BY PageFields
  <2>5. p.held \notin {"ended", "closed"} /\ tabs[t].inflight = None
    BY <1>4, <2>4 DEF Refresh, expiring
  <2>6. [tab |-> t, again |-> FALSE, overtaken |-> FALSE] \in Flight
    BY DEF Flight
  <2>7. /\ flights'[r] \in Flight /\ flights'[r].tab = t
        /\ \A x \in Requests \ {r} : flights'[x] = flights[x]
        /\ flights' \in [Requests -> Flight \cup {NoFlight}]
    BY <2>1, <2>6 DEF PageShapes
  <2>8. open' = open \cup {r}
    BY <2>1 DEF send
  <2>9. open' \subseteq {x \in Requests : flights'[x] \in Flight}
    BY <2>7, <2>8 DEF Owned, flying
  <2>10. ASSUME NEW x \in Requests, flights'[x] \in Flight, ~flights'[x].overtaken
         PROVE  \/ flights'[x].tab = t /\ p.inflight = x
                \/ flights'[x].tab # t /\ flights'[x] = flights[x]
    <3>1. CASE x = r
      BY <2>4, <2>7, <3>1
    <3>2. CASE x # r
      <4>1. flights'[x] = flights[x]
        BY <2>7, <3>2
      <4>2. flights[x].tab = t => tabs[t].inflight = x
        BY <2>10, <4>1 DEF Awaited, flying
      <4> QED
        BY <2>5, <4>1, <4>2 DEF NoneApart
    <3> QED
      BY <3>1, <3>2
  <2> HIDE DEF p
  <2> QED
    BY <2>3, <2>4, <2>5, <2>7, <2>9, <2>10, PageStep
<1>5. CASE SignedIn(t)
  <2> DEFINE p == page("granted", awaiting[t].at, None)
  <2>1. adopt(t, p) /\ open' = open
    BY <1>5 DEF SignedIn, serverVars
  <2>2. isPage(p) /\ p.inflight = None
    BY PageFields
  <2> HIDE DEF p
  <2> QED
    BY <2>1, <2>2, AdoptStep
<1>6. CASE UNCHANGED <<tabs, flights, open>>
  BY <1>6 DEF PagesInv, PageShapes, Awaited, NoneAwaited, Owned, flying, isPage
<1>61. CASE SignIn(t) \/ SignInFails(t) \/ SignOut(t)
  BY <1>6, <1>61 DEF SignIn, SignInFails, SignOut, serverVars
<1>62. CASE SignedOut(t)
  <2>1. open' = open /\ (UNCHANGED <<tabs, flights>> \/ adopt(t, Ended))
    BY <1>62 DEF SignedOut, serverVars
  <2> QED
    BY <1>1, <1>6, <2>1, AdoptStep
<1>7. CASE OnStorage(t)
  <2>1. open' = open /\ (UNCHANGED <<tabs, flights>> \/ adopt(t, Ended))
    BY <1>7 DEF OnStorage, serverVars
  <2>2. CASE UNCHANGED <<tabs, flights>>
    BY <1>6, <2>1, <2>2
  <2>3. CASE adopt(t, Ended)
    BY <1>1, <2>1, <2>3, AdoptStep
  <2> QED
    BY <2>1, <2>2, <2>3
<1> QED
  BY <1>2, <1>3, <1>4, <1>5, <1>61, <1>62, <1>7

LEMMA AnswerStep ==
  ASSUME NEW r \in Requests, NoneApart, PagesInv, Renewed(r) \/ Refused(r)
  PROVE  PagesInv'
<1> PageShapes /\ Awaited /\ NoneAwaited /\ Owned
  BY DEF PagesInv
<1> DEFINE t == flights[r].tab
<1>1. flying(r) /\ t \in Tabs
  BY FlightShapes DEF Renewed, Refused, Owned
<1>2. open' = open \ {r} /\ flights' = landed(r)
  BY DEF Renewed, Refused, hangUp
<1> HIDE DEF t
<1>3. CASE tabs' = tabs /\ flights[r].overtaken
  <2>1. tabs' = [tabs EXCEPT ![t] = tabs[t]]
    BY <1>3 DEF PageShapes
  <2> QED
    BY <1>1, <1>2, <1>3, <2>1, LandStep DEF t
<1>4. ASSUME NEW p, isPage(p), p.inflight = None, tabs' = [tabs EXCEPT ![t] = p], ~flights[r].overtaken
      PROVE  PagesInv'
  BY <1>1, <1>2, <1>4, LandStep DEF t
<1>5. CASE Renewed(r) /\ ~flights[r].overtaken
  <2> DEFINE p == page("granted", requests[r].now, None)
  <2>1. isPage(p) /\ p.inflight = None
    BY PageFields
  <2>2. tabs' = [tabs EXCEPT ![t] = p]
    BY <1>5 DEF Renewed, t
  <2> HIDE DEF p
  <2> QED
    BY <1>4, <1>5, <2>1, <2>2
<1>6. CASE Refused(r) /\ ~flights[r].overtaken
  <2>1. isPage(Ended) /\ Ended.inflight = None
    BY PageFields DEF Ended
  <2>2. tabs' = [tabs EXCEPT ![t] = Ended]
    BY <1>6 DEF Refused, t
  <2> QED
    BY <1>4, <1>6, <2>1, <2>2
<1>7. flights[r].overtaken => tabs' = tabs
  BY DEF Renewed, Refused
<1> QED
  BY <1>3, <1>5, <1>6, <1>7

LEMMA LostStep ==
  ASSUME NEW r \in Requests, NoneApart, PagesInv, Unanswered(r)
  PROVE  PagesInv'
<1> PageShapes /\ Awaited /\ NoneAwaited /\ Owned
  BY DEF PagesInv
<1> DEFINE t == flights[r].tab
<1>1. flying(r) /\ t \in Tabs /\ r # None
  BY FlightShapes DEF Unanswered, Owned, NoneApart
<1>2. flights[r] \in Flight
  BY <1>1 DEF flying
<1>3. ~flights[r].overtaken => tabs[t].inflight = r
  BY <1>1 DEF Awaited
<1>4. tabs = [tabs EXCEPT ![t] = tabs[t]]
  BY DEF PageShapes
<1>5. CASE ~flights[r].again
  <2>1. PICK q \in Requests :
          /\ resend(r, q, jar)
          /\ flights' = [landed(r) EXCEPT ![q] = [flights[r] EXCEPT !.again = TRUE]]
          /\ tabs' = IF tabs[t].inflight = r THEN [tabs EXCEPT ![t].inflight = q] ELSE tabs
    BY <1>5 DEF Unanswered
  <2> DEFINE p == IF tabs[t].inflight = r THEN page(tabs[t].held, tabs[t].issued, q) ELSE tabs[t]
             retry == [flights[r] EXCEPT !.again = TRUE]
  <2>2. [tabs[t] EXCEPT !.inflight = q] = page(tabs[t].held, tabs[t].issued, q)
    BY <1>1, PageAwaits DEF PageShapes
  <2>3. tabs' = [tabs EXCEPT ![t] = p]
    BY <1>4, <2>1, <2>2
  <2>4. isPage(p) /\ p.held = tabs[t].held
        /\ (p.inflight = IF tabs[t].inflight = r THEN q ELSE tabs[t].inflight)
    BY <1>1, PageFields DEF PageShapes
  <2>5. p.held \in {"ended", "closed"} => p.inflight = None
    BY <1>1, <2>4 DEF NoneAwaited
  <2>6. retry \in Flight /\ retry.tab = t /\ retry.overtaken = flights[r].overtaken
    BY <1>2 DEF Flight
  <2> HIDE DEF p, retry, t
  <2>7. flights' = [landed(r) EXCEPT ![q] = retry]
    BY <2>1 DEF retry
  <2>8. landed(r) \in [Requests -> Flight \cup {NoFlight}]
        /\ landed(r)[r] = NoFlight /\ \A x \in Requests \ {r} : landed(r)[x] = flights[x]
    BY DEF landed, PageShapes
  <2>9. /\ flights' \in [Requests -> Flight \cup {NoFlight}]
        /\ flights'[q] = retry
        /\ \A x \in Requests \ {q} : flights'[x] = landed(r)[x]
    BY <2>6, <2>7, <2>8
  <2>10. NoFlight \notin Flight
    BY FlightShapes
  <2>11. \A x \in Requests : x # q /\ flights'[x] \in Flight => x # r /\ flights'[x] = flights[x]
    BY <2>8, <2>9, <2>10
  <2>12. open' = (open \ {r}) \cup {q}
    BY <2>1 DEF resend
  <2>13. open' \subseteq {x \in Requests : flights'[x] \in Flight}
    BY <2>6, <2>8, <2>9, <2>12 DEF Owned, flying
  <2>14. ASSUME NEW x \in Requests, flights'[x] \in Flight, ~flights'[x].overtaken
         PROVE  \/ flights'[x].tab = t /\ p.inflight = x
                \/ flights'[x].tab # t /\ flights'[x] = flights[x]
    <3>1. CASE x = q
      BY <1>3, <2>4, <2>6, <2>9, <2>14, <3>1
    <3>2. CASE x # q
      <4>1. x # r /\ flights'[x] = flights[x]
        BY <2>11, <2>14, <3>2
      <4>2. flights[x].tab = t => tabs[t].inflight = x
        BY <2>14, <4>1 DEF Awaited, flying
      <4> QED
        BY <2>4, <4>1, <4>2
    <3> QED
      BY <3>1, <3>2
  <2> QED
    BY <1>1, <2>3, <2>4, <2>5, <2>9, <2>13, <2>14, PageStep
<1>6. CASE flights[r].again
  <2> DEFINE p == IF tabs[t].inflight # r THEN tabs[t]
                  ELSE page(IF restored(r) THEN "unknown" ELSE tabs[t].held, tabs[t].issued, None)
  <2>1. hangUp({r}) /\ flights' = landed(r)
    BY <1>6 DEF Unanswered
  <2>2. tabs' = [tabs EXCEPT ![t] = p]
    BY <1>4, <1>6 DEF Unanswered
  <2>3. tabs[t].inflight = r => isPage(p) /\ p.inflight = None
    BY PageFields
  <2>4. tabs[t].inflight # r => p = tabs[t]
    OBVIOUS
  <2>5. open' = open \ {r}
    BY <2>1 DEF hangUp
  <2> HIDE DEF p
  <2> QED
    BY <1>1, <2>1, <2>2, <2>3, <2>4, <2>5, LandStep
<1> QED
  BY <1>5, <1>6

LEMMA OtherStep ==
  ASSUME PagesInv, \/ ((\E r \in Requests : Serve(r)) \/ Tick) /\ UNCHANGED browserVars
              \/ UNCHANGED cookieVars
  PROVE  PagesInv'
<1>1. open' = open
  BY DEF Serve, Receive, Lookup, Rotate, RevokeById, Tick, cookieVars, serverVars
<1>2. UNCHANGED <<tabs, flights>>
  BY DEF cookieVars, browserVars
<1> QED
  BY <1>1, <1>2 DEF PagesInv, PageShapes, Awaited, NoneAwaited, Owned, flying, isPage

----------------------------------------------------------------------------
(* The theorems.                                                           *)

\* Of any number of tabs, requests and sessions, whatever the times are.
THEOREM CookieInductive ==
  ASSUME NoneApart
  PROVE  CookieSpec => []PagesInv
<1>1. CookieInit => PagesInv
  BY InitPages
<1>2. PagesInv /\ [CookieNext]_cookieVars => PagesInv'
  BY TabStep, AnswerStep, LostStep, OtherStep DEF CookieNext
<1> QED
  BY <1>1, <1>2, PTL DEF CookieSpec

\* What an adopt settled stays settled (auth.ts:244-246): a page that was
\* signed out gets a token only by the answer to its own sign-in or by being loaded
\* again.
THEOREM SignedOutStays ==
  ASSUME NoneApart
  PROVE  CookieSpec => EndedStaysEnded
<1>1. PagesInv /\ [CookieNext]_cookieVars =>
        [\A t \in Tabs : tabs[t].held = "ended" =>
           \/ tabs'[t].held \in {"ended", "closed"}
           \/ /\ tabs'[t].held = "granted"
              /\ awaiting[t].what = "in"
              /\ jar' = [sid |-> awaiting[t].sid, generation |-> 0]]_tabs
  <2> SUFFICES ASSUME PagesInv, CookieNext, NEW t \in Tabs, tabs[t].held = "ended"
               PROVE  \/ tabs'[t].held \in {"ended", "closed"}
                      \/ /\ tabs'[t].held = "granted"
                         /\ awaiting[t].what = "in"
                         /\ jar' = [sid |-> awaiting[t].sid, generation |-> 0]
    BY DEF cookieVars, browserVars
  <2> PageShapes /\ Awaited /\ NoneAwaited /\ Owned
    BY DEF PagesInv
  <2>1. CASE tabs'[t] = tabs[t]
    BY <2>1
  <2> USE PageFields
  <2>2. ASSUME Load(t) \/ Close(t) \/ Refresh(t) \/ SignIn(t) \/ SignInFails(t)
                 \/ SignOut(t) \/ SignedOut(t) \/ OnStorage(t)
        PROVE  tabs'[t].held \in {"ended", "closed"}
    <3>1. ~Load(t)
      BY DEF Load, Closed
    <3>2. ~Refresh(t)
      BY DEF Refresh, expiring
    <3>3. ~SignOut(t)
      BY DEF SignOut
    <3>4. Close(t) => tabs'[t] = Closed
      BY DEF Close, PageShapes
    <3>5. SignIn(t) \/ SignInFails(t) \/ SignedOut(t) \/ OnStorage(t) => tabs'[t] = tabs[t]
      BY DEF SignIn, SignInFails, SignedOut, OnStorage
    <3> QED
      BY <2>2, <3>1, <3>2, <3>3, <3>4, <3>5 DEF Closed
  <2>3. ASSUME NEW u \in Tabs, u # t,
               \/ Load(u) \/ Close(u) \/ Refresh(u) \/ OnStorage(u)
               \/ SignIn(u) \/ SignedIn(u) \/ SignInFails(u) \/ SignOut(u) \/ SignedOut(u)
        PROVE  tabs'[t] = tabs[t]
    BY <2>3 DEF Load, Close, Refresh, OnStorage, SignIn, SignedIn, SignInFails, SignOut,
                SignedOut, adopt, PageShapes
  <2>4. ASSUME SignedIn(t)
        PROVE  /\ tabs'[t].held = "granted"
               /\ awaiting[t].what = "in"
               /\ jar' = [sid |-> awaiting[t].sid, generation |-> 0]
    <3>1. tabs'[t] = page("granted", awaiting[t].at, None)
      BY <2>4 DEF SignedIn, adopt, PageShapes
    <3> QED
      BY <2>4, <3>1 DEF SignedIn
  <2>5. ASSUME NEW r \in Requests, Renewed(r) \/ Refused(r) \/ Unanswered(r)
        PROVE  tabs'[t] = tabs[t]
    <3>1. flying(r) /\ flights[r].tab \in Tabs
      BY <2>5, FlightShapes DEF Renewed, Refused, Unanswered, Owned
    <3>2. tabs[t].inflight = None /\ r # None
      BY DEF NoneAwaited, NoneApart
    <3>3. ~flights[r].overtaken => flights[r].tab # t
      BY <3>1, <3>2 DEF Awaited
    <3>4. tabs[flights[r].tab].inflight = r => flights[r].tab # t
      BY <3>2
    <3>5. CASE Renewed(r)
      BY <3>3, <3>5 DEF Renewed, PageShapes
    <3>6. CASE Refused(r)
      BY <3>3, <3>6 DEF Refused, PageShapes
    <3>7. CASE Unanswered(r)
      BY <3>4, <3>7 DEF Unanswered, PageShapes
    <3> QED
      BY <2>5, <3>5, <3>6, <3>7
  <2>6. ASSUME (\E r \in Requests : Serve(r)) \/ Tick, UNCHANGED browserVars
        PROVE  tabs'[t] = tabs[t]
    BY <2>6 DEF browserVars
  <2> QED
    BY <2>1, <2>2, <2>3, <2>4, <2>5, <2>6 DEF CookieNext
<1> QED
  BY <1>1, CookieInductive, PTL DEF CookieSpec, EndedStaysEnded

----------------------------------------------------------------------------
(* What the server has issued.                                             *)

\* A token of a session there is, of a generation its row knows.
Known(rows, token) ==
  token # NoToken =>
    /\ token \in Token
    /\ rows[token.sid].exists /\ token.generation <= rows[token.sid].generation

Sent == [at : {"sent"}, token : Token \cup {NoToken}, sentAt : Nat]
Taken == [at : {"lookup", "rotate", "expire", "reuse", "granted"},
          token : Token, sentAt : Nat, now : Nat]
Turned == [at : {"refused"}, token : Token \cup {NoToken}, sentAt : Nat, now : Nat]

CookieTypes ==
  /\ session \in [Sids -> Row]
  /\ requests \in [Requests -> Sent \cup Taken \cup Turned \cup {NoRequest}]
  /\ clock \in Nat
  /\ awaiting = [t \in Tabs |-> awaiting[t]]

\* What a request presents was issued, and what its answer will carry.
Presented ==
  \A r \in Requests : requests[r] # NoRequest =>
    /\ Known(session, requests[r].token)
    /\ requests[r].at = "granted" => Known(session, answer(requests[r]))

Started == \A t \in Tabs : awaiting[t].what = "in" =>
  Known(session, [sid |-> awaiting[t].sid, generation |-> 0])

IssuedInv == CookieTypes /\ Presented /\ Started /\ Known(session, jar)

\* No generation is taken back and no session goes away.
Grows(from, to) ==
  \A s \in Sids : from[s].exists =>
    to[s].exists /\ from[s].generation <= to[s].generation

LEMMA KnownStays ==
  ASSUME NEW from \in [Sids -> Row], NEW to \in [Sids -> Row], Grows(from, to), NEW token, Known(from, token)
  PROVE  Known(to, token)
BY DEF Known, Grows, Token, Row

LEMMA NoTokenIsNone == NoToken \notin Token
BY DEF NoToken, Token, Never

LEMMA RequestShape ==
  ASSUME CookieTypes, NEW r \in Requests, requests[r] # NoRequest
  PROVE  /\ requests[r] \in Sent \cup Taken \cup Turned
         /\ requests[r].at = "sent" => requests[r] \in Sent
         /\ requests[r].at = "refused" => requests[r] \in Turned
         /\ requests[r].at \in {"lookup", "rotate", "expire", "reuse", "granted"} =>
              requests[r] \in Taken
BY DEF CookieTypes, Sent, Taken, Turned

LEMMA FreeHasNoStage == NoRequest.at = "free"
BY DEF NoRequest

LEMMA InitIssued ==
  ASSUME CookieInit
  PROVE  IssuedInv
<1>1. NoSession \in Row
  BY DEF NoSession, Row, Never
<1>2. PICK s \in Sids :
        /\ session = [i \in Sids |-> IF i = s THEN [NoSession EXCEPT !.exists = TRUE]
                                             ELSE NoSession]
        /\ jar = [sid |-> s, generation |-> 0]
  BY DEF CookieInit
<1>3. [NoSession EXCEPT !.exists = TRUE] \in Row /\ [NoSession EXCEPT !.exists = TRUE].exists
      /\ [NoSession EXCEPT !.exists = TRUE].generation = 0
  BY DEF NoSession, Row, Never
<1>4. session \in [Sids -> Row] /\ Known(session, jar)
  <2>1. session \in [Sids -> Row]
    BY <1>1, <1>2, <1>3
  <2>2. session[s].exists /\ session[s].generation = 0
    BY <1>2, <1>3
  <2>3. jar \in Token /\ jar.sid = s /\ jar.generation = 0
    BY <1>2 DEF Token
  <2> QED
    BY <2>1, <2>2, <2>3 DEF Known
<1>5. \A t \in Tabs : awaiting[t].what # "in"
  BY DEF CookieInit, NoAsk, None
<1>6. CookieTypes /\ Presented
  BY <1>4 DEF CookieInit, CookieTypes, Presented
<1> QED
  BY <1>4, <1>5, <1>6 DEF IssuedInv, Started

\* What the pages do: requests end or carry the cookie that is in the jar.
LEMMA PageIssues ==
  ASSUME IssuedInv, clock' = clock,
         session' \in [Sids -> Row], Grows(session, session'), Known(session', jar'),
         requests' = [r \in Requests |-> requests'[r]],
         \A r \in Requests : requests'[r] \in {NoRequest, asked(jar), requests[r]},
         awaiting' = [t \in Tabs |-> awaiting'[t]],
         \A t \in Tabs : awaiting'[t].what = "in" =>
           \/ awaiting'[t] = awaiting[t]
           \/ Known(session', [sid |-> awaiting'[t].sid, generation |-> 0])
  PROVE  IssuedInv'
<1>1. jar \in Token \cup {NoToken} /\ Known(session', jar)
  BY KnownStays DEF IssuedInv, CookieTypes, Known
<1>2. asked(jar) \in Sent /\ asked(jar).token = jar /\ asked(jar).at = "sent"
  BY <1>1 DEF asked, Sent, IssuedInv, CookieTypes
<1>3. requests' \in [Requests -> Sent \cup Taken \cup Turned \cup {NoRequest}]
  <2>1. \A r \in Requests : requests'[r] \in Sent \cup Taken \cup Turned \cup {NoRequest}
    BY <1>2 DEF IssuedInv, CookieTypes
  <2> QED
    BY <2>1
<1>4. \A token : Known(session, token) => Known(session', token)
  BY KnownStays DEF IssuedInv, CookieTypes
<1>5. Presented'
  <2> SUFFICES ASSUME NEW r \in Requests, requests'[r] # NoRequest
               PROVE  /\ Known(session', requests'[r].token)
                      /\ requests'[r].at = "granted" => Known(session', answer(requests'[r]))
    BY DEF Presented
  <2>1. CASE requests'[r] = asked(jar)
    BY <1>1, <1>2, <2>1
  <2>2. CASE requests'[r] = requests[r]
    BY <1>4, <2>2 DEF IssuedInv, Presented
  <2> QED
    BY <2>1, <2>2
<1>6. Started'
  BY <1>4 DEF IssuedInv, Started
<1> QED
  BY <1>3, <1>5, <1>6 DEF IssuedInv, CookieTypes

LEMMA HangUpIssues ==
  ASSUME NEW R, hangUp(R)
  PROVE  /\ requests' = [r \in Requests |-> requests'[r]]
         /\ \A r \in Requests : requests'[r] \in {NoRequest, asked(jar), requests[r]}
BY DEF hangUp, ended

LEMMA RevokedRow ==
  ASSUME NEW x \in Row
  PROVE  LET y == [x EXCEPT !.revoked = TRUE]
         IN  y \in Row /\ y.exists = x.exists /\ y.generation = x.generation
BY DEF Row

LEMMA RevokedGrows ==
  ASSUME session \in [Sids -> Row], NEW s \in Sids
  PROVE  revoked(s) \in [Sids -> Row] /\ Grows(session, revoked(s))
<1>1. PICK moved \in Row : /\ revoked(s) = [session EXCEPT ![s] = moved]
                          /\ moved.exists = session[s].exists
                          /\ moved.generation = session[s].generation
  BY RevokedRow DEF revoked
<1> QED
  BY <1>1 DEF Grows, Row

LEMMA TabIssues ==
  ASSUME IssuedInv, NEW t \in Tabs,
         \/ Load(t) \/ Close(t) \/ Refresh(t) \/ OnStorage(t)
         \/ SignIn(t) \/ SignedIn(t) \/ SignInFails(t) \/ SignOut(t) \/ SignedOut(t)
  PROVE  IssuedInv'
<1> session \in [Sids -> Row] /\ Known(session, jar)
    /\ requests = [r \in Requests |-> requests[r]] /\ awaiting = [u \in Tabs |-> awaiting[u]]
  BY DEF IssuedInv, CookieTypes
<1>1. Grows(session, session) /\ NoAsk.what # "in"
  BY DEF Grows, Row, NoAsk, None
<1>2. CASE Load(t) \/ OnStorage(t)
  BY <1>1, <1>2, PageIssues DEF Load, OnStorage, serverVars
<1>3. CASE Close(t)
  <2>1. /\ requests' = [r \in Requests |-> requests'[r]]
        /\ \A r \in Requests : requests'[r] \in {NoRequest, asked(jar), requests[r]}
    BY <1>3, HangUpIssues DEF Close
  <2>2. \A u \in Tabs : awaiting'[u] \in {NoAsk, awaiting[u]}
    BY <1>3 DEF Close
  <2>3. awaiting' = [u \in Tabs |-> awaiting'[u]]
    BY <1>3 DEF Close
  <2> QED
    BY <1>1, <1>3, <2>1, <2>2, <2>3, PageIssues DEF Close
<1>4. CASE Refresh(t)
  <2>1. /\ requests' = [r \in Requests |-> requests'[r]]
        /\ \A r \in Requests : requests'[r] \in {NoRequest, asked(jar), requests[r]}
    BY <1>4 DEF Refresh, send
  <2> QED
    BY <1>1, <1>4, <2>1, PageIssues DEF Refresh
<1>5. CASE SignIn(t)
  <2>1. PICK s \in Sids : start(s) /\ awaiting' = [awaiting EXCEPT ![t] = askIn(s)]
    BY <1>5 DEF SignIn
  <2>2. PICK moved : /\ session' = [session EXCEPT ![s] = moved]
                   /\ moved \in Row /\ moved.exists /\ moved.generation = 0
    <3>1. clock \in Nat
      BY DEF IssuedInv, CookieTypes
    <3>2. /\ [NoSession EXCEPT !.exists = TRUE, !.lastUsedAt = clock, !.createdAt = clock] \in Row
          /\ [NoSession EXCEPT !.exists = TRUE, !.lastUsedAt = clock, !.createdAt = clock].exists
          /\ [NoSession EXCEPT !.exists = TRUE, !.lastUsedAt = clock,
                               !.createdAt = clock].generation = 0
      BY <3>1 DEF NoSession, Never, Row
    <3> QED
      BY <2>1, <3>2 DEF start
  <2>3. /\ session' \in [Sids -> Row]
        /\ session'[s].exists /\ session'[s].generation = 0
        /\ \A i \in Sids : i # s => session'[i] = session[i]
    BY <2>2
  <2>4. Grows(session, session')
    BY <2>1, <2>3 DEF Grows, start, Row
  <2>5. awaiting'[t].sid = s /\ \A u \in Tabs : u # t => awaiting'[u] = awaiting[u]
    BY <2>1 DEF askIn
  <2>6. Known(session', [sid |-> s, generation |-> 0])
    BY <2>3 DEF Known, Token
  <2>7. Known(session', jar') /\ UNCHANGED <<requests, clock>>
    BY <1>5, <2>3, <2>4, KnownStays DEF SignIn
  <2>8. awaiting' = [u \in Tabs |-> awaiting'[u]]
    BY <2>1
  <2> QED
    BY <2>3, <2>4, <2>5, <2>6, <2>7, <2>8, PageIssues
<1>6. CASE SignedIn(t)
  <2>1. Known(session, [sid |-> awaiting[t].sid, generation |-> 0])
    BY <1>6 DEF SignedIn, IssuedInv, Started
  <2>2. UNCHANGED <<session, requests, clock>> /\ jar' = [sid |-> awaiting[t].sid, generation |-> 0]
    BY <1>6 DEF SignedIn, serverVars
  <2>3. awaiting' = [u \in Tabs |-> awaiting'[u]] /\ \A u \in Tabs : awaiting'[u] \in {NoAsk, awaiting[u]}
    BY <1>6 DEF SignedIn
  <2> QED
    BY <1>1, <2>1, <2>2, <2>3, PageIssues
<1>7. CASE SignInFails(t)
  <2>1. awaiting' = [u \in Tabs |-> awaiting'[u]] /\ \A u \in Tabs : awaiting'[u] \in {NoAsk, awaiting[u]}
    BY <1>7 DEF SignInFails
  <2> QED
    BY <1>1, <1>7, <2>1, PageIssues DEF SignInFails, serverVars
<1>8. CASE SignOut(t)
  <2>1. PICK served \in BOOLEAN :
          /\ awaiting' = [awaiting EXCEPT ![t] = askOut(served)]
          /\ session' = IF served /\ jar # NoToken THEN revoked(jar.sid) ELSE session
    BY <1>8 DEF SignOut
  <2>2. session' \in [Sids -> Row] /\ Grows(session, session')
    <3>1. CASE session' = session
      BY <1>1, <3>1
    <3>2. CASE jar # NoToken /\ session' = revoked(jar.sid)
      BY <3>2, RevokedGrows DEF Known, Token
    <3> QED
      BY <2>1, <3>1, <3>2
  <2>3. awaiting' = [u \in Tabs |-> awaiting'[u]] /\ \A u \in Tabs : awaiting'[u] \in {askOut(served), awaiting[u]}
    BY <2>1
  <2>4. askOut(served).what # "in"
    BY DEF askOut
  <2>5. Known(session', jar') /\ UNCHANGED <<requests, clock>>
    BY <1>8, <2>2, KnownStays DEF SignOut
  <2> QED
    BY <2>2, <2>3, <2>4, <2>5, PageIssues
<1>9. CASE SignedOut(t)
  <2>1. awaiting' = [u \in Tabs |-> awaiting'[u]] /\ \A u \in Tabs : awaiting'[u] \in {NoAsk, awaiting[u]}
    BY <1>9 DEF SignedOut
  <2>2. jar' \in {jar, NoToken} /\ UNCHANGED <<session, requests, clock>>
    BY <1>9 DEF SignedOut, serverVars
  <2>3. Known(session, NoToken)
    BY DEF Known
  <2> QED
    BY <1>1, <2>1, <2>2, <2>3, PageIssues
<1> QED
  BY <1>2, <1>3, <1>4, <1>5, <1>6, <1>7, <1>8, <1>9

LEMMA AnswerIssues ==
  ASSUME IssuedInv, NEW r \in Requests, Renewed(r) \/ Refused(r) \/ Unanswered(r)
  PROVE  IssuedInv'
<1> session \in [Sids -> Row] /\ Known(session, jar) /\ Known(session, NoToken)
    /\ requests = [q \in Requests |-> requests[q]] /\ awaiting = [u \in Tabs |-> awaiting[u]]
  BY DEF IssuedInv, CookieTypes, Known
<1>1. Grows(session, session)
  BY DEF Grows, Row
<1>2. UNCHANGED <<session, clock, awaiting>>
  BY DEF Renewed, Refused, Unanswered
<1>3. /\ requests' = [q \in Requests |-> requests'[q]]
      /\ \A q \in Requests : requests'[q] \in {NoRequest, asked(jar), requests[q]}
  <2>1. CASE \E R : hangUp(R)
    BY <2>1, HangUpIssues
  <2>2. CASE \E q \in Requests : resend(r, q, jar)
    BY <2>2 DEF resend, ended
  <2> QED
    BY <2>1, <2>2 DEF Renewed, Refused, Unanswered
<1>4. Known(session, jar')
  <2>1. CASE Renewed(r)
    <3>1. requests[r].at = "granted" /\ requests[r] # NoRequest
      BY <2>1, FreeHasNoStage DEF Renewed
    <3> QED
      BY <2>1, <3>1 DEF Renewed, IssuedInv, Presented
  <2>2. CASE Refused(r) \/ Unanswered(r)
    BY <2>2 DEF Refused, Unanswered
  <2> QED
    BY <2>1, <2>2
<1> QED
  BY <1>1, <1>2, <1>3, <1>4, PageIssues

LEMMA RotatedRow ==
  ASSUME NEW x \in Row, NEW at \in Nat
  PROVE  LET y == [x EXCEPT !.generation = @ + 1, !.rotatedAt = at, !.lastUsedAt = at]
         IN  y \in Row /\ y.exists = x.exists /\ y.generation = x.generation + 1
<1>1. \A g \in Nat : [x EXCEPT !.generation = g, !.rotatedAt = at, !.lastUsedAt = at] \in Row
  BY DEF Row
<1>2. x.generation + 1 \in Nat
  BY DEF Row
<1>3. [x EXCEPT !.generation = @ + 1, !.rotatedAt = at, !.lastUsedAt = at] \in Row
  BY <1>1, <1>2
<1> QED
  BY <1>3 DEF Row

LEMMA ServeIssues ==
  ASSUME IssuedInv, NEW r \in Requests, Serve(r), UNCHANGED browserVars
  PROVE  IssuedInv'
<1> DEFINE token == requests[r].token
<1> /\ session \in [Sids -> Row] /\ clock \in Nat
    /\ requests \in [Requests -> Sent \cup Taken \cup Turned \cup {NoRequest}]
  BY DEF IssuedInv, CookieTypes
<1>1. requests[r].at # "free" /\ UNCHANGED <<clock, jar, awaiting, open>>
  BY DEF Serve, Receive, Lookup, Rotate, RevokeById, browserVars
<1>2. requests[r] # NoRequest /\ Known(session, token)
  BY <1>1, FreeHasNoStage DEF IssuedInv, Presented
\* One request changes, to one with the same token.
<1>3. ASSUME NEW x, session' \in [Sids -> Row], Grows(session, session'),
             requests' = [requests EXCEPT ![r] = x],
             \/ x = NoRequest
             \/ /\ x \in Sent \cup Taken \cup Turned /\ x.token = token
                /\ x.at = "granted" => Known(session', [sid |-> token.sid, generation |-> token.generation + 1])
      PROVE  IssuedInv'
  <2>1. \A t : Known(session, t) => Known(session', t)
    BY <1>3, KnownStays
  <2>2. Presented'
    BY <1>2, <1>3, <2>1 DEF IssuedInv, Presented, answer
  <2>3. Started' /\ Known(session', jar') /\ CookieTypes'
    BY <1>1, <1>3, <2>1 DEF IssuedInv, Started, CookieTypes
  <2> QED
    BY <2>2, <2>3 DEF IssuedInv
<1>4. Grows(session, session)
  BY DEF Grows, Row
<1>5. CASE Receive(r)
  <2>1. requests[r] \in Sent
    BY <1>2, <1>5, RequestShape DEF Receive, IssuedInv
  <2> DEFINE x == [at |-> IF token = NoToken THEN "refused" ELSE "lookup",
                   token |-> token, sentAt |-> requests[r].sentAt, now |-> clock]
  <2>2. x \in Taken \cup Turned /\ x.token = token /\ x.at # "granted"
    BY <2>1 DEF Sent, Taken, Turned
  <2>3. requests' = [requests EXCEPT ![r] = x] /\ session' = session
    BY <1>5 DEF Receive
  <2> HIDE DEF x
  <2> QED
    BY <1>3, <1>4, <2>2, <2>3
<1>6. ASSUME requests[r] \in Taken
      PROVE  \A at \in {"lookup", "rotate", "expire", "reuse", "granted", "refused"} :
               /\ [requests[r] EXCEPT !.at = at] \in Taken \cup Turned
               /\ [requests[r] EXCEPT !.at = at].token = token
               /\ [requests[r] EXCEPT !.at = at].at = at
  BY <1>6 DEF Taken, Turned
<1>7. ASSUME NEW at \in {"granted", "refused"}
      PROVE  \/ concluded(r, at) = [requests EXCEPT ![r] = NoRequest]
             \/ concluded(r, at) = [requests EXCEPT ![r] = [requests[r] EXCEPT !.at = at]]
  BY DEF concluded
<1>8. CASE Lookup(r)
  <2>1. requests[r] \in Taken /\ token \in Token
    BY <1>2, <1>8, RequestShape DEF Lookup, IssuedInv, Taken
  <2>2. session' = session
    BY <1>8 DEF Lookup
  <2>3. ASSUME NEW at \in {"expire", "rotate", "reuse"},
               requests' = [requests EXCEPT ![r].at = at]
        PROVE  IssuedInv'
    <3>1. requests' = [requests EXCEPT ![r] = [requests[r] EXCEPT !.at = at]]
      BY <2>3
    <3>2. /\ [requests[r] EXCEPT !.at = at] \in Taken \cup Turned
          /\ [requests[r] EXCEPT !.at = at].token = token
          /\ [requests[r] EXCEPT !.at = at].at # "granted"
      BY <1>6, <2>1
    <3> QED
      BY <1>3, <1>4, <2>2, <3>1, <3>2
  <2>4. CASE requests' = concluded(r, "refused")
    BY <1>3, <1>4, <1>6, <1>7, <2>1, <2>2, <2>4
  <2>5. CASE graced(session[token.sid], token, requests[r].now) /\ requests' = concluded(r, "granted")
    <3>1. token.generation + 1 = session[token.sid].generation
      BY <2>1, <2>5 DEF graced, Token, Row
    <3>2. Known(session, [sid |-> token.sid, generation |-> token.generation + 1])
      BY <1>2, <2>1, <3>1, NoTokenIsNone DEF Known, Token, Row
    <3> QED
      BY <1>3, <1>4, <1>6, <1>7, <2>1, <2>2, <2>5, <3>2
  <2> QED
    BY <1>8, <2>3, <2>4, <2>5 DEF Lookup
<1>9. CASE Rotate(r)
  <2>1. requests[r] \in Taken /\ token \in Token /\ requests[r].now \in Nat
    BY <1>2, <1>9, RequestShape DEF Rotate, IssuedInv, Taken
  <2>2. CASE requests' = [requests EXCEPT ![r].at = "lookup"] /\ session' = session
    BY <1>3, <1>4, <1>6, <2>1, <2>2
  <2>3. ASSUME session[token.sid].generation = token.generation,
               session' = [session EXCEPT ![token.sid].generation = @ + 1,
                                          ![token.sid].rotatedAt = requests[r].now,
                                          ![token.sid].lastUsedAt = requests[r].now],
               requests' = concluded(r, "granted")
        PROVE  IssuedInv'
    <3>1. PICK moved : /\ session' = [session EXCEPT ![token.sid] = moved]
                     /\ moved \in Row /\ moved.exists = session[token.sid].exists
                     /\ moved.generation = session[token.sid].generation + 1
      <4>1. session[token.sid] \in Row
        BY <2>1 DEF Token
      <4>2. session' = [session EXCEPT ![token.sid] =
               [session[token.sid] EXCEPT !.generation = @ + 1,
                                          !.rotatedAt = requests[r].now,
                                          !.lastUsedAt = requests[r].now]]
        BY <2>1, <2>3 DEF Token
      <4> QED
        BY <2>1, <4>1, <4>2, RotatedRow
    <3>2. session' \in [Sids -> Row] /\ Grows(session, session')
      BY <2>1, <3>1 DEF Grows, Row, Token
    <3>3. Known(session', [sid |-> token.sid, generation |-> token.generation + 1])
      BY <1>2, <2>1, <2>3, <3>1, NoTokenIsNone DEF Known, Token, Row
    <3> QED
      BY <1>3, <1>6, <1>7, <2>1, <2>3, <3>2, <3>3
  <2> QED
    BY <1>9, <2>2, <2>3 DEF Rotate
<1>10. CASE RevokeById(r)
  <2>1. requests[r] \in Taken /\ token \in Token
    BY <1>2, <1>10, RequestShape DEF RevokeById, IssuedInv, Taken
  <2>2. session' \in [Sids -> Row] /\ Grows(session, session')
    BY <1>10, <2>1, RevokedGrows DEF RevokeById, Token
  <2> QED
    BY <1>3, <1>6, <1>7, <1>10, <2>1, <2>2 DEF RevokeById
<1> QED
  BY <1>5, <1>8, <1>9, <1>10 DEF Serve

(***************************************************************************)
(* The cookie is one its session has issued, of a generation its row       *)
(* knows, for any number of tabs, sessions and refreshes: a rotation is    *)
(* made only of the row as it was read, in a statement of its own          *)
(* (session.service.ts:110-125), though others rotated it in between.      *)
(***************************************************************************)
THEOREM CookiesAreIssued == CookieSpec => []CookieIsIssued
<1>1. CookieInit => IssuedInv
  BY InitIssued
<1>2. IssuedInv /\ [CookieNext]_cookieVars => IssuedInv'
  <2> SUFFICES ASSUME IssuedInv, [CookieNext]_cookieVars PROVE IssuedInv'
    OBVIOUS
  <2>1. CASE UNCHANGED cookieVars
    BY <2>1 DEF cookieVars, serverVars, browserVars, IssuedInv, CookieTypes, Presented, Started
  <2>2. CASE Tick /\ UNCHANGED browserVars
    BY <2>2 DEF Tick, browserVars, IssuedInv, CookieTypes, Presented, Started
  <2> QED
    BY <2>1, <2>2, TabIssues, AnswerIssues, ServeIssues DEF CookieNext
<1>3. IssuedInv => CookieIsIssued
  BY DEF IssuedInv, Known, CookieIsIssued
<1> QED
  BY <1>1, <1>2, <1>3, PTL DEF CookieSpec
=============================================================================
