---------------------------- MODULE AccountsProofs ----------------------------
(***************************************************************************)
(* Who owns an instance, what an invitation or a reset code is good for,   *)
(* and which sessions outlive a change of password: for every instance and *)
(* every set of calls under way on it.                                     *)
(***************************************************************************)
EXTENDS Accounts, FiniteSetTheorems, TLAPS

IsSession(r) ==
  r = [user |-> r.user, made |-> r.made, under |-> r.under, live |-> r.live]
IsProgress(r) ==
  /\ r = [at |-> r.at, now |-> r.now, user |-> r.user, version |-> r.version,
          counted |-> r.counted, seen |-> r.seen]
  /\ r.version \in Nat

----------------------------------------------------------------------------
(* The inductive invariant.                                                *)

Shapes ==
  /\ IsTable(users) /\ \A u \in DOMAIN users : IsUser(users[u])
  /\ IsTable(invitations) /\ \A i \in DOMAIN invitations : IsInvitation(invitations[i])
  /\ IsTable(codes) /\ \A k \in DOMAIN codes : IsCode(codes[k])
  /\ IsTable(sessions) /\ \A s \in DOMAIN sessions : IsSession(sessions[s])
  /\ IsTable(progress) /\ DOMAIN progress = DOMAIN calls
  /\ \A c \in DOMAIN calls : IsProgress(progress[c])

\* Who may be at which statement.
Staged ==
  \A c \in DOMAIN calls :
    /\ at(c, "start") => is(c, {"login", "password", "register"})
    /\ at(c, "erase") => is(c, {"delete"})
    /\ at(c, "set") \/ at(c, "revoke") => is(c, {"password", "assign"})
    /\ at(c, "issue") \/ at(c, "commit") => is(c, {"issue"})

\* An id that is, or was, a user's is not that of a registration to come.
Born(u) ==
  u \in DOMAIN calls /\ is(u, {"register"}) =>
    progress[u].at \notin {"called", "admitted", "hashed"}

OwnerIsOne ==
  DOMAIN users # {} =>
    \E u \in DOMAIN users : \A v \in DOMAIN users : users[v].owner <=> v = u

People ==
  /\ \A u \in DOMAIN users : Born(u)
  /\ \A k \in DOMAIN codes : codes[k].user \in DOMAIN users
  /\ OwnerIsOne

\* A call that makes an invitation or a code has no step left once it has.
Made(x, kind) == x \in DOMAIN calls => is(x, {kind}) /\ at(x, "done")

\* What a call has used up is never to be had again.
Secrets ==
  /\ \A i \in DOMAIN invitations : Made(i, "invite") /\ i \notin DOMAIN codes
  /\ \A k \in DOMAIN codes : Made(k, "issue")
  /\ \A c \in DOMAIN calls : \A x \in progress[c].seen :
       /\ is(c, {"register"}) =>
            /\ Made(x, "invite") /\ x \notin DOMAIN codes
            /\ x \in DOMAIN invitations => invitations[x].used
       /\ is(c, {"reset"}) =>
            /\ Made(x, "issue") /\ x \notin DOMAIN invitations
            /\ x \in DOMAIN codes => codes[x].used

\* The user's password is at least that version, and the id not given again.
Renewed(u, v) == Born(u) /\ (u \in DOMAIN users => users[u].version >= v)

\* What c changed stays changed, and has ended what was open before.
Lasting(c) ==
  /\ changed(c) \/ at(c, "revoke") => Renewed(progress[c].user, progress[c].version)
  /\ \A s \in DOMAIN sessions :
       /\ changed(c) /\ sessions[s].user = progress[c].user
       /\ sessions[s].made < progress[c].version
       => ~sessions[s].live

Changes == \A c \in DOMAIN calls : Lasting(c)

Inv == Shapes /\ Staged /\ People /\ Secrets /\ SecretsWorkOnce /\ Changes

----------------------------------------------------------------------------
(* The steps.                                                              *)

\* Only c goes on, from one statement to the next.
Moves(c, from, to) ==
  /\ c \in DOMAIN calls
  /\ calls' = calls
  /\ progress[c].at = from /\ progress'[c].at = to
  /\ IsTable(progress') /\ DOMAIN progress' = DOMAIN calls
  /\ IsProgress(progress'[c])
  /\ \A d \in DOMAIN calls \ {c} : progress'[d] = progress[d]

\* A step that only brings a call closer to a statement that changes something.
Prepares(c) ==
  \E from \in {"called", "admitted", "verified", "allowed", "issue"} :
  \E to \in {"admitted", "limited", "verified", "refused", "start", "erase", "set",
             "hashed", "allowed", "issue", "commit"} :
    /\ Moves(c, from, to)
    /\ UNCHANGED <<users, invitations, codes, sessions>>
    /\ to = "admitted" => from = "called"
    /\ to = "hashed" => from = "admitted"
    /\ to = "start" => is(c, {"login"})
    /\ to = "erase" => is(c, {"delete"})
    /\ to = "set" => is(c, {"password", "assign"})
    /\ to \in {"issue", "commit"} => is(c, {"issue"})
    /\ is(c, {"issue"}) \/ progress'[c].seen = progress[c].seen

Row(a, n, u, v, k, s) ==
  [at |-> a, now |-> n, user |-> u, version |-> v, counted |-> k, seen |-> s]

\* c gets as far as row says, and nobody else any further.
Becomes(c, row) ==
  /\ IsTable(progress') /\ DOMAIN progress' = DOMAIN calls
  /\ progress'[c] = row
  /\ \A d \in DOMAIN calls \ {c} : progress'[d] = progress[d]

\* The ways the actions write a call's progress.
LEMMA ProgressBecomes ==
  ASSUME Shapes, NEW c \in DOMAIN calls, NEW a, NEW n, NEW u, NEW v, NEW k, NEW s
  PROVE  LET p == progress[c] IN
    /\ goes(c, a)
       => Becomes(c, Row(a, p.now, p.user, p.version, p.counted, p.seen))
    /\ progress' = [progress EXCEPT ![c].now = n, ![c].at = a]
       => Becomes(c, Row(a, n, p.user, p.version, p.counted, p.seen))
    /\ progress' = [progress EXCEPT ![c].at = a, ![c].now = n]
       => Becomes(c, Row(a, n, p.user, p.version, p.counted, p.seen))
    /\ progress' = [progress EXCEPT ![c].at = a, ![c].user = u]
       => Becomes(c, Row(a, p.now, u, p.version, p.counted, p.seen))
    /\ progress' = [progress EXCEPT ![c].at = a, ![c].user = u, ![c].version = v]
       => Becomes(c, Row(a, p.now, u, v, p.counted, p.seen))
    /\ progress' = [progress EXCEPT ![c].at = a, ![c].user = u, ![c].now = n]
       => Becomes(c, Row(a, n, u, p.version, p.counted, p.seen))
    /\ progress' = [progress EXCEPT ![c].at = a, ![c].version = v]
       => Becomes(c, Row(a, p.now, p.user, v, p.counted, p.seen))
    /\ progress' = [progress EXCEPT ![c].at = a, ![c].counted = k]
       => Becomes(c, Row(a, p.now, p.user, p.version, k, p.seen))
    /\ progress' = [progress EXCEPT ![c].at = a, ![c].seen = s]
       => Becomes(c, Row(a, p.now, p.user, p.version, p.counted, s))
    /\ progress' = [progress EXCEPT ![c].at = a, ![c].user = u, ![c].seen = s]
       => Becomes(c, Row(a, p.now, u, p.version, p.counted, s))
    /\ progress' = [progress EXCEPT ![c].at = a, ![c].seen = s, ![c].user = u, ![c].version = v]
       => Becomes(c, Row(a, p.now, u, v, p.counted, s))
<1> DEFINE p == progress[c]
<1>0. /\ IsTable(progress) /\ DOMAIN progress = DOMAIN calls /\ IsProgress(p)
  BY DEF Shapes
<1>1. goes(c, a)
       => Becomes(c, Row(a, p.now, p.user, p.version, p.counted, p.seen))
  BY <1>0 DEF IsTable, IsProgress, Becomes, Row, goes
<1>2. progress' = [progress EXCEPT ![c].now = n, ![c].at = a]
       => Becomes(c, Row(a, n, p.user, p.version, p.counted, p.seen))
  BY <1>0 DEF IsTable, IsProgress, Becomes, Row
<1>3. progress' = [progress EXCEPT ![c].at = a, ![c].now = n]
       => Becomes(c, Row(a, n, p.user, p.version, p.counted, p.seen))
  BY <1>0 DEF IsTable, IsProgress, Becomes, Row
<1>4. progress' = [progress EXCEPT ![c].at = a, ![c].user = u]
       => Becomes(c, Row(a, p.now, u, p.version, p.counted, p.seen))
  BY <1>0 DEF IsTable, IsProgress, Becomes, Row
<1>5. progress' = [progress EXCEPT ![c].at = a, ![c].user = u, ![c].version = v]
       => Becomes(c, Row(a, p.now, u, v, p.counted, p.seen))
  BY <1>0 DEF IsTable, IsProgress, Becomes, Row
<1>6. progress' = [progress EXCEPT ![c].at = a, ![c].user = u, ![c].now = n]
       => Becomes(c, Row(a, n, u, p.version, p.counted, p.seen))
  BY <1>0 DEF IsTable, IsProgress, Becomes, Row
<1>7. progress' = [progress EXCEPT ![c].at = a, ![c].version = v]
       => Becomes(c, Row(a, p.now, p.user, v, p.counted, p.seen))
  BY <1>0 DEF IsTable, IsProgress, Becomes, Row
<1>8. progress' = [progress EXCEPT ![c].at = a, ![c].counted = k]
       => Becomes(c, Row(a, p.now, p.user, p.version, k, p.seen))
  BY <1>0 DEF IsTable, IsProgress, Becomes, Row
<1>9. progress' = [progress EXCEPT ![c].at = a, ![c].seen = s]
       => Becomes(c, Row(a, p.now, p.user, p.version, p.counted, s))
  BY <1>0 DEF IsTable, IsProgress, Becomes, Row
<1>10. progress' = [progress EXCEPT ![c].at = a, ![c].user = u, ![c].seen = s]
       => Becomes(c, Row(a, p.now, u, p.version, p.counted, s))
  BY <1>0 DEF IsTable, IsProgress, Becomes, Row
<1>11. progress' = [progress EXCEPT ![c].at = a, ![c].seen = s, ![c].user = u, ![c].version = v]
       => Becomes(c, Row(a, p.now, u, v, p.counted, s))
  BY <1>0 DEF IsTable, IsProgress, Becomes, Row
<1> QED
  BY <1>1, <1>2, <1>3, <1>4, <1>5, <1>6, <1>7, <1>8, <1>9, <1>10, <1>11

LEMMA Moved ==
  ASSUME NEW c \in DOMAIN calls, calls' = calls,
         NEW a, NEW n, NEW u, NEW v \in Nat, NEW k, NEW s,
         Becomes(c, Row(a, n, u, v, k, s))
  PROVE  /\ Moves(c, progress[c].at, a)
         /\ progress'[c].seen = s /\ progress'[c].user = u /\ progress'[c].version = v
BY DEF Becomes, Row, Moves, IsProgress

LEMMA GoesMoves ==
  ASSUME Shapes, NEW c \in DOMAIN calls, NEW to, goes(c, to), calls' = calls
  PROVE  /\ Moves(c, progress[c].at, to)
         /\ progress'[c].seen = progress[c].seen
         /\ progress'[c].user = progress[c].user
         /\ progress'[c].version = progress[c].version
<1> DEFINE p == progress[c]
<1>1. Becomes(c, Row(to, p.now, p.user, p.version, p.counted, p.seen)) /\ p.version \in Nat
  BY ProgressBecomes DEF Shapes, IsProgress
<1> QED
  BY <1>1, Moved

LEMMA Preparations ==
  ASSUME Shapes, Staged, NEW c \in DOMAIN calls
  PROVE  /\ Admit(c) => Prepares(c)
         /\ VerifyPassword(c) => Prepares(c)
         /\ Verified(c) => Prepares(c)
         /\ CheckOpen(c) => Prepares(c)
         /\ CheckOwner(c) => Prepares(c)
         /\ FindTarget(c) => Prepares(c)
         /\ FindOwner(c) => Prepares(c)
         /\ SpendCodes(c) => Prepares(c)
         /\ Hash(c) => Prepares(c)
<1> DEFINE p == progress[c]
           still == UNCHANGED <<users, invitations, codes, sessions, calls>>
<1>0. p.version \in Nat
  BY DEF Shapes, IsProgress
<1>1. ASSUME Admit(c) PROVE Prepares(c)
  <2>1. at(c, "called") /\ still
    BY <1>1 DEF Admit
  <2>2. PICK to \in {"admitted", "limited"} :
          Becomes(c, Row(to, clock, p.user, p.version, p.counted, p.seen))
    BY <1>1, ProgressBecomes DEF Admit
  <2>3. Moves(c, "called", to) /\ progress'[c].seen = p.seen
    BY <1>0, <2>1, <2>2, Moved DEF at
  <2> QED
    BY <2>1, <2>3 DEF Prepares
<1>2. ASSUME VerifyPassword(c) PROVE Prepares(c)
  <2>1. at(c, "admitted") /\ still
    BY <1>2 DEF VerifyPassword
  <2>2. CASE goes(c, "refused")
    BY <2>1, <2>2, GoesMoves DEF Prepares, at
  <2>3. ASSUME NEW u \in DOMAIN users,
               progress' = [progress EXCEPT ![c].at = "verified", ![c].user = u,
                                            ![c].version = users[u].version]
        PROVE  Prepares(c)
    <3>1. Becomes(c, Row("verified", p.now, u, users[u].version, p.counted, p.seen))
      BY <2>3, ProgressBecomes
    <3>2. users[u].version \in Nat
      BY DEF Shapes, IsUser
    <3> QED
      BY <2>1, <3>1, <3>2, Moved DEF Prepares, at
  <2> QED
    BY <1>2, <2>2, <2>3 DEF VerifyPassword, idOf
<1>3. ASSUME Verified(c) PROVE Prepares(c)
  <2>1. at(c, "verified") /\ still
    BY <1>3 DEF Verified
  <2>2. PICK to \in {"start", "erase", "set", "refused"} :
          /\ goes(c, to)
          /\ to = "start" => is(c, {"login"})
          /\ to = "erase" => is(c, {"delete"})
          /\ to = "set" => is(c, {"password"})
    BY <1>3 DEF Verified
  <2> QED
    BY <2>1, <2>2, GoesMoves DEF Prepares, at, is
<1>4. ASSUME CheckOpen(c) PROVE Prepares(c)
  <2>1. at(c, "admitted") /\ still
    BY <1>4 DEF CheckOpen
  <2>2. PICK to \in {"refused", "hashed"} :
          Becomes(c, Row(to, p.now, p.user, p.version, registrationOpen, p.seen))
    BY <1>4, ProgressBecomes DEF CheckOpen
  <2> QED
    BY <2>1, <2>2, <1>0, Moved DEF Prepares, at
<1>5. ASSUME CheckOwner(c) PROVE Prepares(c)
  <2>1. at(c, "called") /\ still
    BY <1>5 DEF CheckOwner
  <2>2. PICK to \in {"refused", "allowed"} :
          Becomes(c, Row(to, clock, p.user, p.version, p.counted, p.seen))
    BY <1>5, ProgressBecomes DEF CheckOwner
  <2> QED
    BY <2>1, <2>2, <1>0, Moved DEF Prepares, at
<1>6. ASSUME FindTarget(c) PROVE Prepares(c)
  <2>1. at(c, "allowed") /\ is(c, {"assign"}) /\ still
    BY <1>6 DEF FindTarget
  <2>2. CASE goes(c, "refused")
    BY <2>1, <2>2, GoesMoves DEF Prepares, at
  <2>3. CASE progress' = [progress EXCEPT ![c].at = "set", ![c].user = calls[c].target]
    <3>1. Becomes(c, Row("set", p.now, calls[c].target, p.version, p.counted, p.seen))
      BY <2>3, ProgressBecomes
    <3> QED
      BY <2>1, <3>1, <1>0, Moved DEF Prepares, at, is
  <2> QED
    BY <1>6, <2>2, <2>3 DEF FindTarget
<1>7. ASSUME FindOwner(c) PROVE Prepares(c)
  <2>1. at(c, "called") /\ is(c, {"issue"}) /\ still
    BY <1>7 DEF FindOwner
  <2>2. CASE goes(c, "refused")
    BY <2>1, <2>2, GoesMoves DEF Prepares, at
  <2>3. ASSUME NEW u, progress' = [progress EXCEPT ![c].at = "issue", ![c].user = u,
                                                   ![c].now = clock]
        PROVE  Prepares(c)
    <3>1. Becomes(c, Row("issue", clock, u, p.version, p.counted, p.seen))
      BY <2>3, ProgressBecomes
    <3> QED
      BY <2>1, <3>1, <1>0, Moved DEF Prepares, at
  <2> QED
    BY <1>7, <2>2, <2>3 DEF FindOwner
<1>8. ASSUME SpendCodes(c) PROVE Prepares(c)
  <2>1. at(c, "issue") /\ is(c, {"issue"}) /\ still
    BY <1>8 DEF SpendCodes, Staged
  <2>2. Becomes(c, Row("commit", p.now, p.user, p.version, p.counted, unspentOf(p.user)))
    BY <1>8, ProgressBecomes DEF SpendCodes
  <2> QED
    BY <2>1, <2>2, <1>0, Moved DEF Prepares, at
<1>9. ASSUME Hash(c) PROVE Prepares(c)
  <2>1. at(c, "admitted") /\ still
    BY <1>9 DEF Hash
  <2>2. PICK to \in {"hashed", "refused"} : goes(c, to)
    BY <1>9 DEF Hash
  <2> QED
    BY <2>1, <2>2, GoesMoves DEF Prepares, at
<1> QED
  BY <1>1, <1>2, <1>3, <1>4, <1>5, <1>6, <1>7, <1>8, <1>9

----------------------------------------------------------------------------
(* The tables after a statement.                                           *)

LEMMA PasswordSet ==
  ASSUME Shapes, NEW u \in DOMAIN users, NEW password, users' = passwordSet(u, password)
  PROVE  /\ IsTable(users') /\ DOMAIN users' = DOMAIN users
         /\ \A v \in DOMAIN users : IsUser(users'[v]) /\ users'[v].owner = users[v].owner
         /\ \A v \in DOMAIN users : users'[v].version >= users[v].version
         /\ users'[u].version = users[u].version + 1
<1>1. IsTable(users') /\ DOMAIN users' = DOMAIN users
  BY DEF Shapes, passwordSet, IsTable
<1>2. \A v \in DOMAIN users \ {u} : users'[v] = users[v]
  BY DEF Shapes, passwordSet, IsTable
<1>3. users'[u] = [address |-> users[u].address, password |-> password,
                   owner |-> users[u].owner, version |-> users[u].version + 1]
  <2>1. users'[u] = [users[u] EXCEPT !.password = password, !.version = @ + 1]
    BY DEF Shapes, passwordSet, IsTable
  <2>2. IsUser(users[u])
    BY DEF Shapes
  <2> QED
    BY <2>1, <2>2 DEF IsUser
<1>4. \A v \in DOMAIN users : users[v].version \in Nat /\ IsUser(users[v])
  BY DEF Shapes, IsUser
<1>5. IsUser(users'[u]) /\ users'[u].owner = users[u].owner
      /\ users'[u].version = users[u].version + 1
  BY <1>3, <1>4 DEF IsUser
<1> QED
  BY <1>1, <1>2, <1>4, <1>5

LEMMA SessionsEnded ==
  ASSUME Shapes, NEW u, sessions' = ended(u)
  PROVE  /\ IsTable(sessions') /\ DOMAIN sessions' = DOMAIN sessions
         /\ \A s \in DOMAIN sessions :
              /\ IsSession(sessions'[s])
              /\ sessions'[s].user = sessions[s].user
              /\ sessions'[s].made = sessions[s].made
              /\ sessions[s].user = u => ~sessions'[s].live
              /\ ~sessions[s].live => ~sessions'[s].live
<1>1. IsTable(sessions') /\ DOMAIN sessions' = DOMAIN sessions
  BY DEF Shapes, ended, IsTable
<1>2. ASSUME NEW s \in DOMAIN sessions, sessions[s].user = u
      PROVE  sessions'[s] = [user |-> u, made |-> sessions[s].made,
                            under |-> sessions[s].under, live |-> FALSE]
  <2>1. sessions'[s] = [sessions[s] EXCEPT !.live = FALSE]
    BY <1>2 DEF ended
  <2>2. IsSession(sessions[s])
    BY DEF Shapes
  <2> QED
    BY <1>2, <2>1, <2>2 DEF IsSession
<1>3. ASSUME NEW s \in DOMAIN sessions, sessions[s].user # u
      PROVE  sessions'[s] = sessions[s] /\ IsSession(sessions[s])
  BY <1>3 DEF Shapes, ended
<1> QED
  BY <1>1, <1>2, <1>3 DEF IsSession

----------------------------------------------------------------------------
(* What a step leaves of each part of the invariant.                       *)

LEMMA MovesKeep ==
  ASSUME NEW c, NEW from, NEW to, Moves(c, from, to), from # "done", to # "called",
         to = "admitted" => from = "called",
         to = "hashed" => from = "admitted"
  PROVE  /\ \A u : Born(u) => Born(u)'
         /\ \A x, kind : Made(x, kind) => Made(x, kind)'
BY DEF Moves, Born, Made, at, is

LEMMA StagedKept ==
  ASSUME Staged, NEW c, NEW from, NEW to, Moves(c, from, to),
         to = "start" => is(c, {"login", "password", "register"}),
         to = "erase" => is(c, {"delete"}),
         to \in {"set", "revoke"} => is(c, {"password", "assign"}),
         to \in {"issue", "commit"} => is(c, {"issue"})
  PROVE  Staged'
BY DEF Staged, Moves, at, is

\* Rows may go, and used ones stay used.
Keeps(f, g) ==
  /\ DOMAIN g \subseteq DOMAIN f
  /\ \A x \in DOMAIN g : f[x].used => g[x].used

LEMMA SecretsKept ==
  ASSUME Secrets, SecretsWorkOnce, NEW c, NEW from, NEW to, Moves(c, from, to),
         \A x, kind : Made(x, kind) => Made(x, kind)',
         Keeps(invitations, invitations'), Keeps(codes, codes'),
         is(c, {"issue"}) \/ progress'[c].seen = progress[c].seen
  PROVE  Secrets' /\ SecretsWorkOnce'
<1>1. \A d \in DOMAIN calls :
        ~is(d, {"issue"}) => progress'[d].seen = progress[d].seen
  BY DEF Moves
<1>2. ASSUME NEW d \in DOMAIN calls, NEW x \in progress'[d].seen
      PROVE  /\ is(d, {"register"}) =>
                  /\ Made(x, "invite")' /\ x \notin DOMAIN codes'
                  /\ x \in DOMAIN invitations' => invitations'[x].used
             /\ is(d, {"reset"}) =>
                  /\ Made(x, "issue")' /\ x \notin DOMAIN invitations'
                  /\ x \in DOMAIN codes' => codes'[x].used
  BY <1>1, <1>2 DEF Secrets, Keeps, is
<1>3. /\ \A i \in DOMAIN invitations' : Made(i, "invite")' /\ i \notin DOMAIN codes'
      /\ \A k \in DOMAIN codes' : Made(k, "issue")'
  BY DEF Secrets, Keeps
<1>4. Secrets'
  BY <1>2, <1>3 DEF Secrets, Moves, is
<1>5. SecretsWorkOnce'
  BY <1>1 DEF SecretsWorkOnce, Moves, is
<1> QED
  BY <1>4, <1>5

\* Everyone but c; sessions and users may come, the former made under the
\* password of the moment and the latter with an id of their own.
LEMMA ChangesKept ==
  ASSUME Shapes, People, Changes, NEW c, NEW from, NEW to, Moves(c, from, to),
         \A u : Born(u) => Born(u)',
         \A u \in DOMAIN users' :
           \/ u \in DOMAIN users /\ users'[u].version \in Nat
              /\ users'[u].version >= users[u].version
           \/ ~Born(u),
         \A s \in DOMAIN sessions' :
           \/ /\ s \in DOMAIN sessions
              /\ sessions'[s].user = sessions[s].user
              /\ sessions'[s].made = sessions[s].made
              /\ ~sessions[s].live => ~sessions'[s].live
           \/ /\ sessions'[s].user \in DOMAIN users
              /\ sessions'[s].made = users[sessions'[s].user].version
  PROVE  \A d \in DOMAIN calls \ {c} : Lasting(d)'
<1> TAKE d \in DOMAIN calls \ {c}
<1>1. progress'[d] = progress[d] /\ (changed(d)' <=> changed(d)) /\ calls' = calls
  BY DEF Moves, changed, at, is
<1> DEFINE u == progress[d].user
           v == progress[d].version
<1>0. v \in Nat /\ \A x \in DOMAIN users : users[x].version \in Nat
  BY DEF Shapes, IsProgress, IsUser
<1>2. ASSUME changed(d) \/ at(d, "revoke")
      PROVE  Renewed(u, v) /\ Renewed(u, v)'
  <2>1. Renewed(u, v)
    BY <1>2 DEF Changes, Lasting
  <2>2. u \in DOMAIN users' => users'[u].version >= v
    BY <1>0, <2>1 DEF Renewed
  <2> QED
    BY <1>1, <2>1, <2>2 DEF Renewed
<1>3. ASSUME changed(d), NEW s \in DOMAIN sessions', sessions'[s].user = u,
             sessions'[s].made < v
      PROVE  ~sessions'[s].live
  <2>1. Renewed(u, v)
    BY <1>2, <1>3
  <2>2. ~(u \in DOMAIN users /\ users[u].version < v)
    BY <1>0, <2>1 DEF Renewed
  <2> QED
    BY <1>3, <2>2 DEF Changes, Lasting
<1> QED
  BY <1>1, <1>2, <1>3 DEF Lasting, at

----------------------------------------------------------------------------
(* Each action.                                                            *)

LEMMA Beginning == Init => Inv
<1> SUFFICES ASSUME Init PROVE Inv
  OBVIOUS
<1>1. PICK w \in Worlds :
        /\ users = w.users /\ invitations = w.invitations /\ codes = w.codes
        /\ sessions = 
             [u \in DOMAIN w.users |-> [user |-> u, live |-> TRUE, made |-> 0, under |-> 0]]
        /\ calls = w.calls /\ progress = [c \in DOMAIN w.calls |-> Called]
  BY DEF Init
<1>2. \A c \in DOMAIN calls : progress[c].at = "called" /\ progress[c].seen = {}
  BY <1>1 DEF Called
<1>3. Shapes
  <2>1. /\ IsTable(users) /\ \A u \in DOMAIN users : IsUser(users[u])
        /\ IsTable(invitations)
        /\ \A i \in DOMAIN invitations : IsInvitation(invitations[i])
        /\ IsTable(codes) /\ \A k \in DOMAIN codes : IsCode(codes[k])
    BY <1>1, WorldsOK
  <2>2. IsTable(sessions) /\ \A s \in DOMAIN sessions : IsSession(sessions[s])
    BY <1>1 DEF IsTable, IsSession
  <2>3. /\ IsTable(progress) /\ DOMAIN progress = DOMAIN calls
        /\ \A c \in DOMAIN calls : IsProgress(progress[c])
    BY <1>1 DEF IsTable, IsProgress, Called
  <2> QED
    BY <2>1, <2>2, <2>3 DEF Shapes
<1>4. Staged
  BY <1>2 DEF Staged, at
<1>5. People
  BY <1>1, WorldsOK DEF People, Born, OwnerIsOne
<1>6. Secrets
  BY <1>1, <1>2, WorldsOK DEF Secrets, Made
<1>7. SecretsWorkOnce
  BY <1>2 DEF SecretsWorkOnce
<1>8. Changes
  BY <1>2 DEF Changes, Lasting, changed, at
<1> QED
  BY <1>3, <1>4, <1>5, <1>6, <1>7, <1>8 DEF Inv

LEMMA AfterPreparing == ASSUME Inv, NEW c, Prepares(c) PROVE Inv'
<1>1. PICK from, to :
        /\ Moves(c, from, to)
        /\ from \in {"called", "admitted", "verified", "allowed", "issue"}
        /\ to \in {"admitted", "limited", "verified", "refused", "start", "erase",
                   "set", "hashed", "allowed", "issue", "commit"}
        /\ to = "admitted" => from = "called"
        /\ to = "hashed" => from = "admitted"
        /\ to = "start" => is(c, {"login"})
        /\ to = "erase" => is(c, {"delete"})
        /\ to = "set" => is(c, {"password", "assign"})
        /\ to \in {"issue", "commit"} => is(c, {"issue"})
        /\ is(c, {"issue"}) \/ progress'[c].seen = progress[c].seen
  BY DEF Prepares
<1>2. UNCHANGED <<users, invitations, codes, sessions, calls>>
  BY DEF Prepares, Moves
<1>3. /\ \A u : Born(u) => Born(u)'
      /\ \A x, kind : Made(x, kind) => Made(x, kind)'
  BY <1>1, MovesKeep
<1>4. Shapes'
  BY <1>1, <1>2 DEF Inv, Shapes, Moves
<1>5. Staged'
  BY <1>1, StagedKept DEF Inv, is
<1>6. People'
  BY <1>2, <1>3 DEF Inv, People, OwnerIsOne
<1>7. Secrets' /\ SecretsWorkOnce'
  BY <1>1, <1>2, <1>3, SecretsKept DEF Inv, Keeps
<1>8. Changes'
  <2>1. \A u \in DOMAIN users : users[u].version \in Nat
    BY DEF Inv, Shapes, IsUser
  <2>2. \A d \in DOMAIN calls \ {c} : Lasting(d)'
    BY <1>1, <1>2, <1>3, <2>1, ChangesKept DEF Inv
  <2>3. ~changed(c)' /\ ~at(c, "revoke")'
    BY <1>1, <1>2 DEF Moves, changed, at, is
  <2> QED
    BY <1>2, <2>2, <2>3 DEF Changes, Lasting
<1> QED
  BY <1>4, <1>5, <1>6, <1>7, <1>8 DEF Inv

LEMMA AfterStartSession == ASSUME Inv, NEW c \in DOMAIN calls, StartSession(c) PROVE Inv'
<1> DEFINE user == progress[c].user
           version == progress[c].version
<1>1. /\ at(c, "start") /\ is(c, {"login", "password", "register"})
      /\ UNCHANGED <<users, invitations, codes, calls>>
  BY DEF StartSession, Inv, Staged
<1>2. PICK to \in {"done", "failed"} :
        /\ goes(c, to)
        /\ to = "failed" => user \notin DOMAIN users /\ sessions' = sessions
        /\ to = "done" =>
             /\ user \in DOMAIN users
             /\ sessions' = with(sessions, c, [user |-> user, live |-> TRUE,
                  made |-> users[user].version, under |-> progress[c].version])
  BY DEF StartSession
<1>3. /\ Moves(c, "start", to) /\ progress'[c].seen = progress[c].seen
      /\ progress'[c].user = user /\ progress'[c].version = progress[c].version
  BY <1>1, <1>2, GoesMoves DEF Inv, at
<1>4. /\ \A u : Born(u) => Born(u)'
      /\ \A x, kind : Made(x, kind) => Made(x, kind)'
  BY <1>2, <1>3, MovesKeep
<1>5. /\ IsTable(sessions') /\ \A s \in DOMAIN sessions' : IsSession(sessions'[s])
      /\ \A s \in DOMAIN sessions' :
           \/ s \in DOMAIN sessions /\ sessions'[s] = sessions[s]
           \/ /\ sessions'[s].user \in DOMAIN users
              /\ sessions'[s].made = users[sessions'[s].user].version
  <2>1. CASE to = "failed"
    BY <1>2, <2>1 DEF Inv, Shapes
  <2>2. CASE to = "done"
    <3> DEFINE row == [user |-> user, live |-> TRUE, made |-> users[user].version,
                       under |-> progress[c].version]
    <3>1. user \in DOMAIN users /\ sessions' = with(sessions, c, row)
      BY <1>2, <2>2
    <3>3. IsSession(row) /\ row.user = user /\ row.made = users[user].version
      BY DEF IsSession
    <3> HIDE DEF row
    <3>2. /\ IsTable(sessions') /\ DOMAIN sessions' = DOMAIN sessions \cup {c}
          /\ sessions'[c] = row
          /\ \A s \in DOMAIN sessions \ {c} : sessions'[s] = sessions[s]
      BY <3>1 DEF with, IsTable
    <3>4. \A s \in DOMAIN sessions' : IsSession(sessions'[s])
      BY <3>2, <3>3 DEF Inv, Shapes
    <3>5. /\ sessions'[c].user \in DOMAIN users
          /\ sessions'[c].made = users[sessions'[c].user].version
      BY <3>1, <3>2, <3>3
    <3> QED
      BY <3>2, <3>4, <3>5
  <2> QED
    BY <2>1, <2>2
<1>6. Shapes'
  BY <1>1, <1>3, <1>5 DEF Inv, Shapes, Moves
<1>7. Staged'
  BY <1>2, <1>3, StagedKept DEF Inv
<1>8. People'
  BY <1>1, <1>4 DEF Inv, People, OwnerIsOne
<1>9. Secrets' /\ SecretsWorkOnce'
  BY <1>1, <1>3, <1>4, <1>2, SecretsKept DEF Inv, Keeps
<1>10. Changes'
  <2>1. \A u \in DOMAIN users : users[u].version \in Nat
    BY DEF Inv, Shapes, IsUser
  <2>2. \A d \in DOMAIN calls \ {c} : Lasting(d)'
    BY <1>1, <1>3, <1>4, <1>5, <2>1, ChangesKept DEF Inv
  <2>3. changed(c)' => changed(c) /\ ~at(c, "revoke")'
    BY <1>1, <1>2, <1>3 DEF Moves, changed, at, is
  <2>4. ~at(c, "revoke")'
    BY <1>2, <1>3 DEF Moves, at
  <2>5. ASSUME changed(c) PROVE Renewed(user, version) /\ Renewed(user, version)'
    <3>1. Renewed(user, version)
      BY <2>5 DEF Inv, Changes, Lasting
    <3> QED
      BY <1>1, <1>3, <1>4, <3>1 DEF Renewed
  <2>6. ASSUME changed(c), NEW s \in DOMAIN sessions', sessions'[s].user = user,
               sessions'[s].made < version
        PROVE  ~sessions'[s].live
    <3>1. version \in Nat /\ \A u \in DOMAIN users : users[u].version \in Nat
      BY <2>1 DEF Inv, Shapes, IsProgress
    <3>2. user \in DOMAIN users => ~(users[user].version < version)
      BY <2>5, <2>6, <3>1 DEF Renewed
    <3> QED
      BY <1>5, <2>6, <3>2 DEF Inv, Changes, Lasting
  <2>7. Lasting(c)'
    BY <1>3, <2>3, <2>4, <2>5, <2>6 DEF Lasting
  <2> QED
    BY <1>1, <2>2, <2>7 DEF Changes
<1> QED
  BY <1>6, <1>7, <1>8, <1>9, <1>10 DEF Inv

LEMMA AfterRegister == ASSUME Inv, NEW c \in DOMAIN calls, Register(c) PROVE Inv'
<1> DEFINE token == calls[c].invitation
           row == [address |-> calls[c].address, version |-> 0,
                   password |-> calls[c].password, owner |-> isFirst(c)]
<1>1. /\ at(c, "hashed") /\ is(c, {"register"})
      /\ UNCHANGED <<codes, sessions, calls>>
  BY DEF Register
<1>2. CASE goes(c, "refused") /\ UNCHANGED <<users, invitations>>
  <2>1. /\ Moves(c, "hashed", "refused") /\ progress'[c].seen = progress[c].seen
    BY <1>1, <1>2, GoesMoves DEF Inv, at
  <2>2. /\ \A u : Born(u) => Born(u)'
        /\ \A x, kind : Made(x, kind) => Made(x, kind)'
    BY <2>1, MovesKeep
  <2>3. Shapes'
    BY <1>1, <1>2, <2>1 DEF Inv, Shapes, Moves
  <2>4. Staged'
    BY <2>1, StagedKept DEF Inv
  <2>5. People'
    BY <1>1, <1>2, <2>2 DEF Inv, People, OwnerIsOne
  <2>6. Secrets' /\ SecretsWorkOnce'
    BY <1>1, <1>2, <2>1, <2>2, SecretsKept DEF Inv, Keeps
  <2>7. \A u \in DOMAIN users : users[u].version \in Nat
    BY DEF Inv, Shapes, IsUser
  <2>8. \A d \in DOMAIN calls \ {c} : Lasting(d)'
    BY <1>1, <1>2, <2>1, <2>2, <2>7, ChangesKept DEF Inv
  <2>9. Lasting(c)'
    BY <2>1 DEF Moves, Lasting, changed, at
  <2>10. Changes'
    BY <1>1, <2>8, <2>9 DEF Changes
  <2> QED
    BY <2>3, <2>4, <2>5, <2>6, <2>10 DEF Inv
<1>3. ASSUME isFirst(c) \/ usable(c),
             users' = with(users, c, row),
             invitations' = [i \in DOMAIN invitations |->
                IF i = token /\ ~isFirst(c)
                THEN [invitations[i] EXCEPT !.used = TRUE] ELSE invitations[i]],
             progress' = [progress EXCEPT ![c].at = "start", ![c].user = c,
                ![c].seen = IF isFirst(c) THEN {} ELSE {token}]
      PROVE  Inv'
  <2>1. /\ Moves(c, "hashed", "start") /\ progress'[c].user = c
        /\ progress'[c].seen = IF isFirst(c) THEN {} ELSE {token}
    <3>1. Becomes(c, Row("start", progress[c].now, c, progress[c].version, progress[c].counted,
                         IF isFirst(c) THEN {} ELSE {token}))
      BY <1>3, ProgressBecomes DEF Inv
    <3>2. progress[c].version \in Nat
      BY DEF Inv, Shapes, IsProgress
    <3> QED
      BY <1>1, <3>1, <3>2, Moved DEF at
  <2>2. /\ \A u : Born(u) => Born(u)'
        /\ \A x, kind : Made(x, kind) => Made(x, kind)'
    BY <2>1, MovesKeep
  <2>3. ~Born(c) /\ Born(c)'
    BY <1>1, <2>1 DEF Born, Moves, at
  <2>4. /\ IsTable(users') /\ DOMAIN users' = DOMAIN users \cup {c}
        /\ users'[c] = row /\ \A u \in DOMAIN users \ {c} : users'[u] = users[u]
    <3> HIDE DEF row
    <3> QED
      BY <1>3 DEF with, IsTable
  <2>5. /\ IsTable(invitations') /\ DOMAIN invitations' = DOMAIN invitations
        /\ \A i \in DOMAIN invitations :
             /\ IsInvitation(invitations'[i])
             /\ invitations[i].used => invitations'[i].used
             /\ i = token /\ ~isFirst(c) => invitations'[i].used
    <3>1. IsTable(invitations') /\ DOMAIN invitations' = DOMAIN invitations
      BY <1>3 DEF IsTable
    <3>2. ASSUME NEW i \in DOMAIN invitations, i = token, ~isFirst(c)
          PROVE  IsInvitation(invitations'[i]) /\ invitations'[i].used
      <4>1. invitations'[i] = [invitations[i] EXCEPT !.used = TRUE]
        BY <1>3, <3>2
      <4>2. IsInvitation(invitations[i])
        BY DEF Inv, Shapes
      <4> QED
        BY <4>1, <4>2 DEF IsInvitation
    <3>3. ASSUME NEW i \in DOMAIN invitations, ~(i = token /\ ~isFirst(c))
          PROVE  IsInvitation(invitations'[i]) /\ invitations'[i] = invitations[i]
      BY <1>3, <3>3 DEF Inv, Shapes
    <3> QED
      BY <3>1, <3>2, <3>3
  <2>6. IsUser(row) /\ row.version = 0 /\ (row.owner <=> isFirst(c))
    BY DEF IsUser
  <2> HIDE DEF row
  <2>7. Shapes'
    <3>1. \A u \in DOMAIN users' : IsUser(users'[u])
      BY <2>4, <2>6 DEF Inv, Shapes
    <3>2. \A d \in DOMAIN calls : IsProgress(progress'[d])
      BY <2>1 DEF Inv, Shapes, Moves
    <3> QED
      BY <1>1, <2>1, <2>4, <2>5, <3>1, <3>2 DEF Inv, Shapes, Moves
  <2>8. Staged'
    BY <1>1, <2>1, StagedKept DEF Inv, is
  <2>9. People'
    <3>1. c \notin DOMAIN users
      BY <2>3 DEF Inv, People
    <3>2. OwnerIsOne'
      <4>1. CASE isFirst(c)
        <5>1. DOMAIN users' = {c} /\ users'[c].owner
          BY <2>4, <2>6, <4>1 DEF isFirst, registrationOpen
        <5> QED
          BY <5>1 DEF OwnerIsOne
      <4>2. CASE ~isFirst(c)
        <5>1. PICK u \in DOMAIN users : \A v \in DOMAIN users : users[v].owner <=> v = u
          BY <4>2 DEF Inv, People, OwnerIsOne, isFirst, registrationOpen
        <5>2. ~users'[c].owner /\ u # c
          BY <2>4, <2>6, <3>1, <4>2
        <5>3. \A v \in DOMAIN users' : users'[v].owner <=> v = u
          BY <2>4, <5>1, <5>2
        <5> QED
          BY <2>4, <5>3 DEF OwnerIsOne
      <4> QED
        BY <4>1, <4>2
    <3> QED
      BY <1>1, <2>2, <2>3, <2>4, <3>2 DEF Inv, People
  <2>10. ASSUME ~isFirst(c)
         PROVE  /\ token \in DOMAIN invitations /\ ~invitations[token].used
                /\ Made(token, "invite") /\ token \notin DOMAIN codes
    BY <1>3, <2>10 DEF usable, Inv, Secrets
  <2>11. Secrets'
    <3>1. ASSUME NEW d \in DOMAIN calls \ {c}, NEW x \in progress'[d].seen
          PROVE  /\ is(d, {"register"}) =>
                      /\ Made(x, "invite")' /\ x \notin DOMAIN codes'
                      /\ x \in DOMAIN invitations' => invitations'[x].used
                 /\ is(d, {"reset"}) =>
                      /\ Made(x, "issue")' /\ x \notin DOMAIN invitations'
                      /\ x \in DOMAIN codes' => codes'[x].used
      BY <1>1, <2>1, <2>2, <2>5, <3>1 DEF Inv, Secrets, Moves
    <3>2. ASSUME NEW x \in progress'[c].seen
          PROVE  /\ is(c, {"register"}) =>
                      /\ Made(x, "invite")' /\ x \notin DOMAIN codes'
                      /\ x \in DOMAIN invitations' => invitations'[x].used
                 /\ ~is(c, {"reset"})
      BY <1>1, <2>1, <2>2, <2>5, <2>10, <3>2 DEF is
    <3>3. /\ \A i \in DOMAIN invitations' : Made(i, "invite")' /\ i \notin DOMAIN codes'
          /\ \A k \in DOMAIN codes' : Made(k, "issue")'
      BY <1>1, <2>2, <2>5 DEF Inv, Secrets
    <3> QED
      BY <1>1, <3>1, <3>2, <3>3 DEF Secrets, is
  <2>12. SecretsWorkOnce'
    <3>1. ASSUME NEW d \in DOMAIN calls \ {c}, is(d, {"register", "reset"})
          PROVE  progress'[c].seen \cap progress'[d].seen = {}
      <4>1. progress'[d].seen = progress[d].seen
        BY <2>1 DEF Moves
      <4>2. ~isFirst(c) => token \notin progress[d].seen
        BY <2>10, <3>1 DEF Inv, Secrets, is
      <4> QED
        BY <2>1, <4>1, <4>2
    <3>2. \A d, e \in DOMAIN calls \ {c} :
            d # e /\ is(d, {"register", "reset"}) /\ is(e, {"register", "reset"})
              => progress'[d].seen \cap progress'[e].seen = {}
      BY <2>1 DEF Inv, SecretsWorkOnce, Moves
    <3> QED
      BY <1>1, <3>1, <3>2 DEF SecretsWorkOnce, is
  <2>13. Changes'
    <3>1. \A u \in DOMAIN users : users[u].version \in Nat
      BY DEF Inv, Shapes, IsUser
    <3>2. \A u \in DOMAIN users' :
            \/ u \in DOMAIN users /\ users'[u].version \in Nat
               /\ users'[u].version >= users[u].version
            \/ ~Born(u)
      BY <2>3, <2>4, <3>1
    <3>3. \A d \in DOMAIN calls \ {c} : Lasting(d)'
      BY <1>1, <2>1, <2>2, <3>2, ChangesKept DEF Inv
    <3>4. Lasting(c)'
      BY <1>1, <2>1 DEF Moves, Lasting, changed, at, is
    <3> QED
      BY <1>1, <3>3, <3>4 DEF Changes
  <2> QED
    BY <2>7, <2>8, <2>9, <2>11, <2>12, <2>13 DEF Inv
<1> QED
  BY <1>2, <1>3 DEF Register

LEMMA AfterInvite == ASSUME Inv, NEW c \in DOMAIN calls, Invite(c) PROVE Inv'
<1> DEFINE row == [creator |-> calls[c].user, email |-> calls[c].address, used |-> FALSE,
                   expires |-> progress[c].now + InvitationTTL]
<1>1. /\ at(c, "allowed") /\ is(c, {"invite"}) /\ goes(c, "done")
      /\ invitations' = with(invitations, c, row)
      /\ UNCHANGED <<users, codes, sessions, calls>>
  BY DEF Invite
<1>2. IsInvitation(row) /\ ~row.used
  BY DEF IsInvitation
<1> HIDE DEF row
<1>3. /\ Moves(c, "allowed", "done") /\ progress'[c].seen = progress[c].seen
  BY <1>1, GoesMoves DEF Inv, at
<1>4. /\ \A u : Born(u) => Born(u)'
      /\ \A x, kind : Made(x, kind) => Made(x, kind)'
  BY <1>3, MovesKeep
<1>5. /\ IsTable(invitations') /\ DOMAIN invitations' = DOMAIN invitations \cup {c}
      /\ invitations'[c] = row
      /\ \A i \in DOMAIN invitations \ {c} : invitations'[i] = invitations[i]
  BY <1>1 DEF with, IsTable
\* The call's id was no row's and no call's secret: nothing is made twice.
<1>6. ~Made(c, "invite") /\ ~Made(c, "issue") /\ Made(c, "invite")'
  BY <1>1, <1>3 DEF Made, at, is, Moves
<1>7. Shapes'
  <2>1. \A i \in DOMAIN invitations' : IsInvitation(invitations'[i])
    BY <1>2, <1>5 DEF Inv, Shapes
  <2> QED
    BY <1>1, <1>3, <1>5, <2>1 DEF Inv, Shapes, Moves
<1>8. Staged'
  BY <1>3, StagedKept DEF Inv
<1>9. People'
  BY <1>1, <1>4 DEF Inv, People, OwnerIsOne
<1>10. Secrets'
  <2>1. ASSUME NEW d \in DOMAIN calls, NEW x \in progress'[d].seen
        PROVE  /\ is(d, {"register"}) =>
                    /\ Made(x, "invite")' /\ x \notin DOMAIN codes'
                    /\ x \in DOMAIN invitations' => invitations'[x].used
               /\ is(d, {"reset"}) =>
                    /\ Made(x, "issue")' /\ x \notin DOMAIN invitations'
                    /\ x \in DOMAIN codes' => codes'[x].used
    <3>1. progress'[d].seen = progress[d].seen
      BY <1>3 DEF Moves
    <3>2. is(d, {"register", "reset"}) => x # c
      BY <1>6, <2>1, <3>1 DEF Inv, Secrets, is
    <3> QED
      BY <1>1, <1>4, <1>5, <2>1, <3>1, <3>2 DEF Inv, Secrets, is
  <2>2. /\ \A i \in DOMAIN invitations' : Made(i, "invite")' /\ i \notin DOMAIN codes'
        /\ \A k \in DOMAIN codes' : Made(k, "issue")'
    BY <1>1, <1>4, <1>5, <1>6 DEF Inv, Secrets
  <2> QED
    BY <1>1, <2>1, <2>2 DEF Secrets, is
<1>11. SecretsWorkOnce'
  <2>1. \A d \in DOMAIN calls : progress'[d].seen = progress[d].seen
    BY <1>3 DEF Moves
  <2> QED
    BY <1>1, <2>1 DEF Inv, SecretsWorkOnce, is
<1>12. Changes'
  <2>1. \A u \in DOMAIN users : users[u].version \in Nat
    BY DEF Inv, Shapes, IsUser
  <2>2. \A d \in DOMAIN calls \ {c} : Lasting(d)'
    BY <1>1, <1>3, <1>4, <2>1, ChangesKept DEF Inv
  <2>3. ~changed(c)' /\ ~at(c, "revoke")'
    BY <1>1, <1>3 DEF Moves, changed, at, is
  <2> QED
    BY <1>1, <2>2, <2>3 DEF Changes, Lasting
<1> QED
  BY <1>7, <1>8, <1>9, <1>10, <1>11, <1>12 DEF Inv

LEMMA AfterSetPassword == ASSUME Inv, NEW c \in DOMAIN calls, SetPassword(c) PROVE Inv'
<1> DEFINE user == progress[c].user
<1>1. /\ at(c, "set") /\ is(c, {"password", "assign"})
      /\ UNCHANGED <<invitations, codes, sessions, calls>>
  BY DEF SetPassword, Inv, Staged
<1>0. \A u \in DOMAIN users : users[u].version \in Nat
  BY DEF Inv, Shapes, IsUser
<1>2. \/ goes(c, "failed") /\ users' = users
      \/ /\ user \in DOMAIN users /\ users' = passwordSet(user, calls[c].new)
         /\ progress' = [progress EXCEPT ![c].at = "revoke",
                                         ![c].version = users[user].version + 1]
  BY DEF SetPassword
<1>3. PICK to \in {"revoke", "failed"} :
        /\ Moves(c, "set", to) /\ progress'[c].seen = progress[c].seen
        /\ progress'[c].user = user
        /\ to = "failed" => users' = users
        /\ to = "revoke" =>
             /\ user \in DOMAIN users /\ users' = passwordSet(user, calls[c].new)
             /\ progress'[c].version = users[user].version + 1
  <2>1. CASE goes(c, "failed") /\ users' = users
    BY <1>1, <2>1, GoesMoves DEF Inv, at
  <2>2. ASSUME user \in DOMAIN users, users' = passwordSet(user, calls[c].new),
               progress' = [progress EXCEPT ![c].at = "revoke",
                                            ![c].version = users[user].version + 1]
        PROVE  /\ Moves(c, "set", "revoke") /\ progress'[c].seen = progress[c].seen
               /\ progress'[c].user = user
               /\ progress'[c].version = users[user].version + 1
    <3> DEFINE p == progress[c]
    <3>1. Becomes(c, Row("revoke", p.now, p.user, users[user].version + 1, p.counted, p.seen))
      BY <2>2, ProgressBecomes DEF Inv
    <3>2. users[user].version + 1 \in Nat
      BY <1>0, <2>2
    <3> QED
      BY <1>1, <3>1, <3>2, Moved DEF at
  <2> QED
    BY <1>2, <2>1, <2>2
<1>4. /\ \A u : Born(u) => Born(u)'
      /\ \A x, kind : Made(x, kind) => Made(x, kind)'
  BY <1>3, MovesKeep
<1>5. /\ IsTable(users') /\ DOMAIN users' = DOMAIN users
      /\ \A v \in DOMAIN users : IsUser(users'[v]) /\ users'[v].owner = users[v].owner
      /\ \A v \in DOMAIN users : users'[v].version >= users[v].version
      /\ to = "revoke" => users'[user].version = users[user].version + 1
  <2>1. CASE to = "failed"
    BY <1>3, <2>1 DEF Inv, Shapes, IsUser
  <2>2. CASE to = "revoke"
    BY <1>3, <2>2, PasswordSet DEF Inv
  <2> QED
    BY <2>1, <2>2
<1>6. Shapes'
  BY <1>1, <1>3, <1>5 DEF Inv, Shapes, Moves
<1>7. Staged'
  BY <1>1, <1>3, StagedKept DEF Inv
<1>8. People'
  BY <1>1, <1>4, <1>5 DEF Inv, People, OwnerIsOne
<1>9. Secrets' /\ SecretsWorkOnce'
  BY <1>1, <1>3, <1>4, SecretsKept DEF Inv, Keeps
<1>10. Changes'
  <2>1. \A u \in DOMAIN users' : u \in DOMAIN users /\ users'[u].version \in Nat
                                 /\ users'[u].version >= users[u].version
    BY <1>5 DEF IsUser
  <2>2. \A d \in DOMAIN calls \ {c} : Lasting(d)'
    BY <1>1, <1>3, <1>4, <2>1, ChangesKept DEF Inv
  <2>3. ~changed(c)' /\ (at(c, "revoke")' => to = "revoke")
    BY <1>1, <1>3 DEF Moves, changed, at, is
  <2>4. to = "revoke" => Born(user)'
    BY <1>3, <1>4 DEF Inv, People
  <2>5. Lasting(c)'
    BY <1>0, <1>3, <1>5, <2>3, <2>4 DEF Lasting, Renewed
  <2> QED
    BY <1>1, <2>2, <2>5 DEF Changes
<1> QED
  BY <1>6, <1>7, <1>8, <1>9, <1>10 DEF Inv

LEMMA AfterRevokeAll == ASSUME Inv, NEW c \in DOMAIN calls, RevokeAll(c) PROVE Inv'
<1> DEFINE user == progress[c].user
           version == progress[c].version
           to == IF is(c, {"password"}) THEN "start" ELSE "done"
<1>1. /\ at(c, "revoke") /\ is(c, {"password", "assign"})
      /\ goes(c, to) /\ sessions' = ended(user)
      /\ UNCHANGED <<users, invitations, codes, calls>>
  BY DEF RevokeAll, Inv, Staged
<1>2. /\ Moves(c, "revoke", to) /\ progress'[c].seen = progress[c].seen
      /\ progress'[c].user = user /\ progress'[c].version = version
  BY <1>1, GoesMoves DEF Inv, at
<1>3. /\ \A u : Born(u) => Born(u)'
      /\ \A x, kind : Made(x, kind) => Made(x, kind)'
  BY <1>2, MovesKeep
<1>4. /\ IsTable(sessions') /\ DOMAIN sessions' = DOMAIN sessions
      /\ \A s \in DOMAIN sessions :
           /\ IsSession(sessions'[s])
           /\ sessions'[s].user = sessions[s].user
           /\ sessions'[s].made = sessions[s].made
           /\ sessions[s].user = user => ~sessions'[s].live
           /\ ~sessions[s].live => ~sessions'[s].live
  BY <1>1, SessionsEnded DEF Inv
<1>5. Shapes'
  BY <1>1, <1>2, <1>4 DEF Inv, Shapes, Moves
<1>6. Staged'
  BY <1>1, <1>2, StagedKept DEF Inv, is
<1>7. People'
  BY <1>1, <1>3 DEF Inv, People, OwnerIsOne
<1>8. Secrets' /\ SecretsWorkOnce'
  BY <1>1, <1>2, <1>3, SecretsKept DEF Inv, Keeps
<1>9. Changes'
  <2>1. \A u \in DOMAIN users : users[u].version \in Nat
    BY DEF Inv, Shapes, IsUser
  <2>2. \A d \in DOMAIN calls \ {c} : Lasting(d)'
    BY <1>1, <1>2, <1>3, <1>4, <2>1, ChangesKept DEF Inv
  <2>3. Renewed(user, version)
    BY <1>1 DEF Inv, Changes, Lasting
  <2>4. Renewed(user, version)'
    BY <1>1, <1>2, <1>3, <2>3 DEF Renewed
  <2>5. Lasting(c)'
    BY <1>2, <1>4, <2>4 DEF Lasting
  <2> QED
    BY <1>1, <2>2, <2>5 DEF Changes
<1> QED
  BY <1>5, <1>6, <1>7, <1>8, <1>9 DEF Inv

LEMMA AfterIssue == ASSUME Inv, NEW c \in DOMAIN calls, issueResetCode(c) PROVE Inv'
<1> DEFINE user == progress[c].user
           row == [user |-> user, used |-> FALSE, expires |-> progress[c].now + ResetTTL]
           spent == [k \in DOMAIN codes |->
                      [codes[k] EXCEPT !.used = @ \/ k \in progress[c].seen]]
<1>1. /\ at(c, "commit") /\ is(c, {"issue"})
      /\ UNCHANGED <<users, invitations, sessions, calls>>
  BY DEF issueResetCode, Inv, Staged
<1>2. PICK to \in {"done", "failed"} :
        /\ goes(c, to)
        /\ to = "failed" => codes' = codes
        /\ to = "done" => user \in DOMAIN users /\ codes' = with(spent, c, row)
  BY DEF issueResetCode
<1>3. IsCode(row) /\ ~row.used /\ row.user = user
  BY DEF IsCode
<1>4. /\ Moves(c, "commit", to) /\ progress'[c].seen = progress[c].seen
      /\ progress'[c].user = user
  BY <1>1, <1>2, GoesMoves DEF Inv, at
<1>5. /\ \A u : Born(u) => Born(u)'
      /\ \A x, kind : Made(x, kind) => Made(x, kind)'
  BY <1>2, <1>4, MovesKeep
<1>6. /\ DOMAIN spent = DOMAIN codes
      /\ \A k \in DOMAIN codes :
           /\ IsCode(spent[k]) /\ spent[k].user = codes[k].user
           /\ codes[k].used => spent[k].used
  <2> SUFFICES ASSUME NEW k \in DOMAIN codes
      PROVE  /\ IsCode(spent[k]) /\ spent[k].user = codes[k].user
             /\ codes[k].used => spent[k].used
    OBVIOUS
  <2>1. IsCode(codes[k])
    BY DEF Inv, Shapes
  <2>2. spent[k] = [user |-> codes[k].user, expires |-> codes[k].expires,
                    used |-> codes[k].used \/ k \in progress[c].seen]
    BY <2>1 DEF IsCode
  <2> HIDE DEF spent
  <2>3. IsCode(spent[k]) /\ spent[k].user = codes[k].user
    BY <2>2 DEF IsCode
  <2>4. ASSUME codes[k].used PROVE spent[k].used
    <3>1. spent[k].used = (codes[k].used \/ k \in progress[c].seen)
      BY <2>2
    <3> QED
      BY <2>4, <3>1
  <2> QED
    BY <2>3, <2>4
<1> HIDE DEF row, spent
<1>7. /\ IsTable(codes') /\ DOMAIN codes' \subseteq DOMAIN codes \cup {c}
      /\ DOMAIN codes \subseteq DOMAIN codes'
      /\ \A k \in DOMAIN codes \ {c} :
           /\ IsCode(codes'[k]) /\ codes'[k].user = codes[k].user
           /\ codes[k].used => codes'[k].used
      /\ c \in DOMAIN codes' /\ c \notin DOMAIN codes =>
           /\ to = "done" /\ codes'[c] = row /\ user \in DOMAIN users
  <2>1. CASE to = "failed"
    BY <1>2, <2>1 DEF Inv, Shapes
  <2>2. CASE to = "done"
    BY <1>2, <1>6, <2>2 DEF with, IsTable
  <2> QED
    BY <2>1, <2>2
\* The call's id was no row's and no call's secret: nothing is made twice.
<1>8. /\ ~Made(c, "invite") /\ ~Made(c, "issue")
      /\ to = "done" => Made(c, "issue")'
  BY <1>1, <1>4 DEF Made, at, is, Moves
<1>9. c \notin DOMAIN codes
  BY <1>8 DEF Inv, Secrets
<1>10. Shapes'
  <2>1. \A k \in DOMAIN codes' : IsCode(codes'[k])
    BY <1>3, <1>7, <1>9
  <2> QED
    BY <1>1, <1>4, <1>7, <2>1 DEF Inv, Shapes, Moves
<1>11. Staged'
  BY <1>2, <1>4, StagedKept DEF Inv
<1>12. People'
  BY <1>1, <1>3, <1>5, <1>7, <1>9 DEF Inv, People, OwnerIsOne
<1>13. Secrets'
  <2>1. ASSUME NEW d \in DOMAIN calls, NEW x \in progress'[d].seen
        PROVE  /\ is(d, {"register"}) =>
                    /\ Made(x, "invite")' /\ x \notin DOMAIN codes'
                    /\ x \in DOMAIN invitations' => invitations'[x].used
               /\ is(d, {"reset"}) =>
                    /\ Made(x, "issue")' /\ x \notin DOMAIN invitations'
                    /\ x \in DOMAIN codes' => codes'[x].used
    <3>1. progress'[d].seen = progress[d].seen
      BY <1>4 DEF Moves
    <3>2. is(d, {"register", "reset"}) => x # c
      BY <1>8, <2>1, <3>1 DEF Inv, Secrets, is
    <3> QED
      BY <1>1, <1>5, <1>7, <2>1, <3>1, <3>2 DEF Inv, Secrets, is
  <2>2. /\ \A i \in DOMAIN invitations' : Made(i, "invite")' /\ i \notin DOMAIN codes'
        /\ \A k \in DOMAIN codes' : Made(k, "issue")'
    BY <1>1, <1>5, <1>7, <1>8, <1>9 DEF Inv, Secrets
  <2> QED
    BY <1>1, <2>1, <2>2 DEF Secrets, is
<1>14. SecretsWorkOnce'
  <2>1. \A d \in DOMAIN calls : progress'[d].seen = progress[d].seen
    BY <1>4 DEF Moves
  <2> QED
    BY <1>1, <2>1 DEF Inv, SecretsWorkOnce, is
<1>15. Changes'
  <2>1. \A u \in DOMAIN users : users[u].version \in Nat
    BY DEF Inv, Shapes, IsUser
  <2>2. \A d \in DOMAIN calls \ {c} : Lasting(d)'
    BY <1>1, <1>4, <1>5, <2>1, ChangesKept DEF Inv
  <2>3. ~changed(c)' /\ ~at(c, "revoke")'
    BY <1>1, <1>2, <1>4 DEF Moves, changed, at, is
  <2> QED
    BY <1>1, <2>2, <2>3 DEF Changes, Lasting
<1> QED
  BY <1>10, <1>11, <1>12, <1>13, <1>14, <1>15 DEF Inv

LEMMA AfterReset == ASSUME Inv, NEW c \in DOMAIN calls, Reset(c) PROVE Inv'
<1> DEFINE code == calls[c].code
           user == codes[code].user
<1>1. /\ at(c, "hashed") /\ is(c, {"reset"}) /\ UNCHANGED <<invitations, calls>>
  BY DEF Reset
<1>2. CASE goes(c, "refused") /\ UNCHANGED <<users, codes, sessions>>
  <2>1. /\ Moves(c, "hashed", "refused") /\ progress'[c].seen = progress[c].seen
    BY <1>1, <1>2, GoesMoves DEF Inv, at
  <2>2. /\ \A u : Born(u) => Born(u)'
        /\ \A x, kind : Made(x, kind) => Made(x, kind)'
    BY <2>1, MovesKeep
  <2>3. Shapes'
    BY <1>1, <1>2, <2>1 DEF Inv, Shapes, Moves
  <2>4. Staged'
    BY <2>1, StagedKept DEF Inv
  <2>5. People'
    BY <1>1, <1>2, <2>2 DEF Inv, People, OwnerIsOne
  <2>6. Secrets' /\ SecretsWorkOnce'
    BY <1>1, <1>2, <2>1, <2>2, SecretsKept DEF Inv, Keeps
  <2>7. \A u \in DOMAIN users : users[u].version \in Nat
    BY DEF Inv, Shapes, IsUser
  <2>8. \A d \in DOMAIN calls \ {c} : Lasting(d)'
    BY <1>1, <1>2, <2>1, <2>2, <2>7, ChangesKept DEF Inv
  <2>9. Lasting(c)'
    BY <2>1 DEF Moves, Lasting, changed, at
  <2>10. Changes'
    BY <1>1, <2>8, <2>9 DEF Changes
  <2> QED
    BY <2>3, <2>4, <2>5, <2>6, <2>10 DEF Inv
<1>3. ASSUME spendable(c),
             codes' = [codes EXCEPT ![code].used = TRUE],
             users' = passwordSet(user, calls[c].new),
             sessions' = ended(user),
             progress' = [progress EXCEPT ![c].at = "done", ![c].seen = {code},
                                          ![c].user = user,
                                          ![c].version = users[user].version + 1]
      PROVE  Inv'
  <2>0. user \in DOMAIN users /\ users[user].version \in Nat
    BY <1>3 DEF spendable, Inv, People, Shapes, IsUser
  <2>1. /\ Moves(c, "hashed", "done") /\ progress'[c].user = user
        /\ progress'[c].seen = {code} /\ progress'[c].version = users[user].version + 1
    <3>1. Becomes(c, Row("done", progress[c].now, user, users[user].version + 1,
                         progress[c].counted, {code}))
      BY <1>3, ProgressBecomes DEF Inv
    <3>2. users[user].version + 1 \in Nat
      BY <2>0
    <3> QED
      BY <1>1, <3>1, <3>2, Moved DEF at
  <2>2. /\ \A u : Born(u) => Born(u)'
        /\ \A x, kind : Made(x, kind) => Made(x, kind)'
    BY <2>1, MovesKeep
  <2>3. /\ code \in DOMAIN codes /\ ~codes[code].used
        /\ user \in DOMAIN users /\ Born(user)
        /\ Made(code, "issue") /\ code \notin DOMAIN invitations
    BY <1>3 DEF spendable, Inv, People, Secrets
  <2>4. /\ IsTable(codes') /\ DOMAIN codes' = DOMAIN codes /\ codes'[code].used
        /\ \A k \in DOMAIN codes :
             /\ IsCode(codes'[k]) /\ codes'[k].user = codes[k].user
             /\ codes[k].used => codes'[k].used
    <3>1. IsTable(codes') /\ DOMAIN codes' = DOMAIN codes
      BY <1>3 DEF Inv, Shapes, IsTable
    <3>2. \A k \in DOMAIN codes \ {code} : codes'[k] = codes[k]
      BY <1>3 DEF Inv, Shapes, IsTable
    <3>3. codes'[code] = [user |-> user, used |-> TRUE, expires |-> codes[code].expires]
      <4>1. codes'[code] = [codes[code] EXCEPT !.used = TRUE]
        BY <1>3, <2>3 DEF Inv, Shapes, IsTable
      <4>2. IsCode(codes[code])
        BY <2>3 DEF Inv, Shapes
      <4> QED
        BY <4>1, <4>2 DEF IsCode
    <3>4. \A k \in DOMAIN codes : IsCode(codes[k])
      BY DEF Inv, Shapes
    <3>5. IsCode(codes'[code]) /\ codes'[code].user = user /\ codes'[code].used
      BY <3>3 DEF IsCode
    <3> QED
      BY <2>3, <3>1, <3>2, <3>4, <3>5
  <2>5. /\ IsTable(users') /\ DOMAIN users' = DOMAIN users
        /\ \A v \in DOMAIN users : IsUser(users'[v]) /\ users'[v].owner = users[v].owner
        /\ \A v \in DOMAIN users : users'[v].version >= users[v].version
        /\ users'[user].version = users[user].version + 1
    BY <1>3, <2>3, PasswordSet DEF Inv
  <2>6. /\ IsTable(sessions') /\ DOMAIN sessions' = DOMAIN sessions
        /\ \A s \in DOMAIN sessions :
             /\ IsSession(sessions'[s])
             /\ sessions'[s].user = sessions[s].user
             /\ sessions'[s].made = sessions[s].made
             /\ sessions[s].user = user => ~sessions'[s].live
             /\ ~sessions[s].live => ~sessions'[s].live
    BY <1>3, SessionsEnded DEF Inv
  <2>7. Shapes'
    BY <1>1, <2>1, <2>4, <2>5, <2>6 DEF Inv, Shapes, Moves
  <2>8. Staged'
    BY <2>1, StagedKept DEF Inv
  <2>9. People'
    BY <1>1, <2>2, <2>4, <2>5 DEF Inv, People, OwnerIsOne
  <2>10. Secrets'
    <3>1. ASSUME NEW d \in DOMAIN calls \ {c}, NEW x \in progress'[d].seen
          PROVE  /\ is(d, {"register"}) =>
                      /\ Made(x, "invite")' /\ x \notin DOMAIN codes'
                      /\ x \in DOMAIN invitations' => invitations'[x].used
                 /\ is(d, {"reset"}) =>
                      /\ Made(x, "issue")' /\ x \notin DOMAIN invitations'
                      /\ x \in DOMAIN codes' => codes'[x].used
      BY <1>1, <2>1, <2>2, <2>4, <3>1 DEF Inv, Secrets, Moves
    <3>2. ASSUME NEW x \in progress'[c].seen
          PROVE  /\ ~is(c, {"register"})
                 /\ is(c, {"reset"}) =>
                      /\ Made(x, "issue")' /\ x \notin DOMAIN invitations'
                      /\ x \in DOMAIN codes' => codes'[x].used
      BY <1>1, <2>1, <2>2, <2>3, <2>4, <3>2 DEF is
    <3>3. /\ \A i \in DOMAIN invitations' : Made(i, "invite")' /\ i \notin DOMAIN codes'
          /\ \A k \in DOMAIN codes' : Made(k, "issue")'
      BY <1>1, <2>2, <2>4 DEF Inv, Secrets
    <3> QED
      BY <1>1, <3>1, <3>2, <3>3 DEF Secrets, is
  <2>11. SecretsWorkOnce'
    <3>1. ASSUME NEW d \in DOMAIN calls \ {c}, is(d, {"register", "reset"})
          PROVE  progress'[c].seen \cap progress'[d].seen = {}
      <4>1. progress'[d].seen = progress[d].seen
        BY <2>1 DEF Moves
      <4>2. code \notin progress[d].seen
        BY <2>3, <3>1 DEF Inv, Secrets, is
      <4> QED
        BY <2>1, <4>1, <4>2
    <3>2. \A d, e \in DOMAIN calls \ {c} :
            d # e /\ is(d, {"register", "reset"}) /\ is(e, {"register", "reset"})
              => progress'[d].seen \cap progress'[e].seen = {}
      BY <2>1 DEF Inv, SecretsWorkOnce, Moves
    <3> QED
      BY <1>1, <3>1, <3>2 DEF SecretsWorkOnce, is
  <2>12. Changes'
    <3>1. \A u \in DOMAIN users' : u \in DOMAIN users /\ users'[u].version \in Nat
                                   /\ users'[u].version >= users[u].version
      BY <2>5 DEF IsUser
    <3>2. \A d \in DOMAIN calls \ {c} : Lasting(d)'
      BY <1>1, <2>1, <2>2, <2>6, <3>1, ChangesKept DEF Inv
    <3>3. /\ Born(user) /\ users'[user].version >= users[user].version + 1
          /\ \A u : Born(u) => Born(u)'
          /\ \A s \in DOMAIN sessions' : sessions'[s].user = user => ~sessions'[s].live
      BY <2>0, <2>2, <2>3, <2>5, <2>6
    <3>4. Lasting(c)'
      BY <2>1, <3>3 DEF Lasting, Renewed
    <3> QED
      BY <1>1, <3>2, <3>4 DEF Changes
  <2> QED
    BY <2>7, <2>8, <2>9, <2>10, <2>11, <2>12 DEF Inv
<1> QED
  BY <1>2, <1>3 DEF Reset

LEMMA AfterDeleteAccount == ASSUME Inv, NEW c \in DOMAIN calls, DeleteAccount(c) PROVE Inv'
<1> DEFINE user == progress[c].user
<1>1. /\ at(c, "erase") /\ is(c, {"delete"}) /\ UNCHANGED calls
  BY DEF DeleteAccount, Inv, Staged
<1>2. PICK to \in {"refused", "done"} : goes(c, to)
  BY DEF DeleteAccount
<1>3. /\ Moves(c, "erase", to) /\ progress'[c].seen = progress[c].seen
  BY <1>1, <1>2, GoesMoves DEF Inv, at
<1>4. /\ \A u : Born(u) => Born(u)'
      /\ \A x, kind : Made(x, kind) => Made(x, kind)'
  BY <1>2, <1>3, MovesKeep
\* Whoever goes takes all that is the user's along, and the owner goes last.
<1>5. /\ IsTable(users') /\ DOMAIN users' \subseteq DOMAIN users
      /\ \A u \in DOMAIN users' : users'[u] = users[u]
      /\ IsTable(codes') /\ DOMAIN codes' \subseteq DOMAIN codes
      /\ \A k \in DOMAIN codes' : codes'[k] = codes[k] /\ codes[k].user \in DOMAIN users'
      /\ IsTable(sessions') /\ DOMAIN sessions' \subseteq DOMAIN sessions
      /\ \A s \in DOMAIN sessions' : sessions'[s] = sessions[s]
      /\ IsTable(invitations') /\ DOMAIN invitations' \subseteq DOMAIN invitations
      /\ \A i \in DOMAIN invitations' : invitations'[i] = invitations[i]
      /\ \/ DOMAIN users' = DOMAIN users
         \/ DOMAIN users' = {}
         \/ DOMAIN users' = DOMAIN users \ {user} /\ ~users[user].owner
  <2>1. CASE UNCHANGED <<users, codes, sessions, invitations>>
    <3>1. IsTable(users) /\ IsTable(codes) /\ IsTable(sessions) /\ IsTable(invitations)
      BY DEF Inv, Shapes
    <3>2. \A k \in DOMAIN codes : codes[k].user \in DOMAIN users
      BY DEF Inv, People
    <3> QED
      BY <2>1, <3>1, <3>2
  <2>2. CASE /\ user \in DOMAIN users
             /\ ~(users[user].owner /\ DOMAIN users # {user})
             /\ users' = without(users, {user})
             /\ codes' = without(codes, {k \in DOMAIN codes : codes[k].user = user})
             /\ sessions' = without(sessions, {s \in DOMAIN sessions : sessions[s].user = user})
             /\ invitations' = without(invitations,
                  {i \in DOMAIN invitations : invitations[i].creator = user})
    <3>1. /\ IsTable(users') /\ DOMAIN users' = DOMAIN users \ {user}
          /\ \A u \in DOMAIN users' : users'[u] = users[u]
      BY <2>2 DEF without, IsTable
    <3>2. /\ IsTable(codes')
          /\ DOMAIN codes' = DOMAIN codes \ {k \in DOMAIN codes : codes[k].user = user}
          /\ \A k \in DOMAIN codes' : codes'[k] = codes[k]
      BY <2>2 DEF without, IsTable
    <3>3. /\ IsTable(sessions') /\ DOMAIN sessions' \subseteq DOMAIN sessions
          /\ \A s \in DOMAIN sessions' : sessions'[s] = sessions[s]
      BY <2>2 DEF without, IsTable
    <3>4. /\ IsTable(invitations') /\ DOMAIN invitations' \subseteq DOMAIN invitations
          /\ \A i \in DOMAIN invitations' : invitations'[i] = invitations[i]
      BY <2>2 DEF without, IsTable
    <3>5. \A k \in DOMAIN codes' : codes[k].user \in DOMAIN users'
      BY <3>1, <3>2 DEF Inv, People
    <3>6. \/ DOMAIN users' = DOMAIN users
          \/ DOMAIN users' = {}
          \/ DOMAIN users' = DOMAIN users \ {user} /\ ~users[user].owner
      BY <2>2, <3>1
    <3>7. DOMAIN users' \subseteq DOMAIN users /\ DOMAIN codes' \subseteq DOMAIN codes
      BY <3>1, <3>2
    <3> QED
      BY <3>1, <3>2, <3>3, <3>4, <3>5, <3>6, <3>7
  <2> QED
    BY <2>1, <2>2 DEF DeleteAccount
<1>6. Shapes'
  BY <1>1, <1>3, <1>5 DEF Inv, Shapes, Moves
<1>7. Staged'
  BY <1>2, <1>3, StagedKept DEF Inv
<1>8. People'
  <2>1. OwnerIsOne'
    BY <1>5 DEF Inv, People, OwnerIsOne
  <2>2. /\ (\A u \in DOMAIN users : Born(u))'
        /\ (\A k \in DOMAIN codes : codes[k].user \in DOMAIN users)'
    BY <1>4, <1>5 DEF Inv, People
  <2> QED
    BY <2>1, <2>2 DEF People
<1>9. Secrets' /\ SecretsWorkOnce'
  BY <1>2, <1>3, <1>4, <1>5, SecretsKept DEF Inv, Keeps
<1>10. Changes'
  <2>1. \A u \in DOMAIN users' : u \in DOMAIN users /\ users'[u].version \in Nat
                                 /\ users'[u].version >= users[u].version
    BY <1>5 DEF Inv, Shapes, IsUser
  <2>2. \A d \in DOMAIN calls \ {c} : Lasting(d)'
    BY <1>3, <1>4, <1>5, <2>1, ChangesKept DEF Inv
  <2>3. ~changed(c)' /\ ~at(c, "revoke")'
    BY <1>1, <1>2, <1>3 DEF Moves, changed, at, is
  <2> QED
    BY <1>1, <2>2, <2>3 DEF Changes, Lasting
<1> QED
  BY <1>6, <1>7, <1>8, <1>9, <1>10 DEF Inv

LEMMA Stuttering ==
  ASSUME Inv, UNCHANGED <<users, invitations, codes, sessions, calls, progress>>
  PROVE  Inv'
<1>1. Shapes' /\ Staged'
  BY DEF Inv, Shapes, Staged, at, is
<1>2. People'
  BY DEF Inv, People, Born, OwnerIsOne, is
<1>3. Secrets' /\ SecretsWorkOnce'
  BY DEF Inv, Secrets, Made, at, is, SecretsWorkOnce
<1>4. Changes'
  BY DEF Inv, Changes, Lasting, changed, Renewed, Born, at, is
<1> QED
  BY <1>1, <1>2, <1>3, <1>4 DEF Inv

LEMMA AfterStep == Inv /\ [Next]_vars => Inv'
<1> SUFFICES ASSUME Inv, [Next]_vars PROVE Inv'
  OBVIOUS
<1>1. CASE Tick \/ UNCHANGED vars
  BY <1>1, Stuttering DEF Tick, vars
<1>2. ASSUME NEW c \in DOMAIN calls,
             \/ Admit(c) \/ VerifyPassword(c) \/ Verified(c) \/ CheckOpen(c)
             \/ CheckOwner(c) \/ FindTarget(c) \/ FindOwner(c) \/ SpendCodes(c)
             \/ Hash(c)
      PROVE  Inv'
  BY <1>2, Preparations, AfterPreparing DEF Inv
<1> QED
  BY <1>1, <1>2, AfterStartSession, AfterRegister, AfterInvite, AfterSetPassword,
     AfterRevokeAll, AfterIssue, AfterReset, AfterDeleteAccount DEF Next

LEMMA InvAlways == Spec => []Inv
<1>1. Init => Inv
  BY Beginning
<1> QED
  BY <1>1, AfterStep, PTL DEF Spec

----------------------------------------------------------------------------
(* The theorems.                                                           *)

(***************************************************************************)
(* OneOwner: whatever registrations, changes and deletions interleave, an  *)
(* instance with users has exactly one owner: the first comes under the    *)
(* lock, nobody else is made one, and an owner leaves last                 *)
(* (accounts.service.ts:105-131, :201-223).                                *)
(***************************************************************************)
THEOREM OwnerAlways == Spec => []OneOwner
<1>1. Inv => OneOwner
  <2> SUFFICES ASSUME Inv, DOMAIN users # {}
      PROVE  Cardinality({u \in DOMAIN users : users[u].owner}) = 1
    BY DEF OneOwner
  <2>1. PICK u \in DOMAIN users : \A v \in DOMAIN users : users[v].owner <=> v = u
    BY DEF Inv, People, OwnerIsOne
  <2>2. {v \in DOMAIN users : users[v].owner} = {u}
    BY <2>1
  <2> QED
    BY <2>2, FS_Singleton
<1> QED
  BY <1>1, InvAlways, PTL

(***************************************************************************)
(* SecretsWorkOnce: of any number of registrations and resets that present *)
(* invitations and codes, no two ever use the same one                     *)
(* (accounts.service.ts:115-124, :180-194).                                *)
(***************************************************************************)
THEOREM SecretsOnce == Spec => []SecretsWorkOnce
<1>1. Inv => SecretsWorkOnce
  BY DEF Inv
<1> QED
  BY <1>1, InvAlways, PTL

(***************************************************************************)
(* ChangeEndsOlderSessions: sign-ins, changes of password, assignments and *)
(* resets may interleave in any way, and once a change is complete no      *)
(* session is live whose row was written before it set the password.  It   *)
(* says nothing of a sign-in that compared an earlier password and writes  *)
(* its row later: EarlierPasswordsOpenNothing, which the code does not keep*)
(* (auth.controller.ts:190-192, accounts.service.ts:170-171, :180-194).    *)
(***************************************************************************)
THEOREM OlderSessionsEnded == Spec => []ChangeEndsOlderSessions
<1>1. Inv => ChangeEndsOlderSessions
  BY DEF Inv, Changes, Lasting, ChangeEndsOlderSessions
<1> QED
  BY <1>1, InvAlways, PTL
=============================================================================
