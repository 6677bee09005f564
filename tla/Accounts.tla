------------------------------- MODULE Accounts -------------------------------
(***************************************************************************)
(* Who has an account on an instance: registration, invitations, sign-ins, *)
(* passwords, reset codes and deletion.  A call to the server runs as a    *)
(* few statements, each atomic, with everyone else's between them; only a  *)
(* registration, a reset and a deletion are one transaction each.  The     *)
(* rate limiters live in the memory of the one server process.             *)
(*                                                                         *)
(* What a session does afterwards is in SessionService.                    *)
(***************************************************************************)
EXTENDS Integers, Sequences, FiniteSets

CONSTANTS
  Worlds,   \* [users, invitations, codes, calls] an instance may start with
  Limit,    \* how many attempts a limiter lets through in a Window
  Window,   \* WINDOW_MS in clock ticks
  InvitationTTL, ResetTTL,
  MaxTime   \* bound on the clock

ASSUME LimitsAreNat ==
  /\ Limit \in Nat \ {0}
  /\ {Window, InvitationTTL, ResetTTL, MaxTime} \subseteq Nat

IsTable(f) == f = [x \in DOMAIN f |-> f[x]]
IsUser(r) ==
  /\ r = [address |-> r.address, password |-> r.password, owner |-> r.owner,
          version |-> r.version]
  /\ r.version \in Nat
IsInvitation(r) ==
  r = [creator |-> r.creator, email |-> r.email, used |-> r.used, expires |-> r.expires]
IsCode(r) == r = [user |-> r.user, used |-> r.used, expires |-> r.expires]

\* An instance at some moment, and calls that were not made yet: an id names
\* one row or one call, a code is of some user, and one of the users is the owner.
ASSUME WorldsOK ==
  \A w \in Worlds :
    /\ IsTable(w.users) /\ \A u \in DOMAIN w.users : IsUser(w.users[u])
    /\ IsTable(w.invitations)
    /\ \A i \in DOMAIN w.invitations : IsInvitation(w.invitations[i])
    /\ IsTable(w.codes)
    /\ \A k \in DOMAIN w.codes :
         IsCode(w.codes[k]) /\ w.codes[k].user \in DOMAIN w.users
    /\ DOMAIN w.invitations \cap DOMAIN w.codes = {}
    /\ DOMAIN w.calls \cap (DOMAIN w.users \cup DOMAIN w.invitations
                              \cup DOMAIN w.codes) = {}
    /\ DOMAIN w.users # {} =>
         \E u \in DOMAIN w.users : \A v \in DOMAIN w.users : w.users[v].owner <=> v = u

VARIABLES
  users,        \* id -> [address, password, owner, version]
  invitations,  \* id -> [creator, email, used, expires]
  codes,        \* id -> [user, used, expires]
  sessions,     \* id -> [user, made, under, live]: the user's password version
                \* when the row was made, and that of who asked for it
  failures,     \* <<limiter, key>> -> times
  calls,        \* id -> what was asked; a row's id is that of the call it came from
  progress,     \* id -> how far it got
  clock

vars == <<users, invitations, codes, sessions, failures, calls, progress, clock>>

None == "none"   \* no invitation, no particular address
Nobody == "nobody"
Called == [at |-> "called", now |-> 0, user |-> Nobody, version |-> 0, counted |-> FALSE,
           seen |-> {}]

without(f, gone) == [x \in DOMAIN f \ gone |-> f[x]]
with(f, x, row) == [y \in DOMAIN f \cup {x} |-> IF y = x THEN row ELSE f[y]]

at(c, pc) == progress[c].at = pc
goes(c, pc) == progress' = [progress EXCEPT ![c].at = pc]
is(c, kinds) == calls[c].kind \in kinds

----------------------------------------------------------------------------
(* Rate limiters: attempts per key in a sliding window.                    *)

limitsOf(call) ==
  CASE call.kind = "login" -> {<<"loginByAddress", call.address>>, <<"loginByIp", call.ip>>}
    [] call.kind = "password" -> {<<"passwordByUser", call.user>>}
    [] call.kind = "register" -> {<<"registerByIp", call.ip>>}
    [] call.kind = "reset" -> {<<"resetByIp", call.ip>>}
    [] call.kind = "delete" -> {<<"deleteByIp", call.ip>>}
    [] OTHER -> {}

\* What a success forgives: never the attempts of an ip.
released(call) ==
  {lk \in limitsOf(call) : lk[1] \in {"loginByAddress", "passwordByUser"}}

recent(lk, now) == SelectSeq(failures[lk], LAMBDA t : t > now - Window)

lastOf(times, n) == SubSeq(times, IF Len(times) > n THEN Len(times) - n + 1 ELSE 1, Len(times))

fail(lk, now) == lastOf(Append(recent(lk, now), now), Limit)

mayTry(lk, now) == Len(recent(lk, now)) < Limit

----------------------------------------------------------------------------
(* Every limited call: checked and reserved in one go, before any work.    *)

Admit(c) ==
  LET keys == limitsOf(calls[c])
      admitted == \A lk \in keys : mayTry(lk, clock)
  IN /\ at(c, "called")
     /\ keys # {}
     /\ progress' = [progress EXCEPT ![c].now = clock,
                                     ![c].at = IF admitted THEN "admitted" ELSE "limited"]
     /\ failures' = [lk \in DOMAIN failures |->
          IF admitted /\ lk \in keys THEN fail(lk, clock) ELSE failures[lk]]
     /\ UNCHANGED <<users, invitations, codes, sessions, calls, clock>>

idOf(call) ==
  IF call.kind = "login" THEN {u \in DOMAIN users : users[u].address = call.address}
  ELSE DOMAIN users \cap {call.user}

\* The user is read and the password compared with the hash as read, which the
\* call remembers by its version.
VerifyPassword(c) ==
  /\ at(c, "admitted")
  /\ is(c, {"login", "password", "delete"})
  /\ \/ \E u \in idOf(calls[c]) :
          /\ users[u].password = calls[c].password
          /\ progress' = [progress EXCEPT ![c].at = "verified", ![c].user = u,
                                          ![c].version = users[u].version]
     \/ /\ \A u \in idOf(calls[c]) : users[u].password # calls[c].password
        /\ goes(c, "refused")
  /\ UNCHANGED <<users, invitations, codes, sessions, failures, calls, clock>>

\* The password was right: the key is released and the call goes on.
Verified(c) ==
  /\ at(c, "verified")
  /\ failures' = [lk \in DOMAIN failures |->
       IF lk \in released(calls[c]) THEN <<>> ELSE failures[lk]]
  /\ \/ is(c, {"login"}) /\ goes(c, "start")
     \/ is(c, {"delete"}) /\ goes(c, "erase")
     \/ is(c, {"password"}) /\ goes(c, IF calls[c].strong THEN "set" ELSE "refused")
  /\ UNCHANGED <<users, invitations, codes, sessions, calls, clock>>

\* sessions.start: fails for a user deleted meanwhile, and does not look whether
\* the password is still the one the call was let in with.
StartSession(c) ==
  /\ at(c, "start")
  /\ LET user == progress[c].user
     IN \/ /\ user \in DOMAIN users
           /\ sessions' = with(sessions, c, [user |-> user, live |-> TRUE,
                made |-> users[user].version, under |-> progress[c].version])
           /\ goes(c, "done")
        \/ /\ user \notin DOMAIN users
           /\ goes(c, "failed")
           /\ UNCHANGED sessions
  /\ UNCHANGED <<users, invitations, codes, failures, calls, clock>>

----------------------------------------------------------------------------
(* Registration.                                                           *)

registrationOpen == DOMAIN users = {}

\* Refused before the password is hashed; counted again below.
CheckOpen(c) ==
  /\ at(c, "admitted")
  /\ is(c, {"register"})
  /\ LET refused == \/ ~calls[c].strong
                    \/ calls[c].invitation = None /\ ~registrationOpen
     IN progress' = [progress EXCEPT ![c].at = IF refused THEN "refused" ELSE "hashed",
                                     ![c].counted = registrationOpen]
  /\ UNCHANGED <<users, invitations, codes, sessions, failures, calls, clock>>

\* Mutated: the count taken before the hash is trusted.
isFirstAsCounted(c) == progress[c].counted

isFirst(c) == registrationOpen

\* Mutated: whether the invitation is unused was looked at beforehand.
usableOnce(c) ==
  LET token == calls[c].invitation
  IN /\ token \in DOMAIN invitations
     /\ invitations[token].expires > progress[c].now
     /\ invitations[token].email \in {None, calls[c].address}

usable(c) ==
  LET token == calls[c].invitation
  IN /\ token \in DOMAIN invitations
     /\ ~invitations[token].used
     /\ invitations[token].expires > progress[c].now
     /\ invitations[token].email \in {None, calls[c].address}

taken(address) == \E u \in DOMAIN users : users[u].address = address

\* One transaction under the lock all registrations and deletions take.  An
\* address already taken rolls it back, the invitation with it.
Register(c) ==
  LET first == isFirst(c)
      admitted == (first \/ usable(c)) /\ ~taken(calls[c].address)
  IN /\ at(c, "hashed")
     /\ is(c, {"register"})
     /\ \/ /\ ~admitted
           /\ goes(c, "refused")
           /\ UNCHANGED <<users, invitations>>
        \/ /\ admitted
           /\ users' = with(users, c, [address |-> calls[c].address, version |-> 0,
                                       password |-> calls[c].password, owner |-> first])
           /\ invitations' = [i \in DOMAIN invitations |->
                IF i = calls[c].invitation /\ ~first
                THEN [invitations[i] EXCEPT !.used = TRUE] ELSE invitations[i]]
           /\ progress' = [progress EXCEPT ![c].at = "start", ![c].user = c,
                ![c].seen = IF first THEN {} ELSE {calls[c].invitation}]
     /\ UNCHANGED <<codes, sessions, failures, calls, clock>>

----------------------------------------------------------------------------
(* What only the owner may do.                                             *)

requireOwner(c) ==
  calls[c].user \in DOMAIN users /\ users[calls[c].user].owner

CheckOwner(c) ==
  /\ at(c, "called")
  /\ is(c, {"assign", "invite"})
  /\ LET refused == \/ ~requireOwner(c)
                    \/ /\ is(c, {"assign"})
                       /\ calls[c].target = calls[c].user \/ ~calls[c].strong
     IN progress' = [progress EXCEPT ![c].at = IF refused THEN "refused" ELSE "allowed",
                                     ![c].now = clock]
  /\ UNCHANGED <<users, invitations, codes, sessions, failures, calls, clock>>

Invite(c) ==
  /\ at(c, "allowed")
  /\ is(c, {"invite"})
  /\ invitations' = with(invitations, c,
       [creator |-> calls[c].user, email |-> calls[c].address, used |-> FALSE,
        expires |-> progress[c].now + InvitationTTL])
  /\ goes(c, "done")
  /\ UNCHANGED <<users, codes, sessions, failures, calls, clock>>

\* setPasswordFor: there must be such a user.
FindTarget(c) ==
  /\ at(c, "allowed")
  /\ is(c, {"assign"})
  /\ \/ /\ calls[c].target \in DOMAIN users
        /\ progress' = [progress EXCEPT ![c].at = "set", ![c].user = calls[c].target]
     \/ /\ calls[c].target \notin DOMAIN users
        /\ goes(c, "refused")
  /\ UNCHANGED <<users, invitations, codes, sessions, failures, calls, clock>>

----------------------------------------------------------------------------
(* Setting a password, and then, in a statement of its own, ending the     *)
(* user's sessions.                                                        *)

passwordSet(user, password) ==
  [users EXCEPT ![user].password = password, ![user].version = @ + 1]

ended(user) ==
  [s \in DOMAIN sessions |->
    IF sessions[s].user = user THEN [sessions[s] EXCEPT !.live = FALSE] ELSE sessions[s]]

SetPassword(c) ==
  LET user == progress[c].user
  IN /\ at(c, "set")
     /\ \/ /\ user \in DOMAIN users
           /\ users' = passwordSet(user, calls[c].new)
           /\ progress' = [progress EXCEPT ![c].at = "revoke",
                                           ![c].version = users[user].version + 1]
        \/ /\ user \notin DOMAIN users
           /\ goes(c, "failed")
           /\ UNCHANGED users
     /\ UNCHANGED <<invitations, codes, sessions, failures, calls, clock>>

\* Mutated: the sessions of the caller are ended, and not of the target.
RevokeOwn(c) ==
  /\ at(c, "revoke")
  /\ sessions' = ended(calls[c].user)
  /\ goes(c, IF is(c, {"password"}) THEN "start" ELSE "done")
  /\ UNCHANGED <<users, invitations, codes, failures, calls, clock>>

RevokeAll(c) ==
  /\ at(c, "revoke")
  /\ sessions' = ended(progress[c].user)
  /\ goes(c, IF is(c, {"password"}) THEN "start" ELSE "done")
  /\ UNCHANGED <<users, invitations, codes, failures, calls, clock>>

----------------------------------------------------------------------------
(* Reset codes: issued by a script on the host, for the owner.             *)

unspentOf(user) == {k \in DOMAIN codes : codes[k].user = user /\ ~codes[k].used}

FindOwner(c) ==
  /\ at(c, "called")
  /\ is(c, {"issue"})
  /\ \/ \E u \in DOMAIN users :
          /\ users[u].owner
          /\ progress' = [progress EXCEPT ![c].at = "issue", ![c].user = u, ![c].now = clock]
     \/ /\ \A u \in DOMAIN users : ~users[u].owner
        /\ goes(c, "refused")
  /\ UNCHANGED <<users, invitations, codes, sessions, failures, calls, clock>>

\* The transaction's first statement sees, and locks, the codes of its moment.
SpendCodes(c) ==
  /\ at(c, "issue")
  /\ progress' = [progress EXCEPT ![c].at = "commit", ![c].seen = unspentOf(progress[c].user)]
  /\ UNCHANGED <<users, invitations, codes, sessions, failures, calls, clock>>

issueResetCode(c) ==
  LET user == progress[c].user
  IN /\ at(c, "commit")
     /\ \/ /\ user \in DOMAIN users
           /\ codes' = with([k \in DOMAIN codes |->
                               [codes[k] EXCEPT !.used = @ \/ k \in progress[c].seen]],
                            c, [user |-> user, used |-> FALSE,
                                expires |-> progress[c].now + ResetTTL])
           /\ goes(c, "done")
        \/ /\ user \notin DOMAIN users
           /\ goes(c, "failed")
           /\ UNCHANGED codes
     /\ UNCHANGED <<users, invitations, sessions, failures, calls, clock>>

locked(code) == \E d \in DOMAIN calls : at(d, "commit") /\ code \in progress[d].seen

spendable(c) ==
  /\ calls[c].code \in DOMAIN codes
  /\ ~codes[calls[c].code].used
  /\ codes[calls[c].code].expires > progress[c].now

Hash(c) ==
  /\ at(c, "admitted")
  /\ is(c, {"reset"})
  /\ goes(c, IF calls[c].strong THEN "hashed" ELSE "refused")
  /\ UNCHANGED <<users, invitations, codes, sessions, failures, calls, clock>>

\* One transaction: the code is spent, the password set, the sessions ended.
Reset(c) ==
  LET code == calls[c].code
  IN /\ at(c, "hashed")
     /\ is(c, {"reset"})
     /\ ~locked(code)
     /\ \/ /\ ~spendable(c)
           /\ goes(c, "refused")
           /\ UNCHANGED <<users, codes, sessions>>
        \/ /\ spendable(c)
           /\ codes' = [codes EXCEPT ![code].used = TRUE]
           /\ users' = passwordSet(codes[code].user, calls[c].new)
           /\ sessions' = ended(codes[code].user)
           /\ progress' = [progress EXCEPT ![c].at = "done", ![c].seen = {code},
                ![c].user = codes[code].user,
                ![c].version = users[codes[code].user].version + 1]
     /\ UNCHANGED <<invitations, failures, calls, clock>>

----------------------------------------------------------------------------

\* One transaction: the user and all that is the user's.  An owner stays while
\* there are others.  The engine is unloaded after the commit (EngineHub).
DeleteAccount(c) ==
  LET user == progress[c].user
      gone == user \notin DOMAIN users
      stays == ~gone /\ users[user].owner /\ DOMAIN users # {user}
  IN /\ at(c, "erase")
     /\ goes(c, IF stays THEN "refused" ELSE "done")
     /\ \/ /\ gone \/ stays
           /\ UNCHANGED <<users, codes, sessions, invitations>>
        \/ /\ ~gone /\ ~stays
           /\ users' = without(users, {user})
           /\ codes' = without(codes, {k \in DOMAIN codes : codes[k].user = user})
           /\ sessions' = without(sessions, {s \in DOMAIN sessions : sessions[s].user = user})
           /\ invitations' =
                without(invitations, {i \in DOMAIN invitations : invitations[i].creator = user})
     /\ UNCHANGED <<failures, calls, clock>>

Tick ==
  /\ clock < MaxTime
  /\ clock' = clock + 1
  /\ UNCHANGED <<users, invitations, codes, sessions, failures, calls, progress>>

Init ==
  \E w \in Worlds :
    /\ users = w.users
    /\ invitations = w.invitations
    /\ codes = w.codes
    /\ sessions = 
         [u \in DOMAIN w.users |-> [user |-> u, live |-> TRUE, made |-> 0, under |-> 0]]
    /\ calls = w.calls
    /\ failures = [lk \in UNION {limitsOf(w.calls[c]) : c \in DOMAIN w.calls} |-> <<>>]
    /\ progress = [c \in DOMAIN w.calls |-> Called]
    /\ clock = 0

Next ==
  \/ Tick
  \/ \E c \in DOMAIN calls :
       \/ Admit(c) \/ VerifyPassword(c) \/ Verified(c) \/ StartSession(c)
       \/ CheckOpen(c) \/ Register(c)
       \/ CheckOwner(c) \/ Invite(c) \/ FindTarget(c) \/ SetPassword(c) \/ RevokeAll(c)
       \/ FindOwner(c) \/ SpendCodes(c) \/ issueResetCode(c) \/ Hash(c) \/ Reset(c)
       \/ DeleteAccount(c)

Spec == Init /\ [][Next]_vars

----------------------------------------------------------------------------
(***************************************************************************)
(* An instance with users has exactly one owner, however registrations and *)
(* deletions interleave (accounts.service.ts:105-131, :201-223).           *)
(***************************************************************************)
OneOwner ==
  DOMAIN users # {} => Cardinality({u \in DOMAIN users : users[u].owner}) = 1

(***************************************************************************)
(* An invitation admits one account and a reset code changes one password, *)
(* however many present it at once (accounts.service.ts:115-124, :180-194).*)
(***************************************************************************)
SecretsWorkOnce ==
  \A c, d \in DOMAIN calls :
    /\ c # d
    /\ is(c, {"register", "reset"}) /\ is(d, {"register", "reset"})
    => progress[c].seen \cap progress[d].seen = {}

\* c set the password of its user and has ended the user's sessions.
changed(c) ==
  \/ at(c, "done") /\ is(c, {"password", "assign", "reset"})
  \/ at(c, "start") /\ is(c, {"password"})

(***************************************************************************)
(* However changes, resets, assignments and sign-ins of a user interleave, *)
(* once a change is complete no session is live whose row was there when   *)
(* it set the password: sessions are ended after the password is set, and  *)
(* the user's, whoever asked (auth.controller.ts:190-192,                  *)
(* accounts.service.ts:170-171, :180-194).                                 *)
(***************************************************************************)
ChangeEndsOlderSessions ==
  \A c \in DOMAIN calls : \A s \in DOMAIN sessions :
    /\ changed(c)
    /\ sessions[s].user = progress[c].user
    /\ sessions[s].made < progress[c].version
    => ~sessions[s].live

(***************************************************************************)
(* What "a password reset or change revokes every session" is for          *)
(* (docs/specs/2026-10-01-plan-d-auth-design.md:224-225): once a change is *)
(* complete, no session is live that an earlier password opened.  A sign-in*)
(* compares the password, and writes its session in a later statement that *)
(* does not look again (auth.controller.ts:106-109).                       *)
(***************************************************************************)
EarlierPasswordsOpenNothing ==
  \A c \in DOMAIN calls : \A s \in DOMAIN sessions :
    /\ changed(c)
    /\ sessions[s].user = progress[c].user
    /\ sessions[s].under < progress[c].version
    => ~sessions[s].live

=============================================================================
