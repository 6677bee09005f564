------------------------------ MODULE MCSessions ------------------------------
(***************************************************************************)
(* Who is signed in, in three worlds, one of them drawn at the start: two  *)
(* processes that share a stored session, two tabs that share a cookie,    *)
(* and the accounts of an instance.                                        *)
(***************************************************************************)
EXTENDS Accounts, StoredPromises, CookiePromise, TLC

VARIABLES world,
  open,                          \* SessionService
  lock,                          \* StoredSession
  hint, removed, flights, loads  \* CookieSession

serviceVars == <<session, requests, open, lost>>
storedVars == <<auth, lock, procs, cut>>
cookieVars == <<jar, hint, removed, tabs, awaiting, flights, loads>>
accountVars == <<users, invitations, codes, sessions, failures, calls, progress>>

Empty == [x \in {} |-> {}]
Blank == [kind |-> "none", user |-> "nobody", address |-> "none", ip |-> "ip", password |-> "old",
          new |-> "new", strong |-> TRUE, invitation |-> "none", target |-> "nobody", code |-> "none"]
user(address, owner) == [address |-> address, password |-> "old", owner |-> owner, version |-> 0]
register(a, i) == [Blank EXCEPT !.kind = "register", !.address = a, !.invitation = i]
login(a, p) == [Blank EXCEPT !.kind = "login", !.address = a, !.password = p]
by(kind, u) == [Blank EXCEPT !.kind = kind, !.user = u]
invitation == [creator |-> "u1", email |-> "none", used |-> FALSE, expires |-> 1]
resetCode == [user |-> "u1", used |-> FALSE, expires |-> 1]

Instances ==
  {[users |-> Empty, invitations |-> Empty, codes |-> Empty,
    calls |-> [c1 |-> register("a", "none"), c2 |-> register("b", "none"),
               c3 |-> register("a", "none")]],
   [users |-> [u1 |-> user("a", TRUE)], invitations |-> [i1 |-> invitation], codes |-> Empty,
    calls |-> [c1 |-> register("b", "i1"), c2 |-> register("c", "i1"),
               c3 |-> by("delete", "u1")]],
   [users |-> [u1 |-> user("a", TRUE)], invitations |-> Empty, codes |-> Empty,
    calls |-> [c1 |-> [by("invite", "u1") EXCEPT !.address = "b"],
               c2 |-> register("b", "c1"), c3 |-> register("a", "c1")]],
   [users |-> [u1 |-> user("a", TRUE), u2 |-> user("b", FALSE)],
    invitations |-> Empty, codes |-> Empty,
    calls |-> [c1 |-> by("password", "u2"), c2 |-> login("b", "old"),
               c3 |-> [by("assign", "u1") EXCEPT !.target = "u2"],
               c4 |-> by("delete", "u2")]],
   [users |-> [u1 |-> user("a", TRUE)], invitations |-> Empty,
    codes |-> [k1 |-> resetCode],
    calls |-> [c1 |-> [Blank EXCEPT !.kind = "reset", !.code = "k1"],
               c2 |-> [Blank EXCEPT !.kind = "reset", !.code = "k1", !.ip = "other"],
               c3 |-> by("issue", "u1"), c4 |-> by("delete", "u1")]],
   [users |-> [u1 |-> user("a", TRUE)], invitations |-> Empty, codes |-> Empty,
    calls |-> [c1 |-> login("a", "x"), c2 |-> login("a", "x"), c3 |-> login("a", "x"),
               c4 |-> login("a", "old")]]}

\* A tick is about 15 s: the grace period is two ticks, both attempts of a
\* renewal take at most two.
Stored == INSTANCE StoredSession
  WITH Grace <- 2, Idle <- 3, Absolute <- 3, Timeout <- 1, Stall <- 2,
       AccessLife <- 3, MaxTime <- 4, MaxLost <- 2

\* A tick is about 30 s, the grace period; an access token is renewed after
\* two, and a request may stall at the server for as long.
Cookie == INSTANCE CookieSession
  WITH Grace <- 1, Idle <- 2, Absolute <- 2, Timeout <- 1, Stall <- 2,
       AccessLife <- 2, MaxTime <- 2, MaxLoads <- 2, MaxLost <- 2

ASSUME Stored!TimesAreNat /\ Stored!LifeOutlastsGrace /\ Stored!RetriesInTime
ASSUME Cookie!TimesAreNat /\ Cookie!LifeOutlastsGrace

\* The store's promise is about the processes: where tabs share the server,
\* lost counts their answers, and cut leaves them out of it.
Unused == "unused"
noService == session = Unused /\ requests = Unused /\ open = Unused /\ lost = 0
noStore == auth = NoAuth /\ lock = Unused /\ procs = Unused /\ cut = TRUE
noBrowser == /\ jar = NoToken /\ hint = Unused /\ removed = Unused
             /\ tabs = [t \in Tabs |-> Cookie!Closed] /\ awaiting = Unused
             /\ flights = Unused /\ loads = Unused
noAccounts == /\ users = Empty /\ invitations = Empty /\ codes = Empty /\ sessions = Empty
              /\ failures = Empty /\ calls = Empty /\ progress = Empty

MCInit ==
  \/ world = "stored" /\ Stored!Init /\ noBrowser /\ noAccounts
  \/ world = "cookie" /\ Cookie!CookieInit /\ noStore /\ noAccounts
  \/ world = "accounts" /\ Init /\ noService /\ noStore /\ noBrowser

MCNext ==
  /\ UNCHANGED world
  /\ \/ world = "stored" /\ Stored!Next /\ UNCHANGED <<cookieVars, accountVars>>
     \/ world = "cookie" /\ Cookie!CookieNext /\ UNCHANGED <<storedVars, accountVars>>
     \/ world = "accounts" /\ Next
        /\ UNCHANGED <<serviceVars, storedVars, cookieVars>>

MCSpec ==
  MCInit /\ [][MCNext]_<<world, clock, serviceVars, storedVars, cookieVars, accountVars>>

Symmetry == Permutations(Sids) \cup Permutations(Requests)
              \cup Permutations(Procs) \cup Permutations(Tabs)

=============================================================================
