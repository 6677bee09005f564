SPECIFICATION MCSpec
CONSTANTS
  Sids = {s1, s2}
  Requests = {r1, r2}
  Procs = {p1, p2}
  Tabs = {t1, t2}
  \* A tick is half a limiter's window, and what a code lives for.
  Worlds <- Instances
  Limit = 2
  Window = 2
  InvitationTTL = 1
  ResetTTL = 1
  MaxTime = 2
SYMMETRY Symmetry
INVARIANTS
  CookieIsIssued
  NotMistakenForTheft
  OneOwner
  SecretsWorkOnce
  ChangeEndsOlderSessions
PROPERTIES
  OnlySignInStores
  EndedStaysEnded
CHECK_DEADLOCK FALSE
