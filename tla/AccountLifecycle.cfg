SPECIFICATION FairSpec
CONSTANTS
  NoUser = NoUser
  NoToken = NoToken
  NoPassword = NoPassword
  Users = {u1, u2}
  Tokens = {t1, t2}
  Passwords = {p1}
  Requests = {r1, r2}
CHECK_DEADLOCK FALSE
INVARIANTS ActsOnce AccountsSound
PROPERTIES ErasureAfterWindow ErasedInTheEnd
