SPECIFICATION FairSpec
CONSTANTS
  NoUser = NoUser
  NoSession = NoSession
  NoVersion = NoVersion
  Users = {u1}
  Sessions = {s1, s2}
  Requests = {r1, r2}
  MaxVersion = 2
CHECK_DEADLOCK FALSE
PROPERTIES  OldTokensDie
