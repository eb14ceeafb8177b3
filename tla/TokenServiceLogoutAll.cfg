SPECIFICATION Spec
CONSTANTS
  NoUser = NoUser
  NoSession = NoSession
  NoVersion = NoVersion
  Users = {u1}
  Sessions = {s1, s2, s3}
  Requests = {r1, r2}
  MaxVersion = 1
CHECK_DEADLOCK FALSE
PROPERTY RevokeAllBeatsRotation
