SPECIFICATION Spec
CONSTANTS
  NoUser = NoUser
  NoHash = NoHash
  Users = {u1}
  Requests = {r1, r2}
  Hashes = {h1}
  Kinds = {"arcana"}
  Limit = 1
  FollowUpLimit = 1
  MaxDay = 0
CHECK_DEADLOCK FALSE
INVARIANT LimitKept
