SPECIFICATION Spec
CONSTANTS
  NoUser = NoUser
  Users = {u1, u2}
  Requests = {r1, r2}
  MaxFollowing = 1
CHECK_DEADLOCK FALSE
INVARIANT NoDeadlock
