SPECIFICATION SpecMC
CONSTANTS
  NoUser = NoUser
  NoHash = NoHash
  Users = {x1, x2, x3}
  Requests = {y1, y2}
  MaxFollowing = 1
  AIUsers = {y1, y2}
  AIRequests = {x1, x2, x3}
  Hashes = {h1}
  Kinds = {"interpret", "arcana", "horoscope", "followUp"}
  Limit = 1
  FollowUpLimit = 1
  MaxDay = 1
SYMMETRY Symmetry
CHECK_DEADLOCK FALSE
INVARIANTS LimitKept FollowsSound ChargedAsAnswered FollowUpsSound CacheSound
