SPECIFICATION SpecMC
CONSTANTS
  NoUser = NoUser
  NoSession = NoSession
  NoVersion = NoVersion
  Users = {u1}
  Sessions = {s1, s2, s3}
  Requests = {r1, r2}
  MaxVersion = 2
  PageUsers = {ana}
  PageRequests = {q1}
  Lookups = {r1, r2}
  NoLookup = NoLookup
  Unverified = Unverified
  MaxToken = 2
CHECK_DEADLOCK FALSE
SYMMETRY Symmetry
INVARIANTS TokensSound PageSound
PROPERTIES RotatedOnce RefreshFamilies RefreshWins
