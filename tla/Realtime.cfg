SPECIFICATION SpecMC
CONSTANTS
  Hooks = {h1, h2}
  Sockets = {s1, s2}
  Connects = {c1, c2}
  NoSocket = NoSocket
  Posts = {x1, x2}
  Polls = {p1}
  Take = 1
  MaxSince = 1
  Start = 2
  MaxTime = 4
  Skews = {0, 2}
  ServerSockets = {t1, t2}
  Joiners = {t1}
  Rooms = {r1, r2}
  Joins = {j1, j2}
  NoRoom = NoRoom
  MaxClientRooms = 1
  MaxVersion = 1
CHECK_DEADLOCK FALSE
INVARIANTS SocketWanted NoGap RoomCap
PROPERTIES ComesUp Caught LapsedGoes
