SPECIFICATION SpecMC
CONSTANTS
  None = None
  LimitRequests = {l1, l2, l3}
  MaxLikes = 2
  MaxPosts = 1
  Window = 2
  Day = 3
  LimitTime = 5
  MaxOutages = 1
  AttemptRequests = {q1, q2}
  Emails = {e1}
  Ips = {i1}
  AttemptLimit = 1
  LinkLimit = 2
  AttemptWindow = 2
  MaxIpAdmin = 3
  AttemptTime = 3
  FeedPosts = {1, 2, 3, 4, 5}
  OldPosts = {1, 2, 3, 4}
  Pinned = {2, 3, 4, 5}
  Take = 2
  CacheTake = 4
  MaxChanges = 1
  MaxRetries = 1
  Comments = {1, 2, 3}
  OldComments = {1, 2}
  CommentLimit = 1
  NewPosts = {p1, p2}
  PillTime = 3
  MaxPostImages = 2
  PostLimit = 2
  MaxImages = 2
  MaxEdits = 1
  MaxPublishes = 2
  Decks = {d1, d2}
  Spreads = {s1}
  CardCount = 2
  DayLimit = 1
  MaxDraws = 3
  DrawSeq = 5
  MaxSeq = 4
  MaxVisits = 2
  MaxAsks = 2
  StrictMode = TRUE
  Attempts = {a1, a2, a3, a4}
  Boot = {realtime, kicks}
  Publishers = {b1}
  Timers = {t1}
  MaxFailures = 1
CHECK_DEADLOCK FALSE
INVARIANTS  FeedSound CommentsSound PillSound ComposerSound DrawSound  
