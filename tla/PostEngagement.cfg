SPECIFICATION SpecMC
CONSTANTS
  Post = Post
  NoUser = NoUser
  NoComment = NoComment
  Author = author
  Users = {author, reader, other}
  Comments = {c1, c2}
  Requests = {r1, r2}
  Liked = {Post, c1}
  MinCount = 0
  CounterUsers = {author, reader}
  CounterComments = {c1}
CHECK_DEADLOCK FALSE
INVARIANT RowsSound
PROPERTIES CountersMoveWithRows CountersEndExact
