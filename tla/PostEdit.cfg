SPECIFICATION Spec
CONSTANTS
  Post = Post
  NoUser = NoUser
  NoComment = NoComment
  Author = author
  Users = {author, reader}
  Comments = {c1}
  Requests = {r1, r2}
  Liked = {}
  MinCount = 0
CHECK_DEADLOCK FALSE
PROPERTY RemovedForGood
