SPECIFICATION FeedSpec
CONSTANTS
  a = a  b = b
  Wallet = {a, b}
  s1 = s1  s2 = s2
  Salt = {s1, s2}
  r1 = r1  r2 = r2
  Request = {r1, r2}
  None = None
  Uses <- All
  PageSize <- PageSizes
  MaxMoves = 3
  MaxPosts = 3
  MaxLikes = 3
  MaxComments = 1
SYMMETRY Symmetry
INVARIANTS
  TypeOK
  TokensOpenAccounts
  NoDangling
  FollowsSound
  LikesBounded
  FeedTypeOK
  NothingRepeated
PROPERTIES
  OwnersOnly
  NothingMissed
