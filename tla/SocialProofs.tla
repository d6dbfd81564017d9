----------------------------- MODULE SocialProofs -----------------------------
(***************************************************************************)
(* What holds for any number of wallets, requests, posts and operations:   *)
(* the requests only share the tables, so that an invariant about one of   *)
(* them, Sound, survives the steps of the others because the tables change *)
(* in few ways, TablesMove.                                                *)
(***************************************************************************)
EXTENDS Social, FiniteSetTheorems, TLAPS

WalletSteps == {"findFollowee", "findAccount", "createAccount", "createFollow",
                "findFollow", "deleteFollow"}
Deleting == {"deleteImages", "deleteLikes", "deleteComments", "deletePost"}
PostSteps == {"findOwnPost", "findPost", "findLike", "createLike", "deleteLike",
              "createComment"} \cup Deleting

(* What a request carries to the statement it waits for.                   *)
Carries(r) ==
    /\ pc[r] # "idle" => req[r] \in [op : Op, by : Wallet, on : Target]
    /\ pc[r] \in WalletSteps => on(r) \in Wallet /\ HasAccount(by(r))
    /\ pc[r] \in PostSteps => on(r) \in 1..lastPost
    /\ pc[r] \in {"findAccount", "createAccount", "createFollow"} => on(r) # by(r)
    /\ pc[r] = "createFollow" => HasAccount(on(r))
    /\ pc[r] = "findOwnPost" => op(r) = "deletePost"
    /\ pc[r] = "findOwnComment" => op(r) = "deleteComment" /\ on(r) \in 1..lastComment

(* Who is about to delete checked that it may.                             *)
MayDelete(r) ==
    /\ pc[r] \in Deleting =>
          /\ op(r) = "deletePost"
          /\ \A x \in posts : x.id = on(r) => x.by = by(r)
    /\ pc[r] = "deleteLike" =>
          /\ op(r) = "unlikePost" /\ found[r] \in 1..lastLike
          /\ \A x \in likes : x.id = found[r] => x.by = by(r)
    /\ pc[r] = "deleteComment" =>
          /\ op(r) = "deleteComment" /\ on(r) \in 1..lastComment
          /\ \A x \in comments : x.id = on(r) => x.by = by(r)

Sound(r) == Carries(r) /\ MayDelete(r)

(* The autoincrement sequences are ahead of the keys of their tables.      *)
Keys(table, last) ==
    /\ \A x \in table : x.id \in 1..last
    /\ \A x, y \in table : x.id = y.id => x = y

KeysInv == Keys(posts, lastPost) /\ Keys(likes, lastLike) /\ Keys(comments, lastComment)

SocialInv == TypeOK /\ KeysInv /\ \A r \in Request : Sound(r)
-------------------------------------------------------------------------------
LEMMA OpIs ==
    Op = {"login", "followUser", "unfollowUser", "removeFollower",
          "uploadCoverPhoto", "removeCoverPhoto", "createPostWithImages",
          "createPostWithoutImage", "deletePost", "likePost", "unlikePost",
          "createComment", "deleteComment"}
BY DEF Op, First

LEMMA StepIs ==
    Step = {"findLogin", "findFollowee", "findFollow", "setCover", "findCover",
            "createPost", "findOwnPost", "findPost", "findOwnComment",
            "idle", "createLogin", "findAccount", "createAccount", "createFollow",
            "deleteFollow", "clearCover", "deleteImages", "deleteLikes",
            "deleteComments", "deletePost", "findLike", "createLike",
            "deleteLike", "createComment", "deleteComment"}
BY OpIs DEF Step, First

Requests == [op : Op, by : Wallet, on : Target]

(* The variables of the requests when r goes on to its statement "next".   *)
LEMMA GotoRequest ==
    ASSUME TypeOK, NEW r \in Request, NEW next \in Step, Goto(r, next)
    PROVE  /\ pc' \in [Request -> Step]
           /\ req' \in [Request -> Requests \cup {None}]
           /\ found' \in [Request -> 0..MaxLikes]
           /\ pc'[r] = next
           /\ next # "idle" => req'[r] = req[r] /\ found'[r] = found[r]
           /\ \A q \in Request \ {r} :
                 pc'[q] = pc[q] /\ req'[q] = req[q] /\ found'[q] = found[q]
<1>1. CASE next = "idle"
  <2>1. /\ pc' = [pc EXCEPT ![r] = next]
        /\ req' = [req EXCEPT ![r] = None]
        /\ found' = [found EXCEPT ![r] = 0]
    BY <1>1 DEF Goto
  <2>2. 0 \in 0..MaxLikes
    BY BoundsAssumption
  <2>. QED BY <1>1, <2>1, <2>2 DEF TypeOK, Requests
<1>2. CASE next # "idle"
  <2>1. /\ pc' = [pc EXCEPT ![r] = next]
        /\ req' = req /\ found' = found
    BY <1>2 DEF Goto
  <2>. QED BY <2>1 DEF TypeOK, Requests
<1>. QED BY <1>1, <1>2

(* What a step of request r leaves to the others.                          *)
Frame(r) ==
    /\ pc' \in [Request -> Step]
    /\ req' \in [Request -> Requests \cup {None}]
    /\ found' \in [Request -> 0..MaxLikes]
    /\ \A q \in Request \ {r} :
          pc'[q] = pc[q] /\ req'[q] = req[q] /\ found'[q] = found[q]

LEMMA ReadsFrame ==
    ASSUME TypeOK, NEW r \in Request, NEW here, NEW next \in Step, Reads(r, here, next)
    PROVE  Frame(r) /\ UNCHANGED db
BY GotoRequest DEF Reads, Frame

(* Rows get numbers from the sequences, and accounts keep their hashes.    *)
NewRows(old, last, new, newLast) ==
    /\ newLast \in Nat /\ last <= newLast
    /\ \A x \in new : x \in old \/ (last < x.id /\ x.id <= newLast)

TablesMove ==
    /\ NewRows(posts, lastPost, posts', lastPost')
    /\ NewRows(likes, lastLike, likes', lastLike')
    /\ NewRows(comments, lastComment, comments', lastComment')
    /\ \A w \in Wallet : HasAccount(w) => hash'[w] = hash[w]

TablesType ==
    /\ hash \in [Wallet -> Hash \cup {None}]
    /\ tokens \subseteq Hash
    /\ follows \subseteq Wallet \X Wallet
    /\ covers \subseteq Wallet
    /\ posts \subseteq [id : PostId, by : Wallet] /\ images \subseteq PostId
    /\ likes \subseteq Row(1..MaxLikes)
    /\ comments \subseteq Row(1..MaxComments)
    /\ lastPost \in 0..MaxPosts
    /\ lastLike \in 0..MaxLikes /\ lastComment \in 0..MaxComments

LEMMA TypeIs ==
    ASSUME TypeOK
    PROVE  TablesType /\ use \in Uses
BY DEF TypeOK, TablesType

LEMMA TypeStays ==
    ASSUME TypeOK, use' = use, TablesType', NEW r \in Request, Frame(r)
    PROVE  TypeOK'
BY DEF TypeOK, TablesType, Frame, Requests

LEMMA TablesStay ==
    ASSUME TypeOK, UNCHANGED db
    PROVE  TablesType' /\ TablesMove
BY BoundsAssumption
   DEF TypeOK, TablesType, TablesMove, NewRows, db, account, postTables, likeTable,
       commentTable

(* The actions that only read.                                             *)
LEMMA ReadStep ==
    ASSUME TypeOK, NEW r \in Request,
           \/ StatementFails(r) \/ FindFollowee(r) \/ FindAccount(r) \/ FindFollow(r)
           \/ FindCover(r) \/ FindOwnPost(r) \/ FindPost(r) \/ FindOwnComment(r)
    PROVE  Frame(r) /\ UNCHANGED db
<1>1. CASE StatementFails(r)
  BY <1>1, StepIs, ReadsFrame DEF StatementFails
<1>2. CASE FindFollowee(r)
  BY <1>2, StepIs, ReadsFrame DEF FindFollowee
<1>3. CASE FindAccount(r)
  BY <1>3, StepIs, ReadsFrame DEF FindAccount
<1>4. CASE FindFollow(r)
  BY <1>4, StepIs, ReadsFrame DEF FindFollow
<1>5. CASE FindCover(r)
  BY <1>5, StepIs, ReadsFrame DEF FindCover
<1>6. CASE FindOwnPost(r)
  BY <1>6, StepIs, ReadsFrame DEF FindOwnPost
<1>7. CASE FindPost(r)
  BY <1>7, StepIs, ReadsFrame DEF FindPost
<1>8. CASE FindOwnComment(r)
  BY <1>8, StepIs, ReadsFrame DEF FindOwnComment
<1>. QED BY <1>1, <1>2, <1>3, <1>4, <1>5, <1>6, <1>7, <1>8

(* What a waiting request carries is of the right type.                    *)
LEMMA CarriesType ==
    ASSUME SocialInv, NEW r \in Request, pc[r] # "idle"
    PROVE  /\ by(r) \in Wallet
           /\ pc[r] \in WalletSteps => on(r) \in Wallet
           /\ pc[r] \in PostSteps => on(r) \in PostId /\ on(r) \in 1..lastPost
<1>1. Carries(r) /\ lastPost \in 0..MaxPosts
  BY DEF SocialInv, Sound, TypeOK
<1>2. req[r] \in [op : Op, by : Wallet, on : Target]
  BY <1>1 DEF Carries
<1>. QED BY <1>1, <1>2, BoundsAssumption DEF Carries, by, on, PostId

LEMMA ReceiveStep ==
    ASSUME SocialInv, NEW r \in Request, Receive(r)
    PROVE  Frame(r) /\ UNCHANGED db
<1>1. TypeOK
  BY DEF SocialInv
<1>2. PICK o \in use.ops, w \in Wallet : \E t \in TargetsOf(o) :
          /\ req' = [req EXCEPT ![r] = [op |-> o, by |-> w, on |-> t]]
          /\ pc' = [pc EXCEPT ![r] = First[o]]
  BY DEF Receive
<1>3. PICK t \in TargetsOf(o) :
          /\ req' = [req EXCEPT ![r] = [op |-> o, by |-> w, on |-> t]]
          /\ pc' = [pc EXCEPT ![r] = First[o]]
  BY <1>2
<1>4. o \in Op
  BY <1>1, UsesAssumption DEF TypeOK
<1>5. First[o] \in Step
  BY <1>4 DEF Step
<1>6. t \in Target
  BY <1>1, <1>4, BoundsAssumption, OpIs DEF TargetsOf, Target, TypeOK, PostId
<1>7. UNCHANGED <<found, db>>
  BY DEF Receive
<1>. QED BY <1>1, <1>3, <1>4, <1>5, <1>6, <1>7 DEF Frame, TypeOK, Requests

(* The actions that write.                                                 *)
LEMMA FindLoginStep ==
    ASSUME SocialInv, NEW r \in Request, FindLogin(r)
    PROVE  Frame(r) /\ TablesType' /\ TablesMove
<1>1. TypeOK
  BY DEF SocialInv
<1>2. Frame(r)
  BY <1>1, GotoRequest, StepIs DEF FindLogin, Ends, Frame
<1>3. /\ by(r) \in Wallet
      /\ pc[r] \in WalletSteps => on(r) \in Wallet
      /\ pc[r] \in PostSteps => on(r) \in PostId /\ on(r) \in 1..lastPost
  BY CarriesType DEF FindLogin, At
<1>4. TablesType'
  BY <1>1, <1>3, BoundsAssumption, UsesAssumption
     DEF FindLogin, At, SignToken, HasAccount, HashOf, Hash, WalletSteps,
         PostSteps, TypeOK, TablesType, PostId, account, postTables,
         likeTable, commentTable, db
<1>5. TablesMove
  BY <1>1, <1>3, BoundsAssumption, UsesAssumption
     DEF FindLogin, At, SignToken, HasAccount, HashOf, Hash, WalletSteps,
         PostSteps, TypeOK, TablesMove, NewRows, PostId, account, postTables,
         likeTable, commentTable, db
<1>. QED BY <1>2, <1>4, <1>5

LEMMA CreateLoginStep ==
    ASSUME SocialInv, NEW r \in Request, CreateLogin(r)
    PROVE  Frame(r) /\ TablesType' /\ TablesMove
<1>1. TypeOK
  BY DEF SocialInv
<1>2. Frame(r)
  BY <1>1, GotoRequest, StepIs DEF CreateLogin, Ends, Frame
<1>3. /\ by(r) \in Wallet
      /\ pc[r] \in WalletSteps => on(r) \in Wallet
      /\ pc[r] \in PostSteps => on(r) \in PostId /\ on(r) \in 1..lastPost
  BY CarriesType DEF CreateLogin, At
<1>4. TablesType'
  <2>1. UNCHANGED <<follows, covers, postTables, likeTable, commentTable>>
    BY DEF CreateLogin
  <2>2. hash' \in [Wallet -> Hash \cup {None}] /\ tokens' \subseteq Hash
    <3>1. CASE HasAccount(by(r))
      BY <1>1, <3>1 DEF CreateLogin, account, TypeOK
    <3>2. CASE ~HasAccount(by(r))
      <4>1. PICK salt \in Salt : /\ hash' = [hash EXCEPT ![by(r)] = HashOf(by(r), salt)]
                                 /\ SignToken(HashOf(by(r), salt))
        BY <3>2 DEF CreateLogin
      <4>2. HashOf(by(r), salt) \in Hash
        BY <1>3 DEF HashOf, Hash
      <4>. QED BY <1>1, <4>1, <4>2 DEF TypeOK, SignToken
    <3>. QED BY <3>1, <3>2
  <2>. QED BY <1>1, <2>1, <2>2 DEF TypeOK, TablesType, postTables, likeTable, commentTable
<1>5. TablesMove
  BY <1>1, <1>3, BoundsAssumption, UsesAssumption
     DEF CreateLogin, At, SignToken, HasAccount, HashOf, Hash, WalletSteps,
         PostSteps, TypeOK, TablesMove, NewRows, PostId, account, postTables,
         likeTable, commentTable, db
<1>. QED BY <1>2, <1>4, <1>5

LEMMA CreateAccountStep ==
    ASSUME SocialInv, NEW r \in Request, CreateAccount(r)
    PROVE  Frame(r) /\ TablesType' /\ TablesMove
<1>1. TypeOK
  BY DEF SocialInv
<1>2. Frame(r)
  BY <1>1, GotoRequest, StepIs DEF CreateAccount, Ends, Frame
<1>3. /\ by(r) \in Wallet
      /\ pc[r] \in WalletSteps => on(r) \in Wallet
      /\ pc[r] \in PostSteps => on(r) \in PostId /\ on(r) \in 1..lastPost
  BY CarriesType DEF CreateAccount, At
<1>4. TablesType'
  <2>1. UNCHANGED <<follows, covers, postTables, likeTable, commentTable>>
    BY DEF CreateAccount
  <2>2. hash' \in [Wallet -> Hash \cup {None}] /\ tokens' \subseteq Hash
    <3>1. CASE HasAccount(on(r))
      BY <1>1, <3>1 DEF CreateAccount, account, TypeOK
    <3>2. CASE ~HasAccount(on(r))
      <4>1. PICK salt \in Salt : /\ hash' = [hash EXCEPT ![on(r)] = HashOf(on(r), salt)]
                                 /\ UNCHANGED tokens
        BY <3>2 DEF CreateAccount
      <4>2. HashOf(on(r), salt) \in Hash
        BY <1>3 DEF HashOf, Hash, WalletSteps, CreateAccount, At
      <4>. QED BY <1>1, <4>1, <4>2 DEF TypeOK, SignToken
    <3>. QED BY <3>1, <3>2
  <2>. QED BY <1>1, <2>1, <2>2 DEF TypeOK, TablesType, postTables, likeTable, commentTable
<1>5. TablesMove
  BY <1>1, <1>3, BoundsAssumption, UsesAssumption
     DEF CreateAccount, At, HasAccount, HashOf, Hash, WalletSteps, PostSteps,
         TypeOK, TablesMove, NewRows, PostId, account, postTables, likeTable,
         commentTable, db
<1>. QED BY <1>2, <1>4, <1>5

LEMMA CreateFollowStep ==
    ASSUME SocialInv, NEW r \in Request, CreateFollow(r)
    PROVE  Frame(r) /\ TablesType' /\ TablesMove
<1>1. TypeOK
  BY DEF SocialInv
<1>2. Frame(r)
  BY <1>1, GotoRequest, StepIs DEF CreateFollow, Ends, Frame
<1>3. /\ by(r) \in Wallet
      /\ pc[r] \in WalletSteps => on(r) \in Wallet
      /\ pc[r] \in PostSteps => on(r) \in PostId /\ on(r) \in 1..lastPost
  BY CarriesType DEF CreateFollow, At
<1>4. TablesType'
  BY <1>1, <1>3, BoundsAssumption, UsesAssumption
     DEF CreateFollow, At, WalletSteps, PostSteps, TypeOK, TablesType, PostId,
         account, postTables, likeTable, commentTable, db
<1>5. TablesMove
  BY <1>1, <1>3, BoundsAssumption, UsesAssumption
     DEF CreateFollow, At, WalletSteps, PostSteps, TypeOK, TablesMove,
         NewRows, PostId, account, postTables, likeTable, commentTable, db
<1>. QED BY <1>2, <1>4, <1>5

LEMMA DeleteFollowStep ==
    ASSUME SocialInv, NEW r \in Request, DeleteFollow(r)
    PROVE  Frame(r) /\ TablesType' /\ TablesMove
<1>1. TypeOK
  BY DEF SocialInv
<1>2. Frame(r)
  BY <1>1, GotoRequest, StepIs DEF DeleteFollow, Ends, Frame
<1>3. TablesType'
  BY <1>1, BoundsAssumption, UsesAssumption
     DEF DeleteFollow, At, TypeOK, TablesType, PostId, account, postTables,
         likeTable, commentTable, db
<1>4. TablesMove
  BY <1>1, BoundsAssumption, UsesAssumption
     DEF DeleteFollow, At, TypeOK, TablesMove, NewRows, PostId, account,
         postTables, likeTable, commentTable, db
<1>. QED BY <1>2, <1>3, <1>4

LEMMA SetCoverStep ==
    ASSUME SocialInv, NEW r \in Request, SetCover(r)
    PROVE  Frame(r) /\ TablesType' /\ TablesMove
<1>1. TypeOK
  BY DEF SocialInv
<1>2. Frame(r)
  BY <1>1, GotoRequest, StepIs DEF SetCover, Ends, Frame
<1>3. /\ by(r) \in Wallet
      /\ pc[r] \in WalletSteps => on(r) \in Wallet
      /\ pc[r] \in PostSteps => on(r) \in PostId /\ on(r) \in 1..lastPost
  BY CarriesType DEF SetCover, At
<1>4. TablesType'
  BY <1>1, <1>3, BoundsAssumption, UsesAssumption
     DEF SetCover, At, WalletSteps, PostSteps, TypeOK, TablesType, PostId,
         account, postTables, likeTable, commentTable, db
<1>5. TablesMove
  BY <1>1, <1>3, BoundsAssumption, UsesAssumption
     DEF SetCover, At, WalletSteps, PostSteps, TypeOK, TablesMove, NewRows,
         PostId, account, postTables, likeTable, commentTable, db
<1>. QED BY <1>2, <1>4, <1>5

LEMMA ClearCoverStep ==
    ASSUME SocialInv, NEW r \in Request, ClearCover(r)
    PROVE  Frame(r) /\ TablesType' /\ TablesMove
<1>1. TypeOK
  BY DEF SocialInv
<1>2. Frame(r)
  BY <1>1, GotoRequest, StepIs DEF ClearCover, Ends, Frame
<1>3. TablesType'
  BY <1>1, BoundsAssumption, UsesAssumption
     DEF ClearCover, At, TypeOK, TablesType, PostId, account, postTables,
         likeTable, commentTable, db
<1>4. TablesMove
  BY <1>1, BoundsAssumption, UsesAssumption
     DEF ClearCover, At, TypeOK, TablesMove, NewRows, PostId, account,
         postTables, likeTable, commentTable, db
<1>. QED BY <1>2, <1>3, <1>4

LEMMA CreatePostStep ==
    ASSUME SocialInv, NEW r \in Request, CreatePost(r)
    PROVE  Frame(r) /\ TablesType' /\ TablesMove
<1>1. TypeOK
  BY DEF SocialInv
<1>2. Frame(r)
  BY <1>1, GotoRequest, StepIs DEF CreatePost, Ends, Frame
<1>3. /\ by(r) \in Wallet
      /\ pc[r] \in WalletSteps => on(r) \in Wallet
      /\ pc[r] \in PostSteps => on(r) \in PostId /\ on(r) \in 1..lastPost
  BY CarriesType DEF CreatePost, At
<1>4. TablesType'
  <2>1. lastPost' = lastPost + 1 /\ lastPost < use.posts /\ use.posts \in 0..MaxPosts
    BY <1>1, UsesAssumption DEF CreatePost, TypeOK
  <2>2. lastPost' \in 0..MaxPosts /\ lastPost' \in PostId
    BY <1>1, <2>1, BoundsAssumption DEF TypeOK, PostId
  <2>3. posts' \subseteq [id : PostId, by : Wallet] /\ images' \subseteq PostId
    <3>1. posts' = posts \cup {[id |-> lastPost', by |-> by(r)]}
          /\ (images' = images \cup {lastPost'} \/ images' = images)
      BY DEF CreatePost
    <3>2. [id |-> lastPost', by |-> by(r)] \in [id : PostId, by : Wallet]
      BY <1>3, <2>2
    <3>3. posts \subseteq [id : PostId, by : Wallet] /\ images \subseteq PostId
      BY <1>1 DEF TypeOK
    <3>. QED BY <2>2, <3>1, <3>2, <3>3, Zenon
  <2>4. UNCHANGED <<hash, tokens, follows, covers, likes, lastLike, comments, lastComment>>
    BY DEF CreatePost, account, likeTable, commentTable
  <2>. QED BY <1>1, <2>2, <2>3, <2>4 DEF TypeOK, TablesType, PostId
<1>5. TablesMove
  BY <1>1, <1>3, BoundsAssumption, UsesAssumption
     DEF CreatePost, At, WalletSteps, PostSteps, TypeOK, TablesMove, NewRows,
         PostId, account, postTables, likeTable, commentTable, db
<1>. QED BY <1>2, <1>4, <1>5

LEMMA DeleteImagesStep ==
    ASSUME SocialInv, NEW r \in Request, DeleteImages(r)
    PROVE  Frame(r) /\ TablesType' /\ TablesMove
<1>1. TypeOK
  BY DEF SocialInv
<1>2. Frame(r)
  BY <1>1, GotoRequest, StepIs DEF DeleteImages, Ends, Frame
<1>3. TablesType'
  BY <1>1, BoundsAssumption, UsesAssumption
     DEF DeleteImages, At, TypeOK, TablesType, PostId, account, postTables,
         likeTable, commentTable, db
<1>4. TablesMove
  BY <1>1, BoundsAssumption, UsesAssumption
     DEF DeleteImages, At, TypeOK, TablesMove, NewRows, PostId, account,
         postTables, likeTable, commentTable, db
<1>. QED BY <1>2, <1>3, <1>4

LEMMA DeleteLikesStep ==
    ASSUME SocialInv, NEW r \in Request, DeleteLikes(r)
    PROVE  Frame(r) /\ TablesType' /\ TablesMove
<1>1. TypeOK
  BY DEF SocialInv
<1>2. Frame(r)
  BY <1>1, GotoRequest, StepIs DEF DeleteLikes, Ends, Frame
<1>3. TablesType'
  BY <1>1, BoundsAssumption, UsesAssumption
     DEF DeleteLikes, At, TypeOK, TablesType, PostId, account, postTables,
         likeTable, commentTable, db
<1>4. TablesMove
  BY <1>1, BoundsAssumption, UsesAssumption
     DEF DeleteLikes, At, TypeOK, TablesMove, NewRows, PostId, account,
         postTables, likeTable, commentTable, db
<1>. QED BY <1>2, <1>3, <1>4

LEMMA DeleteCommentsStep ==
    ASSUME SocialInv, NEW r \in Request, DeleteComments(r)
    PROVE  Frame(r) /\ TablesType' /\ TablesMove
<1>1. TypeOK
  BY DEF SocialInv
<1>2. Frame(r)
  BY <1>1, GotoRequest, StepIs DEF DeleteComments, Ends, Frame
<1>3. TablesType'
  BY <1>1, BoundsAssumption, UsesAssumption
     DEF DeleteComments, At, TypeOK, TablesType, PostId, account, postTables,
         likeTable, commentTable, db
<1>4. TablesMove
  BY <1>1, BoundsAssumption, UsesAssumption
     DEF DeleteComments, At, TypeOK, TablesMove, NewRows, PostId, account,
         postTables, likeTable, commentTable, db
<1>. QED BY <1>2, <1>3, <1>4

LEMMA DeletePostStep ==
    ASSUME SocialInv, NEW r \in Request, DeletePost(r)
    PROVE  Frame(r) /\ TablesType' /\ TablesMove
<1>1. TypeOK
  BY DEF SocialInv
<1>2. Frame(r)
  BY <1>1, GotoRequest, StepIs DEF DeletePost, Ends, Frame
<1>3. TablesType'
  BY <1>1, BoundsAssumption, UsesAssumption
     DEF DeletePost, At, TypeOK, TablesType, PostId, account, postTables,
         likeTable, commentTable, db
<1>4. TablesMove
  BY <1>1, BoundsAssumption, UsesAssumption
     DEF DeletePost, At, TypeOK, TablesMove, NewRows, PostId, account,
         postTables, likeTable, commentTable, db
<1>. QED BY <1>2, <1>3, <1>4

LEMMA FindLikeStep ==
    ASSUME SocialInv, NEW r \in Request, FindLike(r)
    PROVE  Frame(r) /\ TablesType' /\ TablesMove
<1>1. TypeOK
  BY DEF SocialInv
<1>2. ASSUME NEW next \in Step, Goto(r, next)
      PROVE  Frame(r)
  BY <1>1, <1>2, GotoRequest DEF Frame
<1>3. ASSUME NEW x \in LikesOf(by(r), on(r)), found' = [found EXCEPT ![r] = x.id],
             pc' = [pc EXCEPT ![r] = "deleteLike"], req' = req
      PROVE  Frame(r)
  <2>1. x.id \in 0..MaxLikes
    BY <1>1, BoundsAssumption DEF TypeOK, Row, LikesOf
  <2>. QED BY <1>1, <1>3, <2>1, StepIs DEF Frame, TypeOK, Requests
<1>4. Frame(r)
  BY <1>2, <1>3, StepIs DEF FindLike, Ends
<1>5. TablesType' /\ TablesMove
  BY <1>1, TablesStay DEF FindLike
<1>. QED BY <1>4, <1>5

LEMMA CreateLikeStep ==
    ASSUME SocialInv, NEW r \in Request, CreateLike(r)
    PROVE  Frame(r) /\ TablesType' /\ TablesMove
<1>1. TypeOK
  BY DEF SocialInv
<1>2. Frame(r)
  BY <1>1, GotoRequest, StepIs DEF CreateLike, Ends, Frame
<1>3. /\ by(r) \in Wallet
      /\ pc[r] \in WalletSteps => on(r) \in Wallet
      /\ pc[r] \in PostSteps => on(r) \in PostId /\ on(r) \in 1..lastPost
  BY CarriesType DEF CreateLike, At
<1>4. TablesType'
  BY <1>1, <1>3, BoundsAssumption, UsesAssumption
     DEF CreateLike, At, Row, WalletSteps, PostSteps, TypeOK, TablesType,
         PostId, account, postTables, likeTable, commentTable, db
<1>5. TablesMove
  BY <1>1, <1>3, BoundsAssumption, UsesAssumption
     DEF CreateLike, At, Row, WalletSteps, PostSteps, TypeOK, TablesMove,
         NewRows, PostId, account, postTables, likeTable, commentTable, db
<1>. QED BY <1>2, <1>4, <1>5

LEMMA DeleteLikeStep ==
    ASSUME SocialInv, NEW r \in Request, DeleteLike(r)
    PROVE  Frame(r) /\ TablesType' /\ TablesMove
<1>1. TypeOK
  BY DEF SocialInv
<1>2. Frame(r)
  BY <1>1, GotoRequest, StepIs DEF DeleteLike, Ends, Frame
<1>3. TablesType'
  BY <1>1, BoundsAssumption, UsesAssumption
     DEF DeleteLike, At, TypeOK, TablesType, PostId, account, postTables,
         likeTable, commentTable, db
<1>4. TablesMove
  BY <1>1, BoundsAssumption, UsesAssumption
     DEF DeleteLike, At, TypeOK, TablesMove, NewRows, PostId, account,
         postTables, likeTable, commentTable, db
<1>. QED BY <1>2, <1>3, <1>4

LEMMA CreateCommentStep ==
    ASSUME SocialInv, NEW r \in Request, CreateComment(r)
    PROVE  Frame(r) /\ TablesType' /\ TablesMove
<1>1. TypeOK
  BY DEF SocialInv
<1>2. Frame(r)
  BY <1>1, GotoRequest, StepIs DEF CreateComment, Ends, Frame
<1>3. /\ by(r) \in Wallet
      /\ pc[r] \in WalletSteps => on(r) \in Wallet
      /\ pc[r] \in PostSteps => on(r) \in PostId /\ on(r) \in 1..lastPost
  BY CarriesType DEF CreateComment, At
<1>4. TablesType'
  BY <1>1, <1>3, BoundsAssumption, UsesAssumption
     DEF CreateComment, At, Row, NewComment, WalletSteps, PostSteps, TypeOK,
         TablesType, PostId, account, postTables, likeTable, commentTable, db
<1>5. TablesMove
  BY <1>1, <1>3, BoundsAssumption, UsesAssumption
     DEF CreateComment, At, Row, NewComment, WalletSteps, PostSteps, TypeOK,
         TablesMove, NewRows, PostId, account, postTables, likeTable,
         commentTable, db
<1>. QED BY <1>2, <1>4, <1>5

LEMMA DeleteCommentStep ==
    ASSUME SocialInv, NEW r \in Request, DeleteComment(r)
    PROVE  Frame(r) /\ TablesType' /\ TablesMove
<1>1. TypeOK
  BY DEF SocialInv
<1>2. Frame(r)
  BY <1>1, GotoRequest, StepIs DEF DeleteComment, Ends, Frame
<1>3. TablesType'
  BY <1>1, BoundsAssumption, UsesAssumption
     DEF DeleteComment, At, TypeOK, TablesType, PostId, account, postTables,
         likeTable, commentTable, db
<1>4. TablesMove
  BY <1>1, BoundsAssumption, UsesAssumption
     DEF DeleteComment, At, TypeOK, TablesMove, NewRows, PostId, account,
         postTables, likeTable, commentTable, db
<1>. QED BY <1>2, <1>3, <1>4

(* Every step of a request.                                                *)
LEMMA ServeStep ==
    ASSUME SocialInv, NEW r \in Request, Serve(r)
    PROVE  Frame(r) /\ TablesType' /\ TablesMove
<1>1. CASE \/ StatementFails(r) \/ FindFollowee(r) \/ FindAccount(r) \/ FindFollow(r)
           \/ FindCover(r) \/ FindOwnPost(r) \/ FindPost(r) \/ FindOwnComment(r)
  BY <1>1, ReadStep, TablesStay DEF SocialInv
<1>2. CASE Receive(r)
  BY <1>2, ReceiveStep, TablesStay DEF SocialInv
<1>3. CASE FindLogin(r)
  BY <1>3, FindLoginStep
<1>4. CASE CreateLogin(r)
  BY <1>4, CreateLoginStep
<1>5. CASE CreateAccount(r)
  BY <1>5, CreateAccountStep
<1>6. CASE CreateFollow(r)
  BY <1>6, CreateFollowStep
<1>7. CASE DeleteFollow(r)
  BY <1>7, DeleteFollowStep
<1>8. CASE SetCover(r)
  BY <1>8, SetCoverStep
<1>9. CASE ClearCover(r)
  BY <1>9, ClearCoverStep
<1>10. CASE CreatePost(r)
  BY <1>10, CreatePostStep
<1>11. CASE DeleteImages(r)
  BY <1>11, DeleteImagesStep
<1>12. CASE DeleteLikes(r)
  BY <1>12, DeleteLikesStep
<1>13. CASE DeleteComments(r)
  BY <1>13, DeleteCommentsStep
<1>14. CASE DeletePost(r)
  BY <1>14, DeletePostStep
<1>15. CASE FindLike(r)
  BY <1>15, FindLikeStep
<1>16. CASE CreateLike(r)
  BY <1>16, CreateLikeStep
<1>17. CASE DeleteLike(r)
  BY <1>17, DeleteLikeStep
<1>18. CASE CreateComment(r)
  BY <1>18, CreateCommentStep
<1>19. CASE DeleteComment(r)
  BY <1>19, DeleteCommentStep
<1>. QED BY <1>1, <1>2, <1>3, <1>4, <1>5, <1>6, <1>7, <1>8, <1>9, <1>10,
         <1>11, <1>12, <1>13, <1>14, <1>15, <1>16, <1>17, <1>18, <1>19 DEF Serve

(* New rows keep the sequences ahead of the keys.                          *)
LEMMA KeysStay ==
    ASSUME NEW old, NEW last \in Nat, NEW new, NEW newLast, Keys(old, last),
           NewRows(old, last, new, newLast),
           \A x \in new : x.id \in Nat \ {0},
           \A x, y \in new : x \notin old /\ y \notin old => x = y
    PROVE  Keys(new, newLast)
BY DEF Keys, NewRows

(* A statement writes one row at most.                                     *)
OneRow(old, new) == \A x, y \in new : x \notin old /\ y \notin old => x = y

LEMMA ServeOneRow ==
    ASSUME SocialInv, NEW r \in Request, Serve(r)
    PROVE  OneRow(posts, posts') /\ OneRow(likes, likes') /\ OneRow(comments, comments')
<1>1. CASE CreatePost(r)
  BY <1>1 DEF CreatePost, OneRow, likeTable, commentTable
<1>2. CASE CreateLike(r)
  BY <1>2 DEF CreateLike, OneRow, postTables, likeTable, commentTable
<1>3. CASE CreateComment(r)
  BY <1>3 DEF CreateComment, OneRow, postTables, likeTable, commentTable
<1>4. CASE /\ posts' \subseteq posts /\ likes' \subseteq likes
           /\ comments' \subseteq comments
  BY <1>4 DEF OneRow
<1>5. CASE \/ StatementFails(r) \/ FindFollowee(r) \/ FindAccount(r) \/ FindFollow(r)
           \/ FindCover(r) \/ FindOwnPost(r) \/ FindPost(r) \/ FindOwnComment(r)
           \/ Receive(r)
  BY <1>4, <1>5, ReadStep, ReceiveStep
     DEF SocialInv, db, postTables, likeTable, commentTable
<1>6. CASE FindLogin(r)
  BY <1>4, <1>6 DEF FindLogin, db, postTables, likeTable, commentTable
<1>7. CASE CreateLogin(r)
  BY <1>4, <1>7 DEF CreateLogin, db, postTables, likeTable, commentTable
<1>8. CASE CreateAccount(r)
  BY <1>4, <1>8 DEF CreateAccount, db, postTables, likeTable, commentTable
<1>9. CASE CreateFollow(r)
  BY <1>4, <1>9 DEF CreateFollow, db, postTables, likeTable, commentTable
<1>10. CASE DeleteFollow(r)
  BY <1>4, <1>10 DEF DeleteFollow, db, postTables, likeTable, commentTable
<1>11. CASE SetCover(r)
  BY <1>4, <1>11 DEF SetCover, db, postTables, likeTable, commentTable
<1>12. CASE ClearCover(r)
  BY <1>4, <1>12 DEF ClearCover, db, postTables, likeTable, commentTable
<1>13. CASE DeleteImages(r)
  BY <1>4, <1>13 DEF DeleteImages, db, postTables, likeTable, commentTable
<1>14. CASE DeleteLikes(r)
  BY <1>4, <1>14 DEF DeleteLikes, db, postTables, likeTable, commentTable
<1>15. CASE DeleteComments(r)
  BY <1>4, <1>15 DEF DeleteComments, db, postTables, likeTable, commentTable
<1>16. CASE DeletePost(r)
  BY <1>4, <1>16 DEF DeletePost, db, postTables, likeTable, commentTable
<1>17. CASE FindLike(r)
  BY <1>4, <1>17 DEF FindLike, db, postTables, likeTable, commentTable
<1>18. CASE DeleteLike(r)
  BY <1>4, <1>18 DEF DeleteLike, db, postTables, likeTable, commentTable
<1>19. CASE DeleteComment(r)
  BY <1>4, <1>19 DEF DeleteComment, db, postTables, likeTable, commentTable
<1>. QED BY <1>1, <1>2, <1>3, <1>4, <1>5, <1>6, <1>7, <1>8, <1>9, <1>10,
         <1>11, <1>12, <1>13, <1>14, <1>15, <1>16, <1>17, <1>18, <1>19 DEF Serve

LEMMA KeysStep ==
    ASSUME SocialInv, NEW r \in Request, Serve(r)
    PROVE  KeysInv'
<1>1. TablesType /\ TablesType' /\ TablesMove /\ KeysInv
  BY ServeStep, TypeIs DEF SocialInv
<1>2. lastPost \in Nat /\ lastLike \in Nat /\ lastComment \in Nat
  BY <1>1, BoundsAssumption DEF TablesType
<1>3. \A x \in posts' \cup likes' \cup comments' : x.id \in Nat \ {0}
  BY <1>1, BoundsAssumption DEF TablesType, Row, PostId
<1>4. Keys(posts', lastPost')
  BY <1>1, <1>2, <1>3, ServeOneRow, KeysStay DEF TablesMove, OneRow, KeysInv
<1>5. Keys(likes', lastLike')
  BY <1>1, <1>2, <1>3, ServeOneRow, KeysStay DEF TablesMove, OneRow, KeysInv
<1>6. Keys(comments', lastComment')
  BY <1>1, <1>2, <1>3, ServeOneRow, KeysStay DEF TablesMove, OneRow, KeysInv
<1>. QED BY <1>4, <1>5, <1>6 DEF KeysInv, Keys

(* What a waiting request relies on is not disturbed by the others.        *)
LEMMA SoundOthers ==
    ASSUME SocialInv, NEW r \in Request, Serve(r), NEW q \in Request \ {r}
    PROVE  Sound(q)'
<1>1. /\ pc'[q] = pc[q] /\ req'[q] = req[q] /\ found'[q] = found[q]
  BY ServeStep DEF Frame
<1>2. Carries(q) /\ MayDelete(q) /\ TypeOK /\ TablesMove
  BY ServeStep DEF SocialInv, Sound
<1>3. lastPost \in Nat /\ lastLike \in Nat /\ lastComment \in Nat
  BY <1>2, BoundsAssumption DEF TypeOK
<1>4. /\ lastPost' \in Nat /\ lastPost <= lastPost'
      /\ lastLike' \in Nat /\ lastLike <= lastLike'
      /\ lastComment' \in Nat /\ lastComment <= lastComment'
  BY <1>2 DEF TablesMove, NewRows
<1>5. pc[q] # "idle" => by(q) \in Wallet
  BY CarriesType
<1>6. \A w \in Wallet : HasAccount(w) => HasAccount(w)'
  BY <1>2 DEF TablesMove, HasAccount
<1>7. Carries(q)'
  BY <1>1, <1>2, <1>3, <1>4, <1>5, <1>6
     DEF Carries, by, on, op, WalletSteps, PostSteps, Deleting
<1>8. MayDelete(q)'
  <2>1. pc[q] \in Deleting => on(q) \in 1..lastPost
    BY <1>2 DEF Carries, PostSteps
  <2>2. \A x \in posts' : x \in posts \/ lastPost < x.id
    BY <1>2 DEF TablesMove, NewRows
  <2>3. \A x \in likes' : x \in likes \/ lastLike < x.id
    BY <1>2 DEF TablesMove, NewRows
  <2>4. \A x \in comments' : x \in comments \/ lastComment < x.id
    BY <1>2 DEF TablesMove, NewRows
  <2>5. CASE pc[q] \in Deleting
    BY <1>1, <1>2, <1>3, <2>1, <2>2, <2>5 DEF MayDelete, by, on, op, Deleting
  <2>6. CASE pc[q] = "deleteLike"
    BY <1>1, <1>2, <1>3, <1>4, <2>3, <2>6 DEF MayDelete, by, on, op, Deleting
  <2>7. CASE pc[q] = "deleteComment"
    BY <1>1, <1>2, <1>3, <1>4, <2>4, <2>7 DEF MayDelete, by, on, op, Deleting
  <2>. QED BY <1>1, <2>5, <2>6, <2>7 DEF MayDelete
<1>. QED BY <1>7, <1>8 DEF Sound

LEMMA SoundIdle ==
    ASSUME NEW r \in Request, pc'[r] = "idle"
    PROVE  Sound(r)'
BY DEF Sound, Carries, MayDelete, WalletSteps, PostSteps, Deleting

LEMMA FindLoginSound ==
    ASSUME SocialInv, NEW r \in Request, FindLogin(r)
    PROVE  Sound(r)'
<1>1. TypeOK /\ KeysInv /\ Carries(r) /\ MayDelete(r)
  BY DEF SocialInv, Sound
<1>2. \/ pc'[r] = "idle"
      \/ pc'[r] = "createLogin" /\ req'[r] = req[r] /\ found'[r] = found[r] /\ pc[r] # "idle"
  BY <1>1, GotoRequest, StepIs DEF FindLogin, At, Ends
<1>. QED BY <1>1, <1>2, SoundIdle
       DEF Sound, Carries, MayDelete, by, on, op, WalletSteps, PostSteps, Deleting

LEMMA FindFolloweeSound ==
    ASSUME SocialInv, NEW r \in Request, FindFollowee(r)
    PROVE  Sound(r)'
<1>1. TypeOK /\ KeysInv /\ Carries(r) /\ MayDelete(r)
  BY DEF SocialInv, Sound
<1>2. pc[r] = "findFollowee" /\ UNCHANGED hash
  BY DEF FindFollowee, Reads, At, db, account
<1>3. \/ pc'[r] = "idle"
      \/ /\ req'[r] = req[r]
         /\ \/ pc'[r] = "findAccount" /\ ~HasAccount(on(r))
            \/ pc'[r] = "createFollow" /\ HasAccount(on(r)) /\ on(r) # by(r)
  BY <1>1, GotoRequest, StepIs DEF FindFollowee, Reads
<1>. QED BY <1>1, <1>2, <1>3, SoundIdle
       DEF Sound, Carries, MayDelete, by, on, op, WalletSteps, PostSteps, Deleting,
           HasAccount

LEMMA FindAccountSound ==
    ASSUME SocialInv, NEW r \in Request, FindAccount(r)
    PROVE  Sound(r)'
<1>1. TypeOK /\ KeysInv /\ Carries(r) /\ MayDelete(r)
  BY DEF SocialInv, Sound
<1>2. pc[r] = "findAccount" /\ UNCHANGED hash
  BY DEF FindAccount, Reads, At, db, account
<1>3. /\ req'[r] = req[r]
      /\ \/ pc'[r] = "createAccount"
         \/ pc'[r] = "createFollow" /\ HasAccount(on(r))
  BY <1>1, GotoRequest, StepIs DEF FindAccount, Reads
<1>. QED BY <1>1, <1>2, <1>3
       DEF Sound, Carries, MayDelete, by, on, op, WalletSteps, PostSteps, Deleting,
           HasAccount

LEMMA CreateAccountSound ==
    ASSUME SocialInv, NEW r \in Request, CreateAccount(r)
    PROVE  Sound(r)'
<1>1. TypeOK /\ KeysInv /\ Carries(r) /\ MayDelete(r)
  BY DEF SocialInv, Sound
<1>2. pc[r] = "createAccount" /\ by(r) \in Wallet /\ on(r) \in Wallet
  BY CarriesType DEF CreateAccount, At, WalletSteps
<1>3. \/ pc'[r] = "idle"
      \/ /\ pc'[r] = "createFollow" /\ req'[r] = req[r]
         /\ \E salt \in Salt : hash' = [hash EXCEPT ![on(r)] = HashOf(on(r), salt)]
  BY <1>1, GotoRequest, StepIs DEF CreateAccount, Ends
<1>4. CASE pc'[r] # "idle"
  <2>1. PICK salt \in Salt : hash' = [hash EXCEPT ![on(r)] = HashOf(on(r), salt)]
    BY <1>3, <1>4
  <2>2. HashOf(on(r), salt) # None
    BY <1>2, NoneAssumption DEF HashOf, Hash
  <2>3. hash'[on(r)] # None /\ hash'[by(r)] # None
    BY <1>1, <1>2, <2>1, <2>2 DEF TypeOK, Carries, WalletSteps, HasAccount
  <2>. QED BY <1>1, <1>2, <1>3, <1>4, <2>3
         DEF Sound, Carries, MayDelete, by, on, op, WalletSteps, PostSteps, Deleting,
             HasAccount
<1>. QED BY <1>4, SoundIdle

LEMMA FindFollowSound ==
    ASSUME SocialInv, NEW r \in Request, FindFollow(r)
    PROVE  Sound(r)'
<1>1. TypeOK /\ KeysInv /\ Carries(r) /\ MayDelete(r)
  BY DEF SocialInv, Sound
<1>2. pc[r] = "findFollow" /\ UNCHANGED hash
  BY DEF FindFollow, Reads, At, db, account
<1>3. pc'[r] = "idle" \/ (pc'[r] = "deleteFollow" /\ req'[r] = req[r])
  <2>1. Goto(r, "idle") \/ Goto(r, "deleteFollow")
    <3>1. CASE on(r) # by(r) /\ Pair(r) \in follows
      BY <3>1, Zenon DEF FindFollow, Reads
    <3>2. CASE on(r) = by(r)
      BY <3>2, Zenon DEF FindFollow, Reads
    <3>3. CASE on(r) # by(r) /\ Pair(r) \notin follows
      BY <3>3, Zenon DEF FindFollow, Reads
    <3>. QED BY <3>1, <3>2, <3>3
  <2>. QED BY <1>1, <2>1, GotoRequest, StepIs
<1>. QED BY <1>1, <1>2, <1>3, SoundIdle
       DEF Sound, Carries, MayDelete, by, on, op, WalletSteps, PostSteps, Deleting,
           HasAccount

LEMMA FindCoverSound ==
    ASSUME SocialInv, NEW r \in Request, FindCover(r)
    PROVE  Sound(r)'
<1>1. TypeOK /\ KeysInv /\ Carries(r) /\ MayDelete(r)
  BY DEF SocialInv, Sound
<1>2. pc[r] = "findCover"
  BY DEF FindCover, Reads, At
<1>3. pc'[r] = "idle" \/ (pc'[r] = "clearCover" /\ req'[r] = req[r])
  <2>1. Goto(r, "idle") \/ Goto(r, "clearCover")
    <3>1. CASE by(r) \in covers
      BY <3>1, Zenon DEF FindCover, Reads
    <3>2. CASE by(r) \notin covers
      BY <3>2, Zenon DEF FindCover, Reads
    <3>. QED BY <3>1, <3>2
  <2>. QED BY <1>1, <2>1, GotoRequest, StepIs
<1>. QED BY <1>1, <1>2, <1>3, SoundIdle
       DEF Sound, Carries, MayDelete, WalletSteps, PostSteps, Deleting

LEMMA FindOwnPostSound ==
    ASSUME SocialInv, NEW r \in Request, FindOwnPost(r)
    PROVE  Sound(r)'
<1>1. TypeOK /\ KeysInv /\ Carries(r) /\ MayDelete(r)
  BY DEF SocialInv, Sound
<1>2. pc[r] = "findOwnPost" /\ UNCHANGED <<posts, lastPost>>
  BY DEF FindOwnPost, Reads, At, db, postTables
<1>3. \/ Goto(r, "idle")
      \/ Goto(r, "deleteImages") /\ [id |-> on(r), by |-> by(r)] \in posts
  <2>1. CASE [id |-> on(r), by |-> by(r)] \in posts
    BY <2>1, Zenon DEF FindOwnPost, Reads
  <2>2. CASE [id |-> on(r), by |-> by(r)] \notin posts
    BY <2>2, Zenon DEF FindOwnPost, Reads
  <2>. QED BY <2>1, <2>2
<1>4. CASE Goto(r, "idle")
  BY <1>1, <1>4, GotoRequest, StepIs, SoundIdle
<1>5. CASE Goto(r, "deleteImages") /\ [id |-> on(r), by |-> by(r)] \in posts
  <2>1. pc'[r] = "deleteImages" /\ req'[r] = req[r]
    BY <1>1, <1>5, GotoRequest, StepIs
  <2>2. \A x \in posts : x.id = on(r) => x.by = by(r)
    BY <1>1, <1>5 DEF KeysInv, Keys
  <2>. QED BY <1>1, <1>2, <2>1, <2>2
         DEF Sound, Carries, MayDelete, by, on, op, WalletSteps, PostSteps, Deleting
<1>. QED BY <1>3, <1>4, <1>5

LEMMA DeleteImagesSound ==
    ASSUME SocialInv, NEW r \in Request, DeleteImages(r)
    PROVE  Sound(r)'
<1>1. TypeOK /\ KeysInv /\ Carries(r) /\ MayDelete(r)
  BY DEF SocialInv, Sound
<1>2. pc[r] = "deleteImages" /\ UNCHANGED <<posts, lastPost>>
  BY DEF DeleteImages, At, postTables
<1>3. pc'[r] = "deleteLikes" /\ req'[r] = req[r]
  BY <1>1, GotoRequest, StepIs DEF DeleteImages
<1>. QED BY <1>1, <1>2, <1>3
       DEF Sound, Carries, MayDelete, by, on, op, WalletSteps, PostSteps, Deleting

LEMMA DeleteLikesSound ==
    ASSUME SocialInv, NEW r \in Request, DeleteLikes(r)
    PROVE  Sound(r)'
<1>1. TypeOK /\ KeysInv /\ Carries(r) /\ MayDelete(r)
  BY DEF SocialInv, Sound
<1>2. pc[r] = "deleteLikes" /\ UNCHANGED <<posts, lastPost>>
  BY DEF DeleteLikes, At, postTables
<1>3. pc'[r] = "deleteComments" /\ req'[r] = req[r]
  BY <1>1, GotoRequest, StepIs DEF DeleteLikes
<1>. QED BY <1>1, <1>2, <1>3
       DEF Sound, Carries, MayDelete, by, on, op, WalletSteps, PostSteps, Deleting

LEMMA DeleteCommentsSound ==
    ASSUME SocialInv, NEW r \in Request, DeleteComments(r)
    PROVE  Sound(r)'
<1>1. TypeOK /\ KeysInv /\ Carries(r) /\ MayDelete(r)
  BY DEF SocialInv, Sound
<1>2. pc[r] = "deleteComments" /\ UNCHANGED <<posts, lastPost>>
  BY DEF DeleteComments, At, postTables
<1>3. pc'[r] = "deletePost" /\ req'[r] = req[r]
  BY <1>1, GotoRequest, StepIs DEF DeleteComments
<1>. QED BY <1>1, <1>2, <1>3
       DEF Sound, Carries, MayDelete, by, on, op, WalletSteps, PostSteps, Deleting

LEMMA FindPostSound ==
    ASSUME SocialInv, NEW r \in Request, FindPost(r)
    PROVE  Sound(r)'
<1>1. TypeOK /\ KeysInv /\ Carries(r) /\ MayDelete(r)
  BY DEF SocialInv, Sound
<1>2. pc[r] = "findPost" /\ UNCHANGED lastPost
  BY DEF FindPost, Reads, At, db, postTables
<1>3. Goto(r, "idle") \/ Goto(r, "createComment") \/ Goto(r, "findLike")
  <2>1. CASE ~HasPost(on(r))
    BY <2>1, Zenon DEF FindPost, Reads
  <2>2. CASE HasPost(on(r)) /\ op(r) = "createComment"
    BY <2>2, Zenon DEF FindPost, Reads
  <2>3. CASE HasPost(on(r)) /\ op(r) # "createComment"
    BY <2>3, Zenon DEF FindPost, Reads
  <2>. QED BY <2>1, <2>2, <2>3
<1>4. CASE Goto(r, "idle")
  BY <1>1, <1>4, GotoRequest, StepIs, SoundIdle
<1>5. CASE Goto(r, "createComment")
  <2>1. pc'[r] = "createComment" /\ req'[r] = req[r]
    BY <1>1, <1>5, GotoRequest, StepIs
  <2>. QED BY <1>1, <1>2, <2>1
         DEF Sound, Carries, MayDelete, by, on, op, WalletSteps, PostSteps, Deleting
<1>6. CASE Goto(r, "findLike")
  <2>1. pc'[r] = "findLike" /\ req'[r] = req[r]
    BY <1>1, <1>6, GotoRequest, StepIs
  <2>. QED BY <1>1, <1>2, <2>1
         DEF Sound, Carries, MayDelete, by, on, op, WalletSteps, PostSteps, Deleting
<1>. QED BY <1>3, <1>4, <1>5, <1>6

LEMMA FindLikeSound ==
    ASSUME SocialInv, NEW r \in Request, FindLike(r)
    PROVE  Sound(r)'
<1>1. TypeOK /\ KeysInv /\ Carries(r) /\ MayDelete(r)
  BY DEF SocialInv, Sound
<1>2. pc[r] = "findLike" /\ UNCHANGED <<lastPost, likes, lastLike>>
  BY DEF FindLike, At, db, postTables, likeTable
<1>3. CASE Goto(r, "idle")
  BY <1>1, <1>3, GotoRequest, StepIs, SoundIdle
<1>4. CASE Goto(r, "createLike")
  <2>1. pc'[r] = "createLike" /\ req'[r] = req[r]
    BY <1>1, <1>4, GotoRequest, StepIs
  <2>. QED BY <1>1, <1>2, <2>1
         DEF Sound, Carries, MayDelete, by, on, op, WalletSteps, PostSteps, Deleting
<1>5. CASE /\ op(r) = "unlikePost"
           /\ \E x \in LikesOf(by(r), on(r)) : found' = [found EXCEPT ![r] = x.id]
           /\ pc' = [pc EXCEPT ![r] = "deleteLike"]
           /\ UNCHANGED req
  <2>1. PICK x \in LikesOf(by(r), on(r)) : found' = [found EXCEPT ![r] = x.id]
    BY <1>5
  <2>2. pc'[r] = "deleteLike" /\ found'[r] = x.id /\ req' = req
    BY <1>1, <1>5, <2>1 DEF TypeOK
  <2>3. x \in likes /\ x.by = by(r)
    BY <2>1 DEF LikesOf
  <2>4. /\ x.id \in 1..lastLike
        /\ \A y \in likes : y.id = x.id => y.by = by(r)
    BY <1>1, <2>3 DEF KeysInv, Keys
  <2>. QED BY <1>1, <1>2, <1>5, <2>2, <2>4
         DEF Sound, Carries, MayDelete, by, on, op, WalletSteps, PostSteps, Deleting
<1>. QED BY <1>3, <1>4, <1>5 DEF FindLike, Ends

LEMMA FindOwnCommentSound ==
    ASSUME SocialInv, NEW r \in Request, FindOwnComment(r)
    PROVE  Sound(r)'
<1>1. TypeOK /\ KeysInv /\ Carries(r) /\ MayDelete(r)
  BY DEF SocialInv, Sound
<1>2. pc[r] = "findOwnComment" /\ UNCHANGED <<comments, lastComment>>
  BY DEF FindOwnComment, Reads, At, db, commentTable
<1>3. \/ Goto(r, "idle")
      \/ /\ Goto(r, "deleteComment")
         /\ \E x \in comments : x.id = on(r) /\ x.by = by(r)
  BY DEF FindOwnComment, Reads
<1>4. \/ pc'[r] = "idle"
      \/ /\ pc'[r] = "deleteComment" /\ req'[r] = req[r]
         /\ \E x \in comments : x.id = on(r) /\ x.by = by(r)
  BY <1>1, <1>3, GotoRequest, StepIs
<1>5. \A x, y \in comments : x.id = y.id => x = y
  BY <1>1 DEF KeysInv, Keys
<1>. QED BY <1>1, <1>2, <1>4, <1>5, SoundIdle
       DEF Sound, Carries, MayDelete, by, on, op, WalletSteps, PostSteps, Deleting

(* A request arrives with what its first statement needs.                  *)
LEMMA ReceiveSound ==
    ASSUME SocialInv, NEW r \in Request, Receive(r)
    PROVE  Sound(r)'
<1>1. TypeOK
  BY DEF SocialInv
<1>2. PICK o \in use.ops, w \in Wallet : \E t \in TargetsOf(o) :
          /\ o # "login" => Authorized(w)
          /\ req' = [req EXCEPT ![r] = [op |-> o, by |-> w, on |-> t]]
          /\ pc' = [pc EXCEPT ![r] = First[o]]
  BY DEF Receive
<1>3. PICK t \in TargetsOf(o) :
          /\ o # "login" => Authorized(w)
          /\ req' = [req EXCEPT ![r] = [op |-> o, by |-> w, on |-> t]]
          /\ pc' = [pc EXCEPT ![r] = First[o]]
  BY <1>2
<1>4. o \in Op
  BY <1>1, UsesAssumption DEF TypeOK
<1>5. /\ pc'[r] = First[o]
      /\ op(r)' = o /\ by(r)' = w /\ on(r)' = t
      /\ UNCHANGED <<hash, lastPost, lastComment>>
  BY <1>1, <1>3 DEF TypeOK, op, by, on, Receive, db, account, postTables, commentTable
<1>6. o # "login" => HasAccount(w)'
  BY <1>3, <1>5 DEF Authorized, HasAccount
<1>7. pc'[r] # "idle" => req'[r] \in [op : Op, by : Wallet, on : Target]
  BY <1>1, ReceiveStep, <1>3, <1>4, BoundsAssumption, OpIs
     DEF TargetsOf, Target, TypeOK, PostId
<1>8. CASE o \in {"followUser", "unfollowUser", "removeFollower"}
  <2>1. t \in Wallet /\ pc'[r] \in {"findFollowee", "findFollow"}
    BY <1>3, <1>5, <1>8 DEF TargetsOf, First
  <2>. QED BY <1>5, <1>6, <1>7, <1>8, <2>1
         DEF Sound, Carries, MayDelete, WalletSteps, PostSteps, Deleting
<1>9. CASE o \in {"deletePost", "likePost", "unlikePost", "createComment"}
  <2>1. /\ t \in 1..lastPost /\ pc'[r] \in {"findOwnPost", "findPost"}
        /\ pc'[r] = "findOwnPost" => o = "deletePost"
    BY <1>3, <1>5, <1>9 DEF TargetsOf, First
  <2>. QED BY <1>5, <1>7, <2>1
         DEF Sound, Carries, MayDelete, WalletSteps, PostSteps, Deleting
<1>10. CASE o = "deleteComment"
  <2>1. t \in 1..lastComment /\ pc'[r] = "findOwnComment"
    BY <1>3, <1>5, <1>10 DEF TargetsOf, First
  <2>. QED BY <1>5, <1>7, <1>10, <2>1
         DEF Sound, Carries, MayDelete, WalletSteps, PostSteps, Deleting
<1>11. CASE o \in {"login", "uploadCoverPhoto", "removeCoverPhoto",
                   "createPostWithImages", "createPostWithoutImage"}
  <2>1. pc'[r] \in {"findLogin", "setCover", "findCover", "createPost"}
    BY <1>5, <1>11 DEF First
  <2>. QED BY <1>7, <2>1
         DEF Sound, Carries, MayDelete, WalletSteps, PostSteps, Deleting
<1>. QED BY <1>4, <1>8, <1>9, <1>10, <1>11, OpIs

(* The statements after which a request is over.                           *)
LEMMA LastSound ==
    ASSUME SocialInv, NEW r \in Request,
           \/ StatementFails(r) \/ CreateLogin(r) \/ CreateFollow(r) \/ DeleteFollow(r)
           \/ SetCover(r) \/ ClearCover(r) \/ CreatePost(r) \/ DeletePost(r)
           \/ CreateLike(r) \/ DeleteLike(r) \/ CreateComment(r) \/ DeleteComment(r)
    PROVE  Sound(r)'
<1>1. Goto(r, "idle")
  BY DEF StatementFails, Reads, Ends, CreateLogin, CreateFollow, DeleteFollow, SetCover,
         ClearCover, CreatePost, DeletePost, CreateLike, DeleteLike, CreateComment,
         DeleteComment
<1>. QED BY <1>1, GotoRequest, StepIs, SoundIdle DEF SocialInv

LEMMA SoundStep ==
    ASSUME SocialInv, NEW r \in Request, Serve(r)
    PROVE  \A q \in Request : Sound(q)'
<1>1. CASE \/ StatementFails(r) \/ CreateLogin(r) \/ CreateFollow(r) \/ DeleteFollow(r)
           \/ SetCover(r) \/ ClearCover(r) \/ CreatePost(r) \/ DeletePost(r)
           \/ CreateLike(r) \/ DeleteLike(r) \/ CreateComment(r) \/ DeleteComment(r)
  BY <1>1, LastSound, SoundOthers
<1>2. CASE \/ Receive(r) \/ FindLogin(r) \/ FindFollowee(r) \/ FindAccount(r)
           \/ CreateAccount(r) \/ FindFollow(r) \/ FindCover(r)
  BY <1>2, ReceiveSound, FindLoginSound, FindFolloweeSound, FindAccountSound,
     CreateAccountSound, FindFollowSound, FindCoverSound, SoundOthers
<1>3. CASE \/ FindOwnPost(r) \/ DeleteImages(r) \/ DeleteLikes(r) \/ DeleteComments(r)
           \/ FindPost(r) \/ FindLike(r) \/ FindOwnComment(r)
  BY <1>3, FindOwnPostSound, DeleteImagesSound, DeleteLikesSound, DeleteCommentsSound,
     FindPostSound, FindLikeSound, FindOwnCommentSound, SoundOthers
<1>. QED BY <1>1, <1>2, <1>3 DEF Serve
-------------------------------------------------------------------------------
LEMMA SocialInit == Init => SocialInv
<1> SUFFICES ASSUME Init
             PROVE  SocialInv
  OBVIOUS
<1>1. TypeOK
  BY BoundsAssumption, StepIs DEF Init, TypeOK
<1>2. KeysInv
  BY DEF Init, KeysInv, Keys
<1>3. \A r \in Request : Sound(r)
  BY DEF Init, Sound, Carries, MayDelete, WalletSteps, PostSteps, Deleting
<1>. QED BY <1>1, <1>2, <1>3 DEF SocialInv

LEMMA SocialStep == SocialInv /\ [Next]_vars => SocialInv'
<1> SUFFICES ASSUME SocialInv, [Next]_vars
             PROVE  SocialInv'
  OBVIOUS
<1>1. ASSUME NEW r \in Request, Serve(r), use' = use
      PROVE  SocialInv'
  <2>1. TypeOK'
    BY <1>1, ServeStep, TypeStays DEF SocialInv
  <2>2. KeysInv' /\ \A q \in Request : Sound(q)'
    BY <1>1, KeysStep, SoundStep
  <2>. QED BY <2>1, <2>2 DEF SocialInv
<1>2. CASE UNCHANGED vars
  <2>1. UNCHANGED <<hash, tokens, follows, covers, posts, images, lastPost, likes,
                    lastLike, comments, lastComment, pc, req, found, use>>
    BY <1>2 DEF vars, db, request, account, postTables, likeTable, commentTable
  <2>2. TypeOK'
    BY <2>1 DEF SocialInv, TypeOK
  <2>3. KeysInv'
    BY <2>1 DEF SocialInv, KeysInv
  <2>4. \A r \in Request : Sound(r)'
    BY <2>1 DEF SocialInv, Sound, Carries, MayDelete, by, on, op, HasAccount
  <2>. QED BY <2>2, <2>3, <2>4 DEF SocialInv
<1>. QED BY <1>1, <1>2 DEF Next

(* The tables and the requests keep their types; the number of every row is
   its own, and no request waits for a statement it may not issue.         *)
THEOREM SocialInvariant == Spec => []SocialInv
BY SocialInit, SocialStep, PTL DEF Spec

(* The tables of accounts, follows, posts, likes and comments, and what the
   handlers carry from one awaited statement to the next, keep their types. *)
THEOREM TypeCorrect == Spec => []TypeOK
BY SocialInvariant, PTL DEF SocialInv
-------------------------------------------------------------------------------
(* Which statements write a table.                                         *)
LEMMA Writers ==
    ASSUME SocialInv, NEW r \in Request, Serve(r)
    PROVE  /\ FindLogin(r) \/ CreateLogin(r) \/ CreateAccount(r) \/ UNCHANGED account
           /\ CreateFollow(r) \/ DeleteFollow(r) \/ UNCHANGED follows
           /\ CreatePost(r) \/ DeleteImages(r) \/ DeletePost(r) \/ UNCHANGED <<posts, images>>
           /\ CreateLike(r) \/ DeleteLike(r) \/ DeleteLikes(r) \/ UNCHANGED likes
           /\ CreateComment(r) \/ DeleteComment(r) \/ DeleteComments(r) \/ UNCHANGED comments
<1>1. CASE \/ Receive(r) \/ StatementFails(r) \/ FindFollowee(r) \/ FindAccount(r)
           \/ FindFollow(r) \/ FindCover(r) \/ FindOwnPost(r) \/ FindPost(r)
           \/ FindOwnComment(r)
  BY <1>1, ReadStep, ReceiveStep
     DEF SocialInv, db, postTables, likeTable, commentTable
<1>2. CASE FindLogin(r)
  BY <1>2 DEF FindLogin, db, account, postTables, likeTable, commentTable
<1>3. CASE CreateLogin(r)
  BY <1>3 DEF CreateLogin, db, account, postTables, likeTable, commentTable
<1>4. CASE CreateAccount(r)
  BY <1>4 DEF CreateAccount, db, account, postTables, likeTable, commentTable
<1>5. CASE CreateFollow(r)
  BY <1>5 DEF CreateFollow, db, account, postTables, likeTable, commentTable
<1>6. CASE DeleteFollow(r)
  BY <1>6 DEF DeleteFollow, db, account, postTables, likeTable, commentTable
<1>7. CASE SetCover(r)
  BY <1>7 DEF SetCover, db, account, postTables, likeTable, commentTable
<1>8. CASE ClearCover(r)
  BY <1>8 DEF ClearCover, db, account, postTables, likeTable, commentTable
<1>9. CASE CreatePost(r)
  BY <1>9 DEF CreatePost, db, account, postTables, likeTable, commentTable
<1>10. CASE DeleteImages(r)
  BY <1>10 DEF DeleteImages, db, account, postTables, likeTable, commentTable
<1>11. CASE DeleteLikes(r)
  BY <1>11 DEF DeleteLikes, db, account, postTables, likeTable, commentTable
<1>12. CASE DeleteComments(r)
  BY <1>12 DEF DeleteComments, db, account, postTables, likeTable, commentTable
<1>13. CASE DeletePost(r)
  BY <1>13 DEF DeletePost, db, account, postTables, likeTable, commentTable
<1>14. CASE FindLike(r)
  BY <1>14 DEF FindLike, db, account, postTables, likeTable, commentTable
<1>15. CASE CreateLike(r)
  BY <1>15 DEF CreateLike, db, account, postTables, likeTable, commentTable
<1>16. CASE DeleteLike(r)
  BY <1>16 DEF DeleteLike, db, account, postTables, likeTable, commentTable
<1>17. CASE CreateComment(r)
  BY <1>17 DEF CreateComment, db, account, postTables, likeTable, commentTable
<1>18. CASE DeleteComment(r)
  BY <1>18 DEF DeleteComment, db, account, postTables, likeTable, commentTable
<1>. QED BY <1>1, <1>2, <1>3, <1>4, <1>5, <1>6, <1>7, <1>8, <1>9, <1>10,
         <1>11, <1>12, <1>13, <1>14, <1>15, <1>16, <1>17, <1>18 DEF Serve

LEMMA Stutter ==
    ASSUME UNCHANGED vars
    PROVE  /\ UNCHANGED <<hash, tokens, follows, posts, images, likes, comments>>
           /\ UNCHANGED <<pc, req, found>>
BY DEF vars, db, request, account, postTables, likeTable, commentTable

(* A step is a statement of one request, or changes nothing.               *)
LEMMA StepOf ==
    ASSUME [Next]_vars
    PROVE  (\E r \in Request : Serve(r)) \/ UNCHANGED vars
BY DEF Next
-------------------------------------------------------------------------------
LEMMA TokensStep ==
    ASSUME SocialInv, TokensOpenAccounts, [Next]_vars
    PROVE  TokensOpenAccounts'
<1>1. TypeOK
  BY DEF SocialInv
<1>2. ASSUME NEW r \in Request, Serve(r)
      PROVE  TokensOpenAccounts'
  <2>1. \A h \in tokens : \E w \in Wallet : hash'[w] = h
    <3>1. TablesMove
      BY <1>2, ServeStep
    <3>2. SUFFICES ASSUME NEW h \in tokens
                   PROVE  \E w \in Wallet : hash'[w] = h
      OBVIOUS
    <3>3. PICK w \in Wallet : hash[w] = h
      BY DEF TokensOpenAccounts
    <3>4. HasAccount(w)
      BY <1>1, <3>3, NoneAssumption DEF TypeOK, HasAccount
    <3>. QED BY <3>1, <3>3, <3>4 DEF TablesMove
  <2>2. CASE FindLogin(r)
    <3>1. by(r) \in Wallet
      BY <2>2, CarriesType DEF FindLogin, At
    <3>2. UNCHANGED hash /\ (tokens' = tokens \/ tokens' = tokens \cup {hash[by(r)]})
      BY <2>2 DEF FindLogin, SignToken
    <3>. QED BY <2>1, <3>1, <3>2 DEF TokensOpenAccounts
  <2>3. CASE CreateLogin(r)
    <3>1. by(r) \in Wallet
      BY <2>3, CarriesType DEF CreateLogin, At
    <3>2. CASE HasAccount(by(r))
      BY <2>1, <2>3, <3>2 DEF CreateLogin, TokensOpenAccounts, account
    <3>3. CASE ~HasAccount(by(r))
      <4>1. PICK salt \in Salt : /\ hash' = [hash EXCEPT ![by(r)] = HashOf(by(r), salt)]
                                 /\ tokens' = tokens \cup {HashOf(by(r), salt)}
        BY <2>3, <3>3 DEF CreateLogin, SignToken
      <4>2. hash'[by(r)] = HashOf(by(r), salt)
        BY <1>1, <3>1, <4>1 DEF TypeOK
      <4>. QED BY <2>1, <3>1, <4>1, <4>2 DEF TokensOpenAccounts
    <3>. QED BY <3>2, <3>3
  <2>4. CASE CreateAccount(r)
    BY <2>1, <2>4 DEF CreateAccount, TokensOpenAccounts
  <2>5. CASE UNCHANGED account
    BY <2>1, <2>5 DEF account, TokensOpenAccounts
  <2>. QED BY <1>2, <2>2, <2>3, <2>4, <2>5, Writers
<1>. QED BY <1>2, StepOf, Stutter DEF TokensOpenAccounts

(* Every token that was ever signed opens an account, however many first
   logins of a wallet run at once and whatever hashes they computed.       *)
THEOREM TokensAlwaysOpen == Spec => []TokensOpenAccounts
<1>1. Init => TokensOpenAccounts
  BY DEF Init, TokensOpenAccounts
<1>2. SocialInv /\ TokensOpenAccounts /\ [Next]_vars => TokensOpenAccounts'
  BY TokensStep
<1>. QED BY <1>1, <1>2, SocialInvariant, PTL DEF Spec

LEMMA FollowsStep ==
    ASSUME SocialInv, FollowsSound, [Next]_vars
    PROVE  FollowsSound'
<1>1. TypeOK
  BY DEF SocialInv
<1>2. ASSUME NEW r \in Request, Serve(r)
      PROVE  FollowsSound'
  <2>1. \A f \in follows : f[1] # f[2] /\ HasAccount(f[1])' /\ HasAccount(f[2])'
    <3>1. TablesMove
      BY <1>2, ServeStep
    <3>2. \A f \in follows : f[1] \in Wallet /\ f[2] \in Wallet
      BY <1>1 DEF TypeOK
    <3>. QED BY <3>1, <3>2 DEF TablesMove, FollowsSound, HasAccount
  <2>2. CASE CreateFollow(r)
    <3>1. pc[r] = "createFollow" /\ follows' = follows \cup {<<by(r), on(r)>>}
          /\ UNCHANGED hash
      BY <2>2 DEF CreateFollow, At, account
    <3>2. on(r) # by(r) /\ HasAccount(by(r)) /\ HasAccount(on(r))
      BY <3>1 DEF SocialInv, Sound, Carries, WalletSteps
    <3>. QED BY <2>1, <3>1, <3>2 DEF FollowsSound, HasAccount
  <2>3. CASE DeleteFollow(r)
    BY <2>1, <2>3 DEF DeleteFollow, FollowsSound
  <2>4. CASE UNCHANGED follows
    BY <2>1, <2>4 DEF FollowsSound
  <2>. QED BY <1>2, <2>2, <2>3, <2>4, Writers
<1>. QED BY <1>2, StepOf, Stutter DEF FollowsSound, HasAccount

(* Nobody follows himself, and both sides of a follow have an account, though
   followUser reads, creates the followee and writes in separate statements. *)
THEOREM FollowsAlwaysSound == Spec => []FollowsSound
<1>1. Init => FollowsSound
  BY DEF Init, FollowsSound
<1>2. SocialInv /\ FollowsSound /\ [Next]_vars => FollowsSound'
  BY FollowsStep
<1>. QED BY <1>1, <1>2, SocialInvariant, PTL DEF Spec

LEMMA DanglingStep ==
    ASSUME SocialInv, NoDangling, [Next]_vars
    PROVE  NoDangling'
<1>1. ASSUME NEW r \in Request, Serve(r)
      PROVE  NoDangling'
  <2>1. CASE CreatePost(r)
    <3>1. /\ posts' = posts \cup {[id |-> lastPost', by |-> by(r)]}
          /\ (images' = images \cup {lastPost'} \/ images' = images)
          /\ UNCHANGED <<likes, comments>>
      BY <2>1 DEF CreatePost, likeTable, commentTable
    <3>2. \A p : HasPost(p) => \E x \in posts' : x.id = p
      BY <3>1 DEF HasPost
    <3>3. \E x \in posts' : x.id = lastPost'
      <4> DEFINE new == [id |-> lastPost', by |-> by(r)]
      <4>1. new \in posts'
        BY <3>1
      <4>2. new.id = lastPost'
        OBVIOUS
      <4>. QED BY <4>1, <4>2
    <3>4. \A p \in images' : \E x \in posts' : x.id = p
      BY <3>1, <3>2, <3>3 DEF NoDangling
    <3>5. \A x \in likes' \cup comments' : \E y \in posts' : y.id = x.post
      BY <3>1, <3>2 DEF NoDangling
    <3>. QED BY <3>4, <3>5 DEF NoDangling, HasPost
  <2>2. CASE DeletePost(r)
    <3>1. /\ posts' = IF Restricts(on(r)) THEN posts ELSE {x \in posts : x.id # on(r)}
          /\ UNCHANGED <<images, likes, comments>>
      BY <2>2 DEF DeletePost, likeTable, commentTable
    <3>. QED BY <3>1 DEF NoDangling, Restricts, HasPost
  <2>3. CASE DeleteImages(r)
    BY <2>3 DEF DeleteImages, likeTable, commentTable, NoDangling, HasPost
  <2>4. CASE UNCHANGED <<posts, images>>
    <3>1. \A p : HasPost(p)' <=> HasPost(p)
      BY <2>4 DEF HasPost
    <3>2. \A x \in likes' : HasPost(x.post)
      <4>1. CASE CreateLike(r)
        BY <4>1 DEF CreateLike, likeTable, NoDangling
      <4>2. CASE DeleteLike(r)
        BY <4>2 DEF DeleteLike, NoDangling
      <4>3. CASE DeleteLikes(r)
        BY <4>3 DEF DeleteLikes, NoDangling
      <4>4. CASE UNCHANGED likes
        BY <4>4 DEF NoDangling
      <4>. QED BY <1>1, <4>1, <4>2, <4>3, <4>4, Writers
    <3>3. \A x \in comments' : HasPost(x.post)
      <4>1. CASE CreateComment(r)
        BY <4>1 DEF CreateComment, NewComment, commentTable, NoDangling
      <4>2. CASE DeleteComment(r)
        BY <4>2 DEF DeleteComment, NoDangling
      <4>3. CASE DeleteComments(r)
        BY <4>3 DEF DeleteComments, NoDangling
      <4>4. CASE UNCHANGED comments
        BY <4>4 DEF NoDangling
      <4>. QED BY <1>1, <4>1, <4>2, <4>3, <4>4, Writers
    <3>. QED BY <2>4, <3>1, <3>2, <3>3 DEF NoDangling
  <2>. QED BY <1>1, <2>1, <2>2, <2>3, <2>4, Writers
<1>. QED BY <1>1, StepOf, Stutter DEF NoDangling, HasPost

(* No image, like or comment outlives its post: deletePost removes them one
   table after the other, and what others add in between keeps the post.   *)
THEOREM NothingDangles == Spec => []NoDangling
<1>1. Init => NoDangling
  BY DEF Init, NoDangling
<1>2. SocialInv /\ NoDangling /\ [Next]_vars => NoDangling'
  BY DanglingStep
<1>. QED BY <1>1, <1>2, SocialInvariant, PTL DEF Spec

(* Whoever is about to delete something owns it.                           *)
LEMMA Deleter ==
    ASSUME SocialInv, NEW r \in Request, pc[r] \in Deleting
    PROVE  /\ op(r) = "deletePost"
           /\ \A x \in posts : x.id = on(r) => x.by = by(r)
           /\ HasPost(on(r)) => AuthorOf(on(r)) = by(r)
<1>1. op(r) = "deletePost" /\ \A x \in posts : x.id = on(r) => x.by = by(r)
  BY DEF SocialInv, Sound, MayDelete
<1>2. ASSUME HasPost(on(r))
      PROVE  AuthorOf(on(r)) = by(r)
  <2>1. \E x \in posts : x.id = on(r)
    BY <1>2 DEF HasPost
  <2>2. DEFINE row == CHOOSE x \in posts : x.id = on(r)
  <2>3. row \in posts /\ row.id = on(r)
    BY <2>1
  <2>. QED BY <1>1, <2>3 DEF AuthorOf
<1>. QED BY <1>1, <1>2

OwnersOnlyStep ==
    /\ \A x \in posts : x \notin posts' => Serves("deletePost", x.by)
    /\ \A p \in images : p \notin images' => Serves("deletePost", AuthorOf(p))
    /\ \A x \in likes : x \notin likes' =>
          Serves("unlikePost", x.by) \/ Serves("deletePost", AuthorOf(x.post))
    /\ \A x \in comments : x \notin comments' =>
          Serves("deleteComment", x.by) \/ Serves("deletePost", AuthorOf(x.post))

LEMMA OwnersStep ==
    ASSUME SocialInv, NoDangling, [Next]_vars
    PROVE  OwnersOnlyStep
<1>1. ASSUME NEW r \in Request, Serve(r)
      PROVE  OwnersOnlyStep
  <2>1. \A x \in posts : x \notin posts' => Serves("deletePost", x.by)
    <3>1. CASE DeletePost(r)
      <4>1. pc[r] = "deletePost" /\ \A x \in posts : x \notin posts' => x.id = on(r)
        BY <3>1 DEF DeletePost, At
      <4>. QED BY <4>1, Deleter DEF Serves, Deleting
    <3>2. CASE posts \subseteq posts'
      BY <3>2
    <3>3. CASE CreatePost(r) \/ DeleteImages(r)
      BY <3>2, <3>3 DEF CreatePost, DeleteImages
    <3>. QED BY <1>1, <3>1, <3>2, <3>3, Writers
  <2>2. \A p \in images : p \notin images' => Serves("deletePost", AuthorOf(p))
    <3>1. CASE DeleteImages(r)
      <4>1. pc[r] = "deleteImages" /\ images' = images \ {on(r)}
        BY <3>1 DEF DeleteImages, At
      <4>. QED BY <4>1, Deleter DEF Serves, Deleting, NoDangling
    <3>2. CASE images \subseteq images'
      BY <3>2
    <3>3. CASE CreatePost(r) \/ DeletePost(r)
      BY <3>2, <3>3 DEF CreatePost, DeletePost
    <3>. QED BY <1>1, <3>1, <3>2, <3>3, Writers
  <2>3. \A x \in likes : x \notin likes' =>
           Serves("unlikePost", x.by) \/ Serves("deletePost", AuthorOf(x.post))
    <3>1. CASE DeleteLike(r)
      <4>1. pc[r] = "deleteLike" /\ \A x \in likes : x \notin likes' => x.id = found[r]
        BY <3>1 DEF DeleteLike, At
      <4>2. /\ op(r) = "unlikePost"
            /\ \A x \in likes : x.id = found[r] => x.by = by(r)
        BY <4>1 DEF SocialInv, Sound, MayDelete
      <4>. QED BY <4>1, <4>2 DEF Serves
    <3>2. CASE DeleteLikes(r)
      <4>1. /\ pc[r] = "deleteLikes"
            /\ \A x \in likes : x \notin likes' => x.post = on(r)
        BY <3>2 DEF DeleteLikes, At
      <4>. QED BY <4>1, Deleter DEF Serves, Deleting, NoDangling
    <3>3. CASE likes \subseteq likes'
      BY <3>3
    <3>4. CASE CreateLike(r)
      BY <3>3, <3>4 DEF CreateLike, likeTable
    <3>. QED BY <1>1, <3>1, <3>2, <3>3, <3>4, Writers
  <2>4. \A x \in comments : x \notin comments' =>
           Serves("deleteComment", x.by) \/ Serves("deletePost", AuthorOf(x.post))
    <3>1. CASE DeleteComment(r)
      <4>1. /\ pc[r] = "deleteComment"
            /\ \A x \in comments : x \notin comments' => x.id = on(r)
        BY <3>1 DEF DeleteComment, At
      <4>2. /\ op(r) = "deleteComment"
            /\ \A x \in comments : x.id = on(r) => x.by = by(r)
        BY <4>1 DEF SocialInv, Sound, MayDelete
      <4>. QED BY <4>1, <4>2 DEF Serves
    <3>2. CASE DeleteComments(r)
      <4>1. /\ pc[r] = "deleteComments"
            /\ \A x \in comments : x \notin comments' => x.post = on(r)
        BY <3>2 DEF DeleteComments, At
      <4>. QED BY <4>1, Deleter DEF Serves, Deleting, NoDangling
    <3>3. CASE comments \subseteq comments'
      BY <3>3
    <3>4. CASE CreateComment(r)
      BY <3>3, <3>4 DEF CreateComment, commentTable
    <3>. QED BY <1>1, <3>1, <3>2, <3>3, <3>4, Writers
  <2>. QED BY <2>1, <2>2, <2>3, <2>4 DEF OwnersOnlyStep
<1>. QED BY <1>1, StepOf, Stutter DEF OwnersOnlyStep

(* A row disappears only while its owner's request to delete it is served,
   though the owner was looked at some statements before the delete.       *)
THEOREM OnlyOwnersDelete == Spec => OwnersOnly
<1>1. SocialInv /\ NoDangling /\ [Next]_vars => [OwnersOnlyStep]_vars
  BY OwnersStep
<1>2. [][OwnersOnlyStep]_vars => OwnersOnly
  BY PTL DEF OwnersOnly, OwnersOnlyStep
<1>. QED BY <1>1, <1>2, SocialInvariant, NothingDangles, PTL DEF Spec
-------------------------------------------------------------------------------
(* Every like that is there or about to be created has a request of its own:
   the number of rows grows only by a request that found none.             *)
Liking(w, p) == {r \in Request : pc[r] = "createLike" /\ by(r) = w /\ on(r) = p}

LikesInv ==
    /\ IsFiniteSet(likes)
    /\ \A w \in Wallet, p \in PostId :
          Cardinality(LikesOf(w, p)) + Cardinality(Liking(w, p)) <= Cardinality(Request)

LEMMA FewLikes ==
    ASSUME IsFiniteSet(likes), NEW w, NEW p
    PROVE  /\ IsFiniteSet(LikesOf(w, p)) /\ Cardinality(LikesOf(w, p)) \in Nat
           /\ IsFiniteSet(Liking(w, p)) /\ Cardinality(Liking(w, p)) \in Nat
           /\ Cardinality(Liking(w, p)) <= Cardinality(Request)
           /\ Cardinality(Request) \in Nat
<1>1. LikesOf(w, p) \subseteq likes /\ Liking(w, p) \subseteq Request
  BY DEF LikesOf, Liking
<1>. QED BY <1>1, RequestAssumption, FS_Subset, FS_CardinalityType

(* A statement that adds no like and lets nobody pass to adding one.       *)
LEMMA LikesShrink ==
    ASSUME LikesInv, likes' \subseteq likes,
           NEW w \in Wallet, NEW p \in PostId, Liking(w, p)' \subseteq Liking(w, p)
    PROVE  Cardinality(LikesOf(w, p)') + Cardinality(Liking(w, p)') <= Cardinality(Request)
<1>1. LikesOf(w, p)' \subseteq LikesOf(w, p)
  BY DEF LikesOf
<1>2. /\ Cardinality(LikesOf(w, p)') <= Cardinality(LikesOf(w, p))
      /\ Cardinality(Liking(w, p)') <= Cardinality(Liking(w, p))
      /\ IsFiniteSet(LikesOf(w, p)') /\ IsFiniteSet(Liking(w, p)')
  BY <1>1, FewLikes, FS_Subset DEF LikesInv
<1>3. Cardinality(LikesOf(w, p)') \in Nat /\ Cardinality(Liking(w, p)') \in Nat
  BY <1>2, FS_CardinalityType
<1>4. Cardinality(LikesOf(w, p)) + Cardinality(Liking(w, p)) <= Cardinality(Request)
  BY DEF LikesInv
<1>. QED BY <1>2, <1>3, <1>4, FewLikes DEF LikesInv

(* Only the search for an own like leads to the creation of one.           *)
LEMMA OnlyFindLike ==
    ASSUME SocialInv, NEW r \in Request, Serve(r), pc'[r] = "createLike"
    PROVE  FindLike(r)
<1>1. TypeOK
  BY DEF SocialInv
<1>2. ASSUME NEW next \in Step, Goto(r, next)
      PROVE  next = "createLike"
  BY <1>1, <1>2, GotoRequest
<1>3. ~Receive(r)
  <2>1. \A o \in Op : First[o] # "createLike"
    BY OpIs DEF First
  <2>2. use.ops \subseteq Op
    BY <1>1, UsesAssumption DEF TypeOK
  <2>. QED BY <1>1, <2>1, <2>2 DEF Receive, TypeOK
<1>4. ~StatementFails(r)
  BY <1>2, StepIs DEF StatementFails, Reads
<1>5. ~FindLogin(r) /\ ~CreateLogin(r) /\ ~FindFollowee(r)
  BY <1>2, StepIs DEF FindLogin, CreateLogin, FindFollowee, Reads, Ends
<1>6. ~FindAccount(r) /\ ~CreateAccount(r) /\ ~CreateFollow(r)
  BY <1>2, StepIs DEF FindAccount, CreateAccount, CreateFollow, Reads, Ends
<1>7. ~FindFollow(r) /\ ~DeleteFollow(r)
  BY <1>2, StepIs DEF FindFollow, DeleteFollow, Reads, Ends
<1>8. ~SetCover(r) /\ ~FindCover(r) /\ ~ClearCover(r)
  BY <1>2, StepIs DEF SetCover, FindCover, ClearCover, Reads, Ends
<1>9. ~CreatePost(r) /\ ~FindOwnPost(r) /\ ~DeletePost(r)
  BY <1>2, StepIs DEF CreatePost, FindOwnPost, DeletePost, Reads, Ends
<1>10. ~DeleteImages(r) /\ ~DeleteLikes(r) /\ ~DeleteComments(r)
  BY <1>2, StepIs DEF DeleteImages, DeleteLikes, DeleteComments
<1>11. ~FindPost(r) /\ ~CreateLike(r) /\ ~DeleteLike(r)
  BY <1>2, StepIs DEF FindPost, CreateLike, DeleteLike, Reads, Ends
<1>12. ~CreateComment(r) /\ ~FindOwnComment(r) /\ ~DeleteComment(r)
  BY <1>2, StepIs DEF CreateComment, FindOwnComment, DeleteComment, Reads, Ends
<1>. QED BY <1>3, <1>4, <1>5, <1>6, <1>7, <1>8, <1>9, <1>10, <1>11, <1>12 DEF Serve

LEMMA LikesStep ==
    ASSUME SocialInv, LikesInv, [Next]_vars
    PROVE  LikesInv'
<1>1. ASSUME NEW r \in Request, Serve(r)
      PROVE  LikesInv'
  <2>1. IsFiniteSet(likes')
    <3>1. CASE likes' \subseteq likes
      BY <3>1, FS_Subset DEF LikesInv
    <3>2. CASE CreateLike(r)
      <4>1. likes' = likes \/ likes' = likes \cup {[id |-> lastLike', post |-> on(r),
                                                    by |-> by(r)]}
        BY <3>2 DEF CreateLike, likeTable
      <4>. QED BY <4>1, FS_AddElement DEF LikesInv
    <3>3. CASE DeleteLike(r) \/ DeleteLikes(r)
      BY <3>1, <3>3 DEF DeleteLike, DeleteLikes
    <3>. QED BY <1>1, <3>1, <3>2, <3>3, Writers
  <2>2. SUFFICES ASSUME NEW w \in Wallet, NEW p \in PostId
                 PROVE  Cardinality(LikesOf(w, p)') + Cardinality(Liking(w, p)')
                           <= Cardinality(Request)
    BY <2>1 DEF LikesInv
  <2>3. \A q \in Request \ {r} : pc'[q] = pc[q] /\ req'[q] = req[q]
    BY <1>1, ServeStep DEF Frame
  <2>4. CASE pc'[r] # "createLike" /\ likes' \subseteq likes
    <3>1. Liking(w, p)' \subseteq Liking(w, p)
      BY <2>3, <2>4 DEF Liking, by, on
    <3>. QED BY <2>4, <3>1, LikesShrink
  <2>5. CASE FindLike(r) /\ pc'[r] = "createLike"
    <3>1. /\ op(r) = "likePost" /\ LikesOf(by(r), on(r)) = {}
          /\ req' = req /\ likes' = likes
      BY <2>5, StepIs DEF SocialInv, FindLike, Goto, TypeOK, Ends, db, likeTable
    <3>2. CASE by(r) = w /\ on(r) = p
      <4>1. LikesOf(w, p)' = {}
        BY <3>1, <3>2 DEF LikesOf
      <4>2. Liking(w, p)' \subseteq Request
        BY DEF Liking
      <4>3. Cardinality(Liking(w, p)') <= Cardinality(Request)
            /\ Cardinality(Liking(w, p)') \in Nat
        BY <4>2, RequestAssumption, FS_Subset, FS_CardinalityType
      <4>. QED BY <4>1, <4>3, FS_EmptySet
    <3>3. CASE ~(by(r) = w /\ on(r) = p)
      <4>1. Liking(w, p)' \subseteq Liking(w, p)
        BY <2>3, <3>1, <3>3 DEF Liking, by, on
      <4>. QED BY <3>1, <4>1, LikesShrink
    <3>. QED BY <3>2, <3>3
  <2>6. CASE CreateLike(r)
    <3>1. pc[r] = "createLike" /\ pc'[r] = "idle"
      BY <2>6, GotoRequest, StepIs DEF SocialInv, CreateLike, At, Ends
    <3>2. Liking(w, p)' \subseteq Liking(w, p)
      BY <2>3, <3>1 DEF Liking, by, on
    <3>3. CASE likes' = likes
      BY <3>2, <3>3, LikesShrink
    <3>4. CASE likes' # likes
      <4>1. likes' = likes \cup {[id |-> lastLike', post |-> on(r), by |-> by(r)]}
        BY <2>6, <3>4 DEF CreateLike, likeTable
      <4>2. CASE by(r) = w /\ on(r) = p
        <5> DEFINE new == [id |-> lastLike', post |-> on(r), by |-> by(r)]
        <5>1. LikesOf(w, p)' = LikesOf(w, p) \cup {new}
          BY <4>1, <4>2 DEF LikesOf
        <5> HIDE DEF new
        <5>2. /\ IsFiniteSet(LikesOf(w, p)')
              /\ Cardinality(LikesOf(w, p)') <= Cardinality(LikesOf(w, p)) + 1
          <6>1. IsFiniteSet(LikesOf(w, p)) /\ Cardinality(LikesOf(w, p)) \in Nat
            BY FewLikes DEF LikesInv
          <6>2. /\ IsFiniteSet(LikesOf(w, p) \cup {new})
                /\ \/ Cardinality(LikesOf(w, p) \cup {new}) = Cardinality(LikesOf(w, p))
                   \/ Cardinality(LikesOf(w, p) \cup {new}) = Cardinality(LikesOf(w, p)) + 1
            BY <6>1, FS_AddElement
          <6>. QED BY <5>1, <6>1, <6>2
        <5>3. r \in Liking(w, p) /\ Liking(w, p)' \subseteq Liking(w, p) \ {r}
          BY <2>3, <3>1, <4>2 DEF Liking, by, on
        <5>4. Cardinality(Liking(w, p)') <= Cardinality(Liking(w, p)) - 1
          <6>1. /\ IsFiniteSet(Liking(w, p) \ {r})
                /\ Cardinality(Liking(w, p) \ {r}) = Cardinality(Liking(w, p)) - 1
            BY <5>3, FewLikes, FS_RemoveElement DEF LikesInv
          <6>. QED BY <5>3, <6>1, FS_Subset
        <5>5. /\ Cardinality(LikesOf(w, p)') \in Nat
              /\ Cardinality(Liking(w, p)') \in Nat
          <6>1. IsFiniteSet(Liking(w, p)')
            BY <3>2, FewLikes, FS_Subset DEF LikesInv
          <6>. QED BY <5>2, <6>1, FS_CardinalityType
        <5>6. Cardinality(LikesOf(w, p)) + Cardinality(Liking(w, p)) <= Cardinality(Request)
          BY DEF LikesInv
        <5>. QED BY <5>2, <5>4, <5>5, <5>6, FewLikes DEF LikesInv
      <4>3. CASE ~(by(r) = w /\ on(r) = p)
        <5>1. LikesOf(w, p)' = LikesOf(w, p)
          BY <4>1, <4>3 DEF LikesOf
        <5>2. Cardinality(Liking(w, p)') <= Cardinality(Liking(w, p))
              /\ IsFiniteSet(Liking(w, p)')
          BY <3>2, FewLikes, FS_Subset DEF LikesInv
        <5>3. Cardinality(Liking(w, p)') \in Nat
          BY <5>2, FS_CardinalityType
        <5>4. Cardinality(LikesOf(w, p)) + Cardinality(Liking(w, p)) <= Cardinality(Request)
          BY DEF LikesInv
        <5>. QED BY <5>1, <5>2, <5>3, <5>4, FewLikes DEF LikesInv
      <4>. QED BY <4>2, <4>3
    <3>. QED BY <3>3, <3>4
  <2>7. pc'[r] = "createLike" => FindLike(r)
    BY <1>1, OnlyFindLike
  <2>8. likes' \subseteq likes \/ CreateLike(r)
    <3>1. CASE DeleteLike(r) \/ DeleteLikes(r)
      BY <3>1 DEF DeleteLike, DeleteLikes
    <3>. QED BY <1>1, <3>1, Writers
  <2>. QED BY <2>4, <2>5, <2>6, <2>7, <2>8
<1>2. CASE UNCHANGED vars
  <2>1. UNCHANGED <<likes, pc, req>>
    BY <1>2, Stutter
  <2>. QED BY <2>1 DEF LikesInv, LikesOf, Liking, by, on
<1>. QED BY <1>1, <1>2, StepOf

(* The check before createLike only fails while requests overlap: an account
   never likes a post more often than there are concurrent requests.       *)
THEOREM LikesAlwaysBounded == Spec => []LikesBounded
<1>1. Init => LikesInv
  <2> SUFFICES ASSUME Init
               PROVE  LikesInv
    OBVIOUS
  <2>1. IsFiniteSet(likes)
    BY FS_EmptySet DEF Init
  <2>2. \A w \in Wallet, p \in PostId : LikesOf(w, p) = {} /\ Liking(w, p) = {}
    BY DEF Init, LikesOf, Liking
  <2>3. Cardinality(Request) \in Nat
    BY RequestAssumption, FS_CardinalityType
  <2>. QED BY <2>1, <2>2, <2>3, FS_EmptySet DEF LikesInv
<1>2. SocialInv /\ LikesInv /\ [Next]_vars => LikesInv'
  BY LikesStep
<1>3. LikesInv => LikesBounded
  <2> SUFFICES ASSUME LikesInv, NEW w \in Wallet, NEW p \in PostId
               PROVE  Cardinality(LikesOf(w, p)) <= Cardinality(Request)
    BY DEF LikesBounded
  <2>1. Cardinality(LikesOf(w, p)) + Cardinality(Liking(w, p)) <= Cardinality(Request)
    BY DEF LikesInv
  <2>. QED BY <2>1, FewLikes DEF LikesInv
<1>. QED BY <1>1, <1>2, <1>3, SocialInvariant, PTL DEF Spec
===============================================================================
