-------------------------------- MODULE Social --------------------------------
(***************************************************************************)
(* Accounts, follows, posts, likes and comments: AuthService and           *)
(* AccountService.  Every request is a chain of awaited statements without *)
(* a transaction: it reads, decides on what it read and writes, while the  *)
(* other requests do the same.  The only help comes from the constraints   *)
(* of the schema: unique keys, and foreign keys that restrict deletes.     *)
(*                                                                         *)
(* Accounts are never deleted, so the read of the requester's own account  *)
(* that most handlers start with is one step with the read that follows.   *)
(***************************************************************************)
EXTENDS Naturals, FiniteSets

CONSTANTS
    Wallet,
    Salt,           \* bcrypt draws one for every hash
    Request,        \* the requests that are served concurrently
    None,
    Uses,           \* bounds: what the clients do together, a set of records
                    \* [ops, posts, atOnce]
    MaxPosts, MaxLikes, MaxComments     \* bounds on the rows ever created

PostId == 1..MaxPosts
HashOf(w, salt) == <<w, salt>>
Hash == Wallet \X Salt
Target == Wallet \cup PostId \cup (1..MaxComments) \cup {None}

(* The statement each handler starts with.                                 *)
First == [login |-> "findLogin",
          followUser |-> "findFollowee",
          unfollowUser |-> "findFollow", removeFollower |-> "findFollow",
          uploadCoverPhoto |-> "setCover", removeCoverPhoto |-> "findCover",
          createPostWithImages |-> "createPost", createPostWithoutImage |-> "createPost",
          deletePost |-> "findOwnPost",
          likePost |-> "findPost", unlikePost |-> "findPost",
          createComment |-> "findPost", deleteComment |-> "findOwnComment"]
Op == DOMAIN First
Step == {First[o] : o \in Op} \cup
        {"idle", "createLogin", "findAccount", "createAccount", "createFollow",
         "deleteFollow", "clearCover", "deleteImages", "deleteLikes",
         "deleteComments", "deletePost", "findLike", "createLike", "deleteLike",
         "createComment", "deleteComment"}

(* None is not a hash, a request writes no more than the bound.            *)
ASSUME NoneAssumption == None \notin Hash
ASSUME UsesAssumption == \A u \in Uses : u.ops \subseteq Op /\ u.posts \in 0..MaxPosts
ASSUME BoundsAssumption == MaxPosts \in Nat /\ MaxLikes \in Nat /\ MaxComments \in Nat
ASSUME RequestAssumption == IsFiniteSet(Request)

VARIABLES
    use,            \* of this behaviour: ops, the operations; posts, how many
                    \* are written; atOnce, how many requests are served at once
    hash,           \* [Wallet -> walletAddressHash of its account, or None]
    tokens,         \* the subjects of the JWTs that were signed
    follows,        \* pairs <<follower, following>>
    covers,         \* the accounts with a cover photo
    posts,          \* records [id, by]
    images,         \* the posts with images
    likes,          \* records [id, post, by]
    comments,       \* records [id, post, by]
    lastPost, lastLike, lastComment,    \* the autoincrement sequences
    pc,             \* [Request -> the statement that is awaited]
    req,            \* [Request -> [op, by, on] while it is served, or None]
    found           \* [Request -> the id of the like that was found]

account == <<hash, tokens>>
postTables == <<posts, images, lastPost>>
likeTable == <<likes, lastLike>>
commentTable == <<comments, lastComment>>
db == <<account, follows, covers, postTables, likeTable, commentTable>>
request == <<pc, req, found>>
vars == <<db, request, use>>

Row(ids) == [id : ids, post : PostId, by : Wallet]

TypeOK ==
    /\ use \in Uses
    /\ hash \in [Wallet -> Hash \cup {None}]
    /\ tokens \subseteq Hash
    /\ follows \subseteq Wallet \X Wallet
    /\ covers \subseteq Wallet
    /\ posts \subseteq [id : PostId, by : Wallet] /\ images \subseteq PostId
    /\ likes \subseteq Row(1..MaxLikes)
    /\ comments \subseteq Row(1..MaxComments)
    /\ lastPost \in 0..MaxPosts
    /\ lastLike \in 0..MaxLikes /\ lastComment \in 0..MaxComments
    /\ pc \in [Request -> Step]
    /\ req \in [Request -> [op : Op, by : Wallet, on : Target] \cup {None}]
    /\ found \in [Request -> 0..MaxLikes]

Init ==
    /\ use \in Uses
    /\ hash = [w \in Wallet |-> None]
    /\ tokens = {} /\ follows = {} /\ covers = {}
    /\ posts = {} /\ images = {} /\ likes = {} /\ comments = {}
    /\ lastPost = 0 /\ lastLike = 0 /\ lastComment = 0
    /\ pc = [r \in Request |-> "idle"]
    /\ req = [r \in Request |-> None]
    /\ found = [r \in Request |-> 0]
-------------------------------------------------------------------------------
by(r) == req[r].by
on(r) == req[r].on
op(r) == req[r].op
HasAccount(w) == hash[w] # None
HasPost(p) == \E x \in posts : x.id = p

At(r, here) == pc[r] = here
Goto(r, next) == /\ pc' = [pc EXCEPT ![r] = next]
                 /\ req' = IF next = "idle" THEN [req EXCEPT ![r] = None] ELSE req
                 /\ found' = IF next = "idle" THEN [found EXCEPT ![r] = 0] ELSE found

(* A SELECT and the decision on its result.                                *)
Reads(r, here, next) ==
    /\ At(r, here)
    /\ Goto(r, next)
    /\ UNCHANGED db

(* The handler ends, with its answer or with an error.                     *)
Ends(r) == Goto(r, "idle")

(* The awaited statement, or an upload to the image service, fails: most
   handlers catch the error and answer with another one.  What the statements
   before it wrote stays.                                                   *)
StatementFails(r) ==
    /\ pc[r] # "idle"
    /\ Reads(r, pc[r], "idle")

(* What a request can ask: posts and comments that were ever created.      *)
TargetsOf(o) ==
    CASE o \in {"followUser", "unfollowUser", "removeFollower"} -> Wallet
      [] o \in {"deletePost", "likePost", "unlikePost", "createComment"} -> 1..lastPost
      [] o = "deleteComment" -> 1..lastComment
      [] OTHER -> {None}

(* JwtStrategy.validate: the token's subject is the hash of an account.    *)
Authorized(w) == HasAccount(w) /\ hash[w] \in tokens

Serving == {r \in Request : pc[r] # "idle"}

Receive(r) ==
    /\ At(r, "idle")
    /\ Cardinality(Serving) < use.atOnce
    /\ \E o \in use.ops, w \in Wallet : \E t \in TargetsOf(o) :
          /\ o # "login" => Authorized(w)
          /\ req' = [req EXCEPT ![r] = [op |-> o, by |-> w, on |-> t]]
          /\ pc' = [pc EXCEPT ![r] = First[o]]
    /\ UNCHANGED <<found, db>>
-------------------------------------------------------------------------------
(* login                                                                   *)

SignToken(h) == tokens' = tokens \cup {h}

FindLogin(r) ==
    /\ At(r, "findLogin")
    /\ IF HasAccount(by(r))
         THEN SignToken(hash[by(r)]) /\ Ends(r)
         ELSE UNCHANGED tokens /\ Goto(r, "createLogin")
    /\ UNCHANGED <<hash, follows, covers, postTables, likeTable, commentTable>>

(* Mutant: the token is signed for the hash that was computed here.        *)
CreateLogin_SignsAnyway(r) ==
    /\ At(r, "createLogin")
    /\ \E salt \in Salt :
          /\ hash' = IF HasAccount(by(r)) THEN hash
                     ELSE [hash EXCEPT ![by(r)] = HashOf(by(r), salt)]
          /\ SignToken(HashOf(by(r), salt))
    /\ Ends(r)
    /\ UNCHANGED <<follows, covers, postTables, likeTable, commentTable>>

(* The row is refused when another request created it in the meantime: the
   caller gets an error and no token.                                      *)
CreateLogin(r) ==
    /\ At(r, "createLogin")
    /\ IF HasAccount(by(r))
         THEN UNCHANGED account
         ELSE \E salt \in Salt : /\ hash' = [hash EXCEPT ![by(r)] = HashOf(by(r), salt)]
                                 /\ SignToken(HashOf(by(r), salt))
    /\ Ends(r)
    /\ UNCHANGED <<follows, covers, postTables, likeTable, commentTable>>
-------------------------------------------------------------------------------
(* followUser, unfollowUser, removeFollower                                *)

(* Mutant: following oneself is not excluded.                              *)
FindFollowee_AlsoSelf(r) ==
    Reads(r, "findFollowee",
          IF HasAccount(on(r)) THEN "createFollow" ELSE "findAccount")

FindFollowee(r) ==
    Reads(r, "findFollowee",
          IF ~HasAccount(on(r)) THEN "findAccount"
          ELSE IF on(r) = by(r) THEN "idle" ELSE "createFollow")

(* createAccount, for a followee that has none: its own read and write.    *)
FindAccount(r) ==
    Reads(r, "findAccount", IF HasAccount(on(r)) THEN "createFollow" ELSE "createAccount")

(* Mutant: the address is stored where its hash belongs.                   *)
CreateAccount_Unhashed(r) ==
    /\ At(r, "createAccount")
    /\ IF HasAccount(on(r))
         THEN UNCHANGED hash /\ Ends(r)
         ELSE /\ hash' = [hash EXCEPT ![on(r)] = on(r)]
              /\ Goto(r, "createFollow")
    /\ UNCHANGED <<tokens, follows, covers, postTables, likeTable, commentTable>>

(* A lost race returns null, and the read of its id throws.                *)
CreateAccount(r) ==
    /\ At(r, "createAccount")
    /\ IF HasAccount(on(r))
         THEN UNCHANGED hash /\ Ends(r)
         ELSE /\ \E salt \in Salt : hash' = [hash EXCEPT ![on(r)] = HashOf(on(r), salt)]
              /\ Goto(r, "createFollow")
    /\ UNCHANGED <<tokens, follows, covers, postTables, likeTable, commentTable>>

(* A row that exists is refused; the handler answers with an error.        *)
CreateFollow(r) ==
    /\ At(r, "createFollow")
    /\ follows' = follows \cup {<<by(r), on(r)>>}
    /\ Ends(r)
    /\ UNCHANGED <<account, covers, postTables, likeTable, commentTable>>

Pair(r) == IF op(r) = "unfollowUser" THEN <<by(r), on(r)>> ELSE <<on(r), by(r)>>

FindFollow(r) ==
    Reads(r, "findFollow", IF on(r) # by(r) /\ Pair(r) \in follows
                           THEN "deleteFollow" ELSE "idle")

DeleteFollow(r) ==
    /\ At(r, "deleteFollow")
    /\ follows' = follows \ {Pair(r)}
    /\ Ends(r)
    /\ UNCHANGED <<account, covers, postTables, likeTable, commentTable>>
-------------------------------------------------------------------------------
(* uploadCoverPhoto, removeCoverPhoto                                      *)

SetCover(r) ==
    /\ At(r, "setCover")
    /\ covers' = covers \cup {by(r)}
    /\ Ends(r)
    /\ UNCHANGED <<account, follows, postTables, likeTable, commentTable>>

FindCover(r) ==
    Reads(r, "findCover", IF by(r) \in covers THEN "clearCover" ELSE "idle")

ClearCover(r) ==
    /\ At(r, "clearCover")
    /\ covers' = covers \ {by(r)}
    /\ Ends(r)
    /\ UNCHANGED <<account, follows, postTables, likeTable, commentTable>>
-------------------------------------------------------------------------------
(* createPostWithImages, createPostWithoutImage (which may have GIFs): the
   post and its images are one nested create.                              *)
CreatePost(r) ==
    /\ At(r, "createPost")
    /\ lastPost < use.posts
    /\ lastPost' = lastPost + 1
    /\ posts' = posts \cup {[id |-> lastPost', by |-> by(r)]}
    /\ \/ images' = images \cup {lastPost'}
       \/ op(r) = "createPostWithoutImage" /\ UNCHANGED images
    /\ Ends(r)
    /\ UNCHANGED <<account, follows, covers, likeTable, commentTable>>

(* Mutant: any account may delete the post.                                *)
FindOwnPost_AnyAuthor(r) ==
    Reads(r, "findOwnPost", IF HasPost(on(r)) THEN "deleteImages" ELSE "idle")

FindOwnPost(r) ==
    Reads(r, "findOwnPost", IF [id |-> on(r), by |-> by(r)] \in posts
                            THEN "deleteImages" ELSE "idle")

DeleteImages(r) ==
    /\ At(r, "deleteImages")
    /\ images' = images \ {on(r)}
    /\ Goto(r, "deleteLikes")
    /\ UNCHANGED <<account, follows, covers, posts, lastPost, likeTable, commentTable>>

DeleteLikes(r) ==
    /\ At(r, "deleteLikes")
    /\ likes' = {x \in likes : x.post # on(r)}
    /\ Goto(r, "deleteComments")
    /\ UNCHANGED <<account, follows, covers, postTables, lastLike, commentTable>>

DeleteComments(r) ==
    /\ At(r, "deleteComments")
    /\ comments' = {x \in comments : x.post # on(r)}
    /\ Goto(r, "deletePost")
    /\ UNCHANGED <<account, follows, covers, postTables, likeTable, lastComment>>

(* The rows whose foreign key restricts the delete of a post.              *)
Restricts(p) ==
    \/ p \in images
    \/ \E x \in likes \cup comments : x.post = p

(* Refused when somebody liked or commented meanwhile: the post stays, its
   images and older likes and comments are gone.                           *)
DeletePost(r) ==
    /\ At(r, "deletePost")
    /\ posts' = IF Restricts(on(r)) THEN posts ELSE {x \in posts : x.id # on(r)}
    /\ Ends(r)
    /\ UNCHANGED <<account, follows, covers, images, lastPost, likeTable, commentTable>>
-------------------------------------------------------------------------------
(* likePost, unlikePost, createComment, deleteComment                      *)

FindPost(r) ==
    Reads(r, "findPost", IF ~HasPost(on(r)) THEN "idle"
                         ELSE IF op(r) = "createComment" THEN "createComment"
                         ELSE "findLike")

LikesOf(w, p) == {x \in likes : x.by = w /\ x.post = p}

(* Mutant: "has already liked" is not looked at.                           *)
FindLike_NoCheck(r) ==
    LET mine == LikesOf(by(r), on(r)) IN
    /\ At(r, "findLike")
    /\ IF op(r) = "likePost"
         THEN Goto(r, "createLike")
         ELSE IF mine = {} THEN Ends(r)
         ELSE /\ \E x \in mine : found' = [found EXCEPT ![r] = x.id]
              /\ pc' = [pc EXCEPT ![r] = "deleteLike"]
              /\ UNCHANGED req
    /\ UNCHANGED db

FindLike(r) ==
    LET mine == LikesOf(by(r), on(r)) IN
    /\ At(r, "findLike")
    /\ \/ /\ op(r) = "likePost"
          /\ Goto(r, IF mine = {} THEN "createLike" ELSE "idle")
       \/ /\ op(r) = "unlikePost" /\ mine = {}
          /\ Ends(r)
       \/ /\ op(r) = "unlikePost"
          /\ \E x \in mine : found' = [found EXCEPT ![r] = x.id]
          /\ pc' = [pc EXCEPT ![r] = "deleteLike"]
          /\ UNCHANGED req
    /\ UNCHANGED db

(* No unique key on (post, account): only the post must exist.             *)
CreateLike(r) ==
    /\ At(r, "createLike")
    /\ IF HasPost(on(r))
         THEN /\ lastLike < MaxLikes
              /\ lastLike' = lastLike + 1
              /\ likes' = likes \cup {[id |-> lastLike', post |-> on(r), by |-> by(r)]}
         ELSE UNCHANGED likeTable
    /\ Ends(r)
    /\ UNCHANGED <<account, follows, covers, postTables, commentTable>>

DeleteLike(r) ==
    /\ At(r, "deleteLike")
    /\ likes' = {x \in likes : x.id # found[r]}
    /\ Ends(r)
    /\ UNCHANGED <<account, follows, covers, postTables, lastLike, commentTable>>

NewComment(r) == [id |-> lastComment + 1, post |-> on(r), by |-> by(r)]

(* Mutant: the comment has no foreign key.                                 *)
CreateComment_NoForeignKey(r) ==
    /\ At(r, "createComment")
    /\ lastComment < MaxComments
    /\ lastComment' = lastComment + 1
    /\ comments' = comments \cup {NewComment(r)}
    /\ Ends(r)
    /\ UNCHANGED <<account, follows, covers, postTables, likeTable>>

CreateComment(r) ==
    /\ At(r, "createComment")
    /\ IF HasPost(on(r))
         THEN /\ lastComment < MaxComments
              /\ lastComment' = lastComment + 1
              /\ comments' = comments \cup {NewComment(r)}
         ELSE UNCHANGED commentTable
    /\ Ends(r)
    /\ UNCHANGED <<account, follows, covers, postTables, likeTable>>

FindOwnComment(r) ==
    Reads(r, "findOwnComment", IF \E x \in comments : x.id = on(r) /\ x.by = by(r)
                               THEN "deleteComment" ELSE "idle")

DeleteComment(r) ==
    /\ At(r, "deleteComment")
    /\ comments' = {x \in comments : x.id # on(r)}
    /\ Ends(r)
    /\ UNCHANGED <<account, follows, covers, postTables, likeTable, lastComment>>
-------------------------------------------------------------------------------
(* One statement of request r, or its arrival.                             *)
Serve(r) ==
    \/ Receive(r) \/ StatementFails(r)
    \/ FindLogin(r) \/ CreateLogin(r)
    \/ FindFollowee(r) \/ FindAccount(r) \/ CreateAccount(r) \/ CreateFollow(r)
    \/ FindFollow(r) \/ DeleteFollow(r)
    \/ SetCover(r) \/ FindCover(r) \/ ClearCover(r)
    \/ CreatePost(r)
    \/ FindOwnPost(r) \/ DeleteImages(r) \/ DeleteLikes(r) \/ DeleteComments(r)
    \/ DeletePost(r)
    \/ FindPost(r) \/ FindLike(r) \/ CreateLike(r) \/ DeleteLike(r)
    \/ CreateComment(r) \/ FindOwnComment(r) \/ DeleteComment(r)

Next == UNCHANGED use /\ \E r \in Request : Serve(r)

Spec == Init /\ [][Next]_vars
-------------------------------------------------------------------------------
(* A signed token opens an account, for ever: of several first logins of a
   wallet that run at once, each with a hash of its own, only the one whose
   row was stored hands out a token.                                       *)
TokensOpenAccounts == \A h \in tokens : \E w \in Wallet : hash[w] = h

(* No image, like or comment of a post survives it, though a handler that
   found the post may write after the post was deleted.                    *)
NoDangling ==
    /\ \A p \in images : HasPost(p)
    /\ \A x \in likes \cup comments : HasPost(x.post)

(* Nobody follows himself, and who follows or is followed has an account,
   whichever of the two paths of followUser created the row.               *)
FollowsSound ==
    \A f \in follows : f[1] # f[2] /\ HasAccount(f[1]) /\ HasAccount(f[2])

(* The search for an own like lets a second one through only while requests
   overlap: there are never more likes of one account for one post than
   requests that are served at once.                                       *)
LikesBounded ==
    \A w \in Wallet, p \in PostId : Cardinality(LikesOf(w, p)) <= Cardinality(Request)

(* Whatever disappears was deleted by its owner, who asked for it: a post or
   its images by its author, a like or a comment by who wrote it or by the
   author of the post.  The owner was checked some statements earlier.     *)
AuthorOf(p) == (CHOOSE x \in posts : x.id = p).by
Serves(o, w) == \E r \in Request : pc[r] # "idle" /\ op(r) = o /\ by(r) = w

OwnersOnly ==
    [][/\ \A x \in posts : x \notin posts' => Serves("deletePost", x.by)
       /\ \A p \in images : p \notin images' => Serves("deletePost", AuthorOf(p))
       /\ \A x \in likes : x \notin likes' =>
             Serves("unlikePost", x.by) \/ Serves("deletePost", AuthorOf(x.post))
       /\ \A x \in comments : x \notin comments' =>
             Serves("deleteComment", x.by) \/ Serves("deletePost", AuthorOf(x.post))]_vars

(* account.service.ts:422-432, "check if the user has already liked the post
   ... if they have, throw error": an account likes a post once.           *)
OneLikePerAccount ==
    \A w \in Wallet, p \in PostId : Cardinality(LikesOf(w, p)) <= 1
=============================================================================
