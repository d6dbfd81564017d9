------------------------------ MODULE SocialFeed ------------------------------
(***************************************************************************)
(* A client that pages through getPostsForUser, the posts of a wallet and  *)
(* of those it follows, the newest first, while other requests write.      *)
(* A page is three awaits: the followed accounts, the ids of the posts,    *)
(* with skip and take, and getPostById for each id.  The client asks for   *)
(* the next page by the number of posts it has, until one is empty.        *)
(***************************************************************************)
EXTENDS Social, Sequences, SequencesExt

CONSTANTS
    PageSize,       \* the argument "first", 20 by default: [some of Uses -> Nat];
                    \* bound: a client reads a feed only in those
    MaxMoves        \* bound on the posts that leave or enter an open feed

(* The empty page ends the client's reading, so it asks for some posts.     *)
ASSUME PageAssumption == \A u \in DOMAIN PageSize : PageSize[u] \in Nat \ {0}

VARIABLES
    viewer,         \* the wallet whose feed is open, or None
    stage,          \* what is awaited; "ask": between two pages
    authors,        \* the wallets whose posts the page shows, as read
    listed,         \* the ids of the page, as read
    missing,        \* those of them that getPostById has not returned yet
    shown,          \* the ids the client has, in the order of the feed
    stayed,         \* history: the posts that are in the feed all the time
    left, entered   \* history: how many posts left the feed, how many entered

history == <<stayed, left, entered>>
reader == <<viewer, stage, authors, listed, missing, shown>>
feedVars == <<vars, reader, history>>

FeedTypeOK ==
    /\ viewer \in Wallet \cup {None}
    /\ stage \in {"closed", "ask", "list", "fetch"}
    /\ authors \subseteq Wallet
    /\ listed \in Seq(PostId)
    /\ listed # <<>> => Len(listed) <= PageSize[use]
    /\ missing \subseteq ToSet(listed)
    /\ shown \in Seq(PostId)
    /\ stayed \subseteq PostId
    /\ left \in Nat /\ entered \in Nat

FeedInit ==
    /\ Init
    /\ viewer = None /\ stage = "closed" /\ authors = {}
    /\ listed = <<>> /\ missing = {} /\ shown = <<>>
    /\ stayed = {} /\ left = 0 /\ entered = 0
-------------------------------------------------------------------------------
Following(w) == {u \in Wallet : <<w, u>> \in follows}

(* No account, no posts, not even those of the accounts that it follows.   *)
AuthorsFor(w) == IF HasAccount(w) THEN Following(w) \cup {w} ELSE {}
PostsOf(wallets) == {x.id : x \in {y \in posts : y.by \in wallets}}

NewestFirst(ids) ==
    CHOOSE q \in [1..Cardinality(ids) -> ids] : \A i, j \in DOMAIN q : i < j => q[i] > q[j]

(* Mutants: without skip, without take.                                    *)
Page_NoSkip(ids, skip, take) == SubSeq(ids, 1, IF take < Len(ids) THEN take ELSE Len(ids))
Page_NoTake(ids, skip, take) == SubSeq(ids, skip + 1, Len(ids))

(* skip and take                                                           *)
Page(ids, skip, take) ==
    LET last == IF skip + take < Len(ids) THEN skip + take ELSE Len(ids)
    IN  SubSeq(ids, skip + 1, last)

OpenFeed(w) ==
    /\ stage = "closed"
    /\ use \in DOMAIN PageSize
    /\ viewer' = w
    /\ stage' = "ask"
    /\ stayed' = PostsOf(AuthorsFor(w))
    /\ UNCHANGED <<authors, listed, missing, shown, left, entered>>

(* Mutant: the own account is not added to the followed ones.              *)
FindAuthors_OthersOnly ==
    /\ stage = "ask"
    /\ authors' = Following(viewer)
    /\ stage' = "list"
    /\ UNCHANGED <<viewer, listed, missing, shown, history>>

FindAuthors ==
    /\ stage = "ask"
    /\ authors' = AuthorsFor(viewer)
    /\ stage' = "list"
    /\ UNCHANGED <<viewer, listed, missing, shown, history>>

CloseFeed ==
    /\ viewer' = None /\ stage' = "closed" /\ authors' = {}
    /\ listed' = <<>> /\ missing' = {} /\ shown' = <<>>
    /\ stayed' = {} /\ left' = 0 /\ entered' = 0

(* The ids of the next page; after an empty one the client is done.         *)
ListPosts ==
    LET page == Page(NewestFirst(PostsOf(authors)), Len(shown), PageSize[use]) IN
    /\ stage = "list"
    /\ IF page = <<>>
         THEN CloseFeed
         ELSE /\ listed' = page /\ missing' = ToSet(page)
              /\ authors' = {}
              /\ stage' = "fetch"
              /\ UNCHANGED <<viewer, shown>>

(* getPostById of a post that exists; the last one completes the page.     *)
GetPostById(p) ==
    /\ stage = "fetch"
    /\ p \in missing /\ HasPost(p)
    /\ missing' = missing \ {p}
    /\ IF missing' = {}
         THEN shown' = shown \o listed /\ listed' = <<>> /\ stage' = "ask"
         ELSE UNCHANGED <<shown, listed, stage>>
    /\ UNCHANGED <<viewer, authors>>

(* getPostById of a post that was deleted reads a field of null and throws;
   any other statement may fail too.  The whole page is an error, and the
   client asks for it again.                                               *)
PageFails ==
    /\ stage \in {"list", "fetch"}
    /\ stage' = "ask"
    /\ authors' = {} /\ listed' = <<>> /\ missing' = {}
    /\ UNCHANGED <<viewer, shown>>

(* What changes while a feed is open, and what the next page is cut from: the
   followed accounts count as they were read.                              *)
Feed == PostsOf(AuthorsFor(viewer))
View == IF stage = "list" THEN PostsOf(authors) ELSE Feed
Watch ==
    IF stage = "closed" THEN UNCHANGED history
    ELSE /\ stayed' = stayed \cap Feed'
         /\ left' = left + Cardinality(View \ View')
         /\ entered' = entered + Cardinality(View' \ View)
         /\ left' + entered' <= MaxMoves

Read ==
    \/ FindAuthors
    \/ ListPosts /\ (stage' # "closed" => Watch)
    \/ (PageFails \/ \E p \in PostId : GetPostById(p)) /\ Watch

FeedNext ==
    \/ Next /\ UNCHANGED reader /\ Watch
    \/ UNCHANGED vars /\ (Read \/ \E w \in Wallet : OpenFeed(w))

FeedSpec == FeedInit /\ [][FeedNext]_feedVars
-------------------------------------------------------------------------------
(* Pages are cut by position in a list that changes between them.  A post that
   was in the feed from the first page to the last is not shown only if others
   left it, deleted or unfollowed: each hides at most one.  One of an account
   that was unfollowed while the page was made enters and leaves again.    *)
NothingMissed ==
    [][stage = "list" /\ stage' = "closed" =>
          Cardinality(stayed \ ToSet(shown)) <= left]_feedVars

(* A post is shown again only if others entered the feed, written or followed
   meanwhile: each repeats at most one.                                    *)
NothingRepeated == Len(shown) - Cardinality(ToSet(shown)) <= entered
===============================================================================
