------------------------------- MODULE MCSocial -------------------------------
(***************************************************************************)
(* Two wallets, two requests at a time, or one and a reader of the feed;   *)
(* which is which makes no difference.                                     *)
(***************************************************************************)
EXTENDS SocialFeed, TLC

CONSTANTS a, b, r1, r2, s1, s2

Together(ops, posts_, atOnce) == [ops |-> ops, posts |-> posts_, atOnce |-> atOnce]

AccountUse == Together({"login", "followUser", "unfollowUser", "removeFollower",
                        "uploadCoverPhoto", "removeCoverPhoto"}, 0, 2)
PostUse == Together({"login"} \cup (Op \ AccountUse.ops), 1, 2)
FollowUse == Together({"login", "followUser", "unfollowUser",
                       "createPostWithoutImage", "deletePost"}, 2, 1)
WriteUse == Together({"login", "createPostWithoutImage", "deletePost"}, 3, 1)
Both == {AccountUse, PostUse}
All == Both \cup {FollowUse, WriteUse}
PageSizes == FollowUse :> 1 @@ WriteUse :> 2

Symmetry == Permutations(Request) \cup Permutations(Wallet) \cup Permutations(Salt)
=============================================================================
