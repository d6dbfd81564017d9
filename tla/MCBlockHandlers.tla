--------------------------- MODULE MCBlockHandlers ---------------------------
(***************************************************************************)
(* Small chains for the handlers and the queries.  Token 1 is a pill, 2    *)
(* and 3 are the traits minted with it, 4 is one redeemed from elsewhere,  *)
(* or a second pill.                                                       *)
(***************************************************************************)
EXTENDS TokenViews, TLC

CONSTANTS Ann, Bob, Cara, w1, w2

Ev(kind, token, from, to, bg, ing, value) ==
    [kind |-> kind, token |-> token, from |-> from, to |-> to,
     bg |-> bg, ing |-> ing, value |-> value]

Prescribed(t, to, bg, ing) == Ev("Prescription_Updated", t, None, to, bg, ing, 0)
Mint(to)           == Prescribed(1, to, 2, 3)
MintPlain          == Prescribed(1, Ann, None, None)
Change(bg, ing)    == Prescribed(1, Ann, bg, ing)
Transfer(t, a, b)  == Ev("Transfer", t, a, b, None, None, 0)
Remove(t, to)      == Ev("SCALAR_REMOVE", t, None, to, None, None, 0)
PutOn(t, a)        == Ev("SCALAR_TRANSFER", t, a, 1, None, None, 0)
Fame(n)            == Ev("PILL_FAME_UPDATED", 1, None, Bob, None, None, n)
Defame(n)          == Ev("PILL_DEFAME_UPDATED", 1, None, Bob, None, None, n)
Stock(v)           == Ev("PHARMACY_STOCK_UPDATED", 1, None, None, None, None, v)
Vote(v)            == Ev("PILL_VOTE_TIMESTAMP", 1, None, None, None, None, v)
TraitVote(v)       == Ev("TRAIT_VOTE_TIME_STAMP", 4, None, None, None, None, v)
Redeem(l1)         == Ev("TRAIT_REDEMPTION", 4, None, Ann, None, None, l1)
Attribute(t, v)    == Ev("ATTRIBUTE_ADDED", t, None, None, None, None, v)

(* Two streams, two loops and a fault: handlers that share rows of several
   tables, in pairs, and each of the others against itself.                 *)
Raced ==
    {<<MintPlain, Transfer(1, Ann, Bob)>>, <<MintPlain, Change(None, 3)>>,
     <<Remove(2, Ann), Transfer(2, Ann, Bob)>>, <<Transfer(2, Ann, Bob), PutOn(2, Bob)>>,
     <<Redeem(7), Redeem(8)>>, <<Mint(Ann)>>, <<Stock(5)>>, <<Vote(1)>>,
     <<Attribute(4, 1)>>}

(* The handlers that share rows with a request, and the request.            *)
Requested == {<<MintPlain, Transfer(1, Ann, Bob)>>, <<Vote(1)>>}

(* One stream, two loops and a fault: events that overtake each other.      *)
Overtaking ==
    {<<MintPlain, Transfer(1, Ann, Bob), Transfer(1, Bob, Cara)>>,
     <<Fame(1), Fame(4), Fame(6)>>}

(* Two streams and one loop: longer lives.                                  *)
Lives ==
    {<<Mint(Ann), Remove(2, Ann), Change(None, 3), Transfer(2, Ann, Bob), PutOn(2, Bob)>>,
     <<Mint(Ann), Remove(3, Ann), PutOn(3, Ann), Remove(3, Bob), Transfer(3, Bob, Ann)>>,
     <<Redeem(7), Transfer(4, Ann, Bob), PutOn(4, Bob), Remove(4, Ann), Transfer(4, Ann, Bob)>>,
     <<Stock(5), Vote(1), Stock(4), TraitVote(1), Vote(2)>>,
     <<Mint(Ann), Fame(3), Transfer(1, Ann, Bob), Attribute(1, 2), Attribute(3, 1)>>,
     <<Mint(Ann), Transfer(1, Ann, Bob), Defame(1), Fame(2), Transfer(1, Bob, Ann)>>,
     <<MintPlain, PutOn(2, Ann), Change(2, None), Attribute(2, 1), Transfer(1, Ann, Bob)>>,
     <<Change(2, None), Prescribed(4, Bob, None, 3), Attribute(2, 1), MintPlain,
       Prescribed(4, Bob, 2, 3)>>,
     <<MintPlain, Attribute(1, 1), Vote(1), Fame(2), Fame(5)>>}

Scenario(feeds, streams, atOnce, maxFaults, maxRequests) ==
    {[feed |-> f, copies |-> streams, loops |-> atOnce, faults |-> maxFaults,
      requests |-> maxRequests] : f \in feeds}

AllScenarios ==
    Scenario(Raced, 2, 2, 1, 0)
      \cup Scenario(Requested, 2, 2, 0, 1) \cup Scenario(Requested, 1, 2, 1, 1)
      \cup Scenario(Overtaking, 1, 2, 1, 0) \cup Scenario(Lives, 2, 1, 0, 0)

MintChange == {<<Mint(Ann), Change(2, None)>>}
OneFault   == Scenario(MintChange, 1, 1, 1, 0)
TwoLoops   == Scenario(MintChange, 1, 2, 0, 0)
OneRequest == Scenario({<<Mint(Ann), Transfer(1, Ann, Bob)>>}, 1, 1, 0, 1)

Tokens       == 1..4
WorkerSymmetry == Permutations(Worker)
=============================================================================
