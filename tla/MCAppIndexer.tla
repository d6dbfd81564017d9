----------------------------- MODULE MCAppIndexer -----------------------------
(***************************************************************************)
(* Every first block of up to MaxEvents of the events below, before a fixed*)
(* second block, and two streams over them.  A chain whose first block has *)
(* at most ForkEvents events may be reorganised, from either block on: the *)
(* new blocks have a new transaction, and old ones at other places.        *)
(***************************************************************************)
EXTENDS AppIndexer, SequencesExt

CONSTANTS Ann, Bob, Contract, ForkEvents

Event(tx, keys, members) ==
    [tx |-> tx, keys |-> keys, members |-> members, data |-> Words(keys[1], members)]

Sent(tx, a, b)    == Event(tx, <<"Transfer">>, [from |-> a, to |-> b, tokenId |-> 1])
Prescribed(tx, a) == Event(tx, <<"PrescriptionUpdated">>,
    [owner |-> a, tokenId |-> 1, mintPrice |-> 9, oldIng |-> 2, oldBG |-> 3,
     newIng |-> 4, newBG |-> 5])

Events ==
    {Sent(1, Ann, Bob),
     Sent(1, Contract, Bob),                        \* a mint
     Prescribed(1, Bob),
     Event(2, <<"PillFameUpdated">>, [voter |-> Ann, tokenId |-> 1, amount |-> 7]),
     Event(2, <<"Transfer", "Unknown">>, [from |-> Bob, to |-> Ann, tokenId |-> 1]),
     Event(2, <<"AttributeAdded">>, [tokenId |-> 2, attrId |-> 6]),
     Sent(None, Ann, Bob)}

SecondBlock ==
    <<Sent(3, Bob, Ann),
      Event(3, <<"ScalarRemove">>, [fromPillId |-> 1, tokenId |-> 2, to |-> Ann])>>

(* The events of no other chain: all the decoders have to do with.          *)
Others ==
    <<Event(4, <<"ScalarTransfer">>, [from |-> Ann, tokenId |-> 2, toPillId |-> 1]),
      Event(4, <<"PillDeFameUpdated">>, [voter |-> Bob, tokenId |-> 1, amount |-> 8]),
      Event(4, <<"PharmacyStockUpdate">>,
            [typeIndex |-> 0, index |-> 3, startAmount |-> 9, ammount_left |-> 8]),
      Event(4, <<"PillVoteTimeStamp">>, [tokenId |-> 1, time_stamp |-> 5]),
      Event(5, <<"TraitVoteTimeStamp">>, [tokenId |-> 2, time_stamp |-> 6]),
      Event(5, <<"TraitRedemption">>,
            [l1_address |-> Bob, l1_tokenId |-> 8, tokenId |-> 4, to |-> Ann])>>

SmallChains == {<<b, SecondBlock>> : b \in BoundedSeq(Events, MaxEvents)}

(* Of the second block alone, and of both.                                  *)
SmallForks ==
    {[old |-> c, at |-> 2, new |-> <<c[1], <<Sent(4, Ann, Bob)>> \o SecondBlock>>] :
        c \in {d \in SmallChains : Len(d[1]) <= ForkEvents}}
    \cup {[old |-> c, at |-> 1, new |-> <<SubSeq(Others, 1, 2), c[1]>>] :
        c \in {d \in SmallChains : Len(d[1]) <= ForkEvents}}
    \cup {[old |-> <<<<>>, SecondBlock>>, at |-> 2,
            new |-> <<<<>>, SubSeq(Others, n, n + 2)>>] : n \in {3, 4}}

Everyone == {Ann, Bob, Contract}
Nobody == {Contract}
=============================================================================
