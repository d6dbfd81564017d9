------------------------------- MODULE Decoders -------------------------------
(***************************************************************************)
(* The payload of an event is a sequence of words.  The contract lays out  *)
(* the members of the event by the types of the ABI, and the decoders of   *)
(* utils.ts pick words by their position and give them names of their own. *)
(*                                                                         *)
(* A Uint256 takes two words, the low and the high half.  The decoders add *)
(* the two, or read the low one alone: both give the number back as long   *)
(* as it is below 2^128, which ids and prices are.                         *)
(***************************************************************************)
EXTENDS Naturals, Sequences

U256(n) == <<n, 0>>
Unread  == <<0>>        \* a word no decoder looks at

(* The members of an event, by the types of the ABI.                        *)
Members(name, Address) ==
    CASE name = "Transfer" -> [from : Address, to : Address, tokenId : Nat]
      [] name = "PrescriptionUpdated" ->
            [owner : Address, tokenId : Nat, mintPrice : Nat, oldIng : Nat, oldBG : Nat,
             newIng : Nat, newBG : Nat]
      [] name = "ScalarTransfer" -> [from : Address, tokenId : Nat, toPillId : Nat]
      [] name = "ScalarRemove" -> [fromPillId : Nat, tokenId : Nat, to : Address]
      [] name = "AttributeAdded" -> [tokenId : Nat, attrId : Nat]
      [] name \in {"PillFameUpdated", "PillDeFameUpdated"} ->
            [voter : Address, tokenId : Nat, amount : Nat]
      [] name = "PharmacyStockUpdate" ->
            [typeIndex : Nat, index : Nat, startAmount : Nat, ammount_left : Nat]
      [] name \in {"PillVoteTimeStamp", "TraitVoteTimeStamp"} ->
            [tokenId : Nat, time_stamp : Nat]
      [] name = "TraitRedemption" ->
            [l1_address : Address, l1_tokenId : Nat, tokenId : Nat, to : Address]

(* The words of an event with the members m: from the ABI, and for the events
   the ABI lacks (fame, stock, votes, redemptions) as the decoders take them. *)
Words(name, m) ==
    CASE name = "Transfer" -> <<m.from, m.to>> \o U256(m.tokenId)
      [] name = "PrescriptionUpdated" ->
            <<m.owner>> \o U256(m.tokenId) \o U256(m.mintPrice) \o U256(m.oldIng)
              \o U256(m.oldBG) \o U256(m.newIng) \o U256(m.newBG)
      [] name = "ScalarTransfer" ->
            <<m.from>> \o U256(m.tokenId) \o U256(m.toPillId) \o Unread
      [] name = "ScalarRemove" -> U256(m.fromPillId) \o U256(m.tokenId) \o <<m.to>>
      [] name = "AttributeAdded" ->
            U256(m.tokenId) \o U256(m.attrId) \o Unread \o Unread \o U256(1)
      [] name \in {"PillFameUpdated", "PillDeFameUpdated"} ->
            <<m.voter>> \o U256(m.tokenId) \o <<m.amount>>
      [] name = "PharmacyStockUpdate" ->
            <<m.typeIndex, m.index, m.startAmount, m.ammount_left>>
      [] name = "PillVoteTimeStamp" -> U256(m.tokenId) \o <<m.time_stamp>>
      [] name = "TraitVoteTimeStamp" ->
            Unread \o Unread \o U256(m.tokenId) \o <<m.time_stamp>>
      [] name = "TraitRedemption" ->
            <<m.l1_address>> \o U256(m.l1_tokenId) \o U256(m.tokenId) \o <<m.to>>

Sum256(d, i) == d[i] + d[i + 1]

(* Mutant: a hole of the destructuring pattern is missing.                 *)
DecodePrescriptionUpdated_HoleMissing(d) ==
    [owner |-> d[1], tokenId |-> Sum256(d, 2), mintPrice |-> Sum256(d, 4),
     oldIng |-> d[6], oldBG |-> d[8], newIng |-> d[9], newBG |-> d[11]]

(* The decode... functions, one for each event.                            *)
DecodePrescriptionUpdated(d) ==
    [owner |-> d[1], tokenId |-> Sum256(d, 2), mintPrice |-> Sum256(d, 4),
     oldIng |-> d[6], oldBG |-> d[8], newIng |-> d[10], newBG |-> d[12]]

Decode(name, d) ==
    CASE name = "Transfer" -> [from |-> d[1], to |-> d[2], tokenId |-> d[3]]
      [] name = "PrescriptionUpdated" -> DecodePrescriptionUpdated(d)
      [] name = "ScalarTransfer" ->
            [from |-> d[1], tokenId |-> Sum256(d, 2), toPillId |-> Sum256(d, 4)]
      [] name = "ScalarRemove" ->
            [fromPillId |-> Sum256(d, 1), tokenId |-> Sum256(d, 3), to |-> d[5]]
      [] name = "AttributeAdded" ->
            [tokenId |-> Sum256(d, 1), attrId |-> Sum256(d, 3)]
      [] name \in {"PillFameUpdated", "PillDeFameUpdated"} ->
            [voter |-> d[1], tokenId |-> Sum256(d, 2), amount |-> d[4]]
      [] name = "PharmacyStockUpdate" ->
            [typeIndex |-> d[1], index |-> d[2], startAmount |-> d[3],
             ammount_left |-> d[4]]
      [] name = "PillVoteTimeStamp" ->
            [tokenId |-> Sum256(d, 1), time_stamp |-> d[3]]
      [] name = "TraitVoteTimeStamp" ->
            [tokenId |-> Sum256(d, 3), time_stamp |-> d[5]]
      [] name = "TraitRedemption" ->
            [l1_address |-> d[1], l1_tokenId |-> Sum256(d, 2),
             tokenId |-> Sum256(d, 4), to |-> d[6]]
=============================================================================
