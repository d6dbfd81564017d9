------------------------------ MODULE TokenViews ------------------------------
(***************************************************************************)
(* What the GraphQL services answer from the tables the handlers fill.     *)
(* The owner of a pill, its attributes and the traits of a wallet are      *)
(* stored nowhere: every query sorts the rows of the Event table by block  *)
(* and index and derives them anew, in three different ways.               *)
(***************************************************************************)
EXTENDS BlockHandlers, Integers, FiniteSetsExt

ASSUME AddressAssumption == IsFiniteSet(Address)

Typed(types, t) == {n \in RowsOf(t) : db.event[n] \in types}

(* Mutant: sorted by ascending block and index.                             *)
Latest_Ascending(rows) == CHOOSE n \in rows : \A m \in rows : n <= m

(* orderBy [{ blockNumber: 'desc' }, { eventIndex: 'desc' }], the first row. *)
Latest(rows) == CHOOSE n \in rows : \A m \in rows : m <= n

Amount(type, t) ==
    IF Typed({type}, t) = {} THEN 0 ELSE feed[Latest(Typed({type}, t))].value

NoDetails == [owner |-> None, background |-> None, ingredient |-> None,
              fame |-> 0, defame |-> 0]

(* TokenService.getTokenDetails; without a mint or a change it answers nulls. *)
GetTokenDetails(t) ==
    LET attributes == Typed({"MINT", "CHANGE_ATTRIBUTE"}, t)
        moves      == RowsOf(t) \ Typed({"FAME", "DEFAME"}, t)
    IN  IF attributes = {} THEN NoDetails
        ELSE [owner      |-> feed[Latest(moves)].to,
              background |-> feed[Latest(attributes)].bg,
              ingredient |-> feed[Latest(attributes)].ing,
              fame       |-> Amount("FAME", t),
              defame     |-> Amount("DEFAME", t)]

FindTokenIdsOwnedByUser(a) == {t \in Token : Owns(a, t)}

(* TraitTokenService.getTokenDetails: on a pill, the owner is the pill's.   *)
TraitEvents == {"SCALAR_TRANSFER", "SCALAR_REMOVE", "TRANSFER"}

EquippedById(t) ==
    LET rows == Typed(TraitEvents, t)
    IN  IF rows # {} /\ db.event[Latest(rows)] = "SCALAR_TRANSFER"
        THEN feed[Latest(rows)].to ELSE None

(* Mutant: a worn trait belongs to the wallet that put it on.               *)
TraitOwner_PutOnBy(t) ==
    LET rows == Typed(TraitEvents, t)
    IN  IF rows = {} THEN None
        ELSE IF EquippedById(t) # None THEN feed[Latest(rows)].from
        ELSE feed[Latest(rows)].to

TraitOwner(t) ==
    LET rows == Typed(TraitEvents, t)
    IN  IF rows = {} THEN None
        ELSE IF EquippedById(t) # None THEN GetTokenDetails(EquippedById(t)).owner
        ELSE feed[Latest(rows)].to

(* Mutant: a trait that was put on a pill is still its wearer's to move.    *)
FindTraitTokensByOwner_IgnoresEquip(a) ==
    {t \in Token :
        LET rows == {n \in Typed(TraitEvents \ {"SCALAR_TRANSFER"}, t) :
                        a \in {feed[n].to, feed[n].from}}
        IN  /\ rows # {}
            /\ feed[Latest(rows)].to = a
            /\ db.event[Latest(rows)] = "TRANSFER" => Typed({"MINT"}, t) = {}}

(* TraitTokenService.findTraitTokensByOwner: the last of the rows that name
   the wallet, as receiver or as sender.                                    *)
FindTraitTokensByOwner(a) ==
    {t \in Token :
        LET rows == {n \in Typed(TraitEvents, t) :
                        \/ feed[n].to = a
                        \/ db.event[n] # "SCALAR_REMOVE" /\ feed[n].from = a}
        IN  /\ rows # {}
            /\ db.event[Latest(rows)] \in {"SCALAR_REMOVE", "TRANSFER"}
            /\ feed[Latest(rows)].to = a
            /\ db.event[Latest(rows)] = "TRANSFER" => Typed({"MINT"}, t) = {}}

(* TraitTokenService.findEquippedTraitTokensByOwner: the attributes of the
   wallet's pills, and the page of each; it throws, for the whole wallet, on
   an attribute that has no row to make a page of.                          *)
WornByPillsOf(a) ==
    (UNION {{GetTokenDetails(t).ingredient, GetTokenDetails(t).background} :
               t \in FindTokenIdsOwnedByUser(a)}) \ {None}

FindEquippedAnswers(a) == \A t \in WornByPillsOf(a) : Typed(TraitEvents, t) # {}

(* TokenService.getTotalFameOfPills, asked for the pills of a wallet.       *)
TotalFame(a) ==
    MapThenSumSet(LAMBDA t : GetTokenDetails(t).fame - GetTokenDetails(t).defame,
                  FindTokenIdsOwnedByUser(a))

(* Mutant: a token that has voted keeps its power.                          *)
GivesPower_Voted(t) == t \in db.votingPower

(* TokenService.getVotingPower, asked for the pills of a wallet: the pills,
   their backgrounds and their ingredients, those with power that have not
   voted of late.                                                           *)
GivesPower(t) == t \in db.votingPower /\ db.vote[t] = 0

VotingPower(a) ==
    LET pills == FindTokenIdsOwnedByUser(a) IN
    Cardinality({t \in pills : GivesPower(t)})
      + Cardinality({t \in pills : GivesPower(GetTokenDetails(t).background)})
      + Cardinality({t \in pills : GivesPower(GetTokenDetails(t).ingredient)})

(* Mutant: the amount before is the last one there is.                      *)
AmountAdded_SinceLatest(n) ==
    feed[n].value - Amount(db.event[n], feed[n].token)

(* TransactionResolver.fameAmount and defameAmount: what an event added, the
   rows of its kind in ascending order.                                     *)
AmountAdded(n) ==
    LET before == {m \in Typed({db.event[n]}, feed[n].token) : m < n}
    IN  IF before = {} THEN feed[n].value ELSE feed[n].value - feed[Latest(before)].value

CheckIsClaimed(l1) == \E r \in db.redemption : r[1] = l1

(* TokenService.findBackPackTokens reads the table the handlers maintain.   *)
FindBackPackTokens(a) == {t \in Token : db.backpack[t] = a}
-------------------------------------------------------------------------------
(* Whatever runs concurrently and fails: while nothing that moves a minted pill
   was overtaken by a later event, exactly one wallet lists it, and it is the
   owner the pill's page shows, though one query looks only at the rows that
   name the wallet and the other at all rows of the token; every further
   wallet that lists it has lost it in a transfer that was overtaken.  With
   one worker and no faults no event overtakes another, not even in a replay. *)
Overtaken(t) ==
    {n \in Of({"Prescription_Updated", "Transfer"}, t) :
        db.event[n] = None /\ \E m \in RowsOf(t) : n < m}

Listers(t) == {a \in Address : t \in FindTokenIdsOwnedByUser(a)}

OneOwner ==
    \A t \in Token : Typed({"MINT"}, t) # {} =>
        /\ Overtaken(t) = {} => Listers(t) = {GetTokenDetails(t).owner}
        /\ Cardinality(Listers(t)) \in 1..(1 + Cardinality(Overtaken(t)))
        /\ Calm => Overtaken(t) = {}

(* When the queue is empty, a pill's page shows the last receiver, the last
   attributes and the last amounts of the chain.                           *)
LastAmount(kind, t) == LastValue({kind}, t)

PillIsChain ==
    Calm /\ Settled => \A t \in Pills(feed) :
        GetTokenDetails(t) =
            [owner      |-> feed[LastOf(Of({"Prescription_Updated", "Transfer"}, t))].to,
             background |-> LastPrescribed(feed, t).bg,
             ingredient |-> LastPrescribed(feed, t).ing,
             fame       |-> LastAmount("PILL_FAME_UPDATED", t),
             defame     |-> LastAmount("PILL_DEFAME_UPDATED", t)]

(* The two lists of a wallet's free traits, one derived from the rows and one
   kept by the handlers, agree when the queue is empty, except for traits that
   were redeemed and never moved: those have no row.  None of them is also
   shown as worn, and the page of each names the wallet.                   *)
TraitListsAgree ==
    Calm /\ Settled => \A a \in Address :
        /\ FindTraitTokensByOwner(a) =
              {t \in FindBackPackTokens(a) : Typed(TraitEvents, t) # {}}
        /\ \A t \in FindTraitTokensByOwner(a) : TraitOwner(t) = a
        /\ FindTraitTokensByOwner(a) \cap {t \in Token : EquippedById(t) # None} = {}

(* The traits a pill wears follow it to its new owner without a row of their
   own: when each of them was put on by a scalar transfer, the wallet's query
   for worn traits answers, and the page of each, derived from the pill's
   page, names the same wallet.  Redeemed traits are shown as claimed.      *)
WornOnChain(p) == Traits(LastPrescribed(feed, p))

PutOnOnChain(p, t) ==
    LET moves == Of({"Transfer", "SCALAR_REMOVE", "SCALAR_TRANSFER"}, t)
    IN  /\ moves # {}
        /\ feed[LastOf(moves)].kind = "SCALAR_TRANSFER" /\ feed[LastOf(moves)].to = p

TraitsFollowPill ==
    Calm /\ Settled =>
        /\ \A a \in Address :
              (\A p \in FindTokenIdsOwnedByUser(a), t \in Token :
                  t \in WornOnChain(p) => PutOnOnChain(p, t)) =>
              /\ FindEquippedAnswers(a)
              /\ \A t \in WornByPillsOf(a) :
                    TraitOwner(t) = a /\ EquippedById(t) \in FindTokenIdsOwnedByUser(a)
        /\ \A n \in DOMAIN feed :
              feed[n].kind = "TRAIT_REDEMPTION" => CheckIsClaimed(feed[n].value)

(* What the pages of all wallets add up to counts nothing twice and nothing
   never: the fame of each pill goes to one wallet, and so does each vote,
   also when a trait with power changes from one pill to another.           *)
CountedOnce ==
    LET pills == Pills(feed)
        votes == {t \in Token :
                    /\ Of({"PILL_VOTE_TIMESTAMP", "TRAIT_VOTE_TIME_STAMP"}, t) = {}
                    /\ \E n \in Of({"ATTRIBUTE_ADDED"}, t) : feed[n].value = 1
                    /\ t \in pills \/ \E p \in pills : t \in WornOnChain(p)}
    IN  Calm /\ Settled =>
            /\ MapThenSumSet(VotingPower, Address) = Cardinality(votes)
            /\ MapThenSumSet(TotalFame, Address) =
                  MapThenSumSet(LAMBDA p : LastAmount("PILL_FAME_UPDATED", p)
                                             - LastAmount("PILL_DEFAME_UPDATED", p), pills)

(* The amounts shown event by event, by one service, add up to the amount on
   the token's page, by another, whichever events are missing or late; and an
   event is shown with what it added on the chain unless the one before it is
   missing.                                                                 *)
AmountsAddUp ==
    \A t \in Token, kind \in {"PILL_FAME_UPDATED", "PILL_DEFAME_UPDATED"} :
        LET type == RowType[kind]
            rows == Typed({type}, t)
            before(n) == {m \in Of({kind}, t) : m < n}
        IN  /\ MapThenSumSet(AmountAdded, rows) = Amount(type, t)
            /\ \A n \in rows : before(n) # {} /\ LastOf(before(n)) \in rows =>
                  AmountAdded(n) = feed[n].value - feed[LastOf(before(n))].value
=============================================================================
