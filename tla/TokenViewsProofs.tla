--------------------------- MODULE TokenViewsProofs ---------------------------
(***************************************************************************)
(* The queries agree on who owns a pill, show the chain, and add up.       *)
(***************************************************************************)
EXTENDS TokenViews, SettledProofs

Transfers(t) == EventsOf(feed, {"Transfer"}, t)

(* Each row is an event of the token, of the kind its type says.           *)
LEMMA RowKinds ==
    ASSUME HandlersInv, RowsMatch, NEW t \in Token, NEW n \in RowsOf(t)
    PROVE  /\ n \in DOMAIN feed /\ feed[n].token = t /\ n \in 1..MaxLength
           /\ db.event[n] \in {"MINT", "CHANGE_ATTRIBUTE"} <=> feed[n].kind = "Prescription_Updated"
           /\ db.event[n] = "TRANSFER" <=> feed[n].kind = "Transfer"
           /\ db.event[n] = "FAME" <=> feed[n].kind = "PILL_FAME_UPDATED"
           /\ db.event[n] = "DEFAME" <=> feed[n].kind = "PILL_DEFAME_UPDATED"
           /\ db.event[n] = "SCALAR_REMOVE" <=> feed[n].kind = "SCALAR_REMOVE"
           /\ db.event[n] = "SCALAR_TRANSFER" <=> feed[n].kind = "SCALAR_TRANSFER"
<1>1. n \in DOMAIN feed /\ feed[n].token = t /\ db.event[n] # None
  BY DEF RowsOf
<1>2. n \in 1..MaxLength
  BY <1>1, FeedType DEF HandlersInv, Types
<1>3. Matches(feed[n].kind, db.event[n])
  BY <1>1, <1>2 DEF RowsMatch
<1>. QED BY <1>1, <1>2, <1>3 DEF Matches, RowType
-------------------------------------------------------------------------------
(* Who the events of a pill say holds it                                   *)

LEMMA EventsIn ==
    ASSUME HandlersInv, NEW kinds, NEW t
    PROVE  EventsOf(feed, kinds, t) \subseteq 1..MaxLength
BY FeedType DEF HandlersInv, Types, EventsOf

LEMMA PillIsHeld ==
    ASSUME HandlersInv, NEW t \in Token, Prescriptions(feed, t) # {}
    PROVE  /\ EventsOf(feed, TraitMoves \ {"Transfer"}, t) = {}
           /\ \A n \in EventsOf(feed, KeepsRow, t) : \E m \in Prescriptions(feed, t) : m <= n
           /\ \A n \in Prescriptions(feed, t) :
                 IF Receipts(feed, t, n) = {} THEN feed[n].to \in Address
                 ELSE feed[n].to = feed[LastOf(Receipts(feed, t, n))].to
           /\ \A n \in Transfers(t) :
                 feed[n].from = feed[LastOf(Receipts(feed, t, n))].to
BY ChainAssumption DEF HandlersInv, Types, feed, PillsHeld, Transfers

LEMMA ReceiptsIn ==
    ASSUME HandlersInv, NEW t \in Token, NEW k
    PROVE  Receipts(feed, t, k) \subseteq 1..MaxLength
BY EventsIn DEF Receipts, Prescriptions

(* Every transfer of a pill comes after its first prescription.            *)
LEMMA TransferAfterMint ==
    ASSUME HandlersInv, NEW t \in Token, Prescriptions(feed, t) # {}, NEW n \in Transfers(t)
    PROVE  \E m \in Prescriptions(feed, t) : m < n
<1>1. n \in EventsOf(feed, KeepsRow, t)
  BY DEF Transfers, EventsOf, KeepsRow
<1>2. PICK m \in Prescriptions(feed, t) : m <= n
  BY <1>1, PillIsHeld
<1>3. m # n /\ m \in 1..MaxLength /\ n \in 1..MaxLength
  BY EventsIn DEF Prescriptions, Transfers, EventsOf
<1>. QED BY <1>2, <1>3

LEMMA Received ==
    ASSUME HandlersInv, NEW t \in Token, Prescriptions(feed, t) # {},
           NEW k \in 1..MaxLength, \E m \in Prescriptions(feed, t) : m < k
    PROVE  /\ Receipts(feed, t, k) # {}
           /\ LastOf(Receipts(feed, t, k)) \in Receipts(feed, t, k)
           /\ \A m \in Receipts(feed, t, k) : m <= LastOf(Receipts(feed, t, k))
<1> DEFINE p == FirstOf(Prescriptions(feed, t))
<1>1. /\ p \in Prescriptions(feed, t)
      /\ \A m \in Prescriptions(feed, t) : p <= m
      /\ Prescriptions(feed, t) \subseteq 1..MaxLength
  BY FirstExists, EventsIn DEF Prescriptions
<1> HIDE DEF p
<1>2. p < k
  BY <1>1
<1>3. p \in Receipts(feed, t, k)
  BY <1>1, <1>2 DEF Receipts
<1>. QED BY <1>3, ReceiptsIn, LastExists

(* Between two transfers a pill stays where it is.                         *)
LEMMA HolderStays ==
    ASSUME HandlersInv, NEW t \in Token, Prescriptions(feed, t) # {},
           NEW k \in Prescriptions(feed, t) \cup Transfers(t), NEW n \in 1..MaxLength, k < n,
           \A x \in Transfers(t) : ~(k < x /\ x < n)
    PROVE  feed[LastOf(Receipts(feed, t, n))].to = feed[k].to
<1> DEFINE P == Prescriptions(feed, t)  X == Transfers(t)
           R(m) == Receipts(feed, t, m)
<1>1. P \subseteq 1..MaxLength /\ X \subseteq 1..MaxLength /\ P \cap X = {}
  BY EventsIn DEF Prescriptions, Transfers, EventsOf
<1>2. \A x \in X : \E m \in P : m < x
  BY TransferAfterMint
<1>3. \A m, x : x \in R(m) <=> \/ x \in P /\ x < m /\ \A y \in P : x <= y
                               \/ x \in X /\ x < m
  BY DEF Receipts, Transfers
<1>4. k \in 1..MaxLength /\ \E m \in P : m < n
  BY <1>1, <1>2
<1>5. /\ LastOf(R(n)) \in R(n) /\ \A x \in R(n) : x <= LastOf(R(n))
      /\ LastOf(R(n)) \in 1..MaxLength
  BY <1>4, Received, ReceiptsIn
<1>6. CASE k \in R(n)
  <2>1. k = LastOf(R(n))
    BY <1>1, <1>2, <1>3, <1>5, <1>6
  <2>. QED BY <2>1
<1>7. CASE k \notin R(n)
  <2>1. k \in P /\ \E y \in P : y < k
    BY <1>1, <1>3, <1>4, <1>7
  <2>2. R(n) = R(k)
    <3>1. \A x \in R(n) : x \in R(k)
      BY <1>1, <1>3, <2>1
    <3>2. \A x \in R(k) : x \in R(n)
      BY <1>1, <1>3, <1>4, <2>1
    <3>. QED BY <3>1, <3>2
  <2>3. R(k) # {}
    BY <1>4, <2>1, Received
  <2>4. feed[k].to = feed[LastOf(R(k))].to
    BY <2>1, <2>3, PillIsHeld
  <2>. QED BY <2>2, <2>4
<1>. QED BY <1>6, <1>7

(* The receivers of a pill are wallets.                                    *)
LEMMA HolderIsWallet ==
    ASSUME HandlersInv, NEW t \in Token, Prescriptions(feed, t) # {},
           NEW n \in Prescriptions(feed, t) \cup Transfers(t)
    PROVE  feed[n].to \in Address
<1> DEFINE P == Prescriptions(feed, t)  X == Transfers(t)
           R(m) == Receipts(feed, t, m)
<1>1. P \subseteq 1..MaxLength /\ X \subseteq 1..MaxLength
  BY EventsIn DEF Prescriptions, Transfers
<1>2. \A x \in X : feed[x].to \in Address
  BY FeedType, EventFields DEF HandlersInv, Types, Transfers, EventsOf
<1>3. ASSUME NEW p \in P, R(p) = {}
      PROVE  feed[p].to \in Address
  BY <1>3, PillIsHeld
<1>4. ASSUME NEW p \in P, R(p) # {}
      PROVE  feed[p].to \in Address
  <2> DEFINE r == LastOf(R(p))
  <2>1. r \in R(p) /\ feed[p].to = feed[r].to
    BY <1>4, ReceiptsIn, LastExists, PillIsHeld
  <2>2. CASE r \in X
    BY <1>2, <2>1, <2>2
  <2>3. CASE r \in P /\ \A y \in P : r <= y
    <3>1. R(r) = {}
      <4> SUFFICES ASSUME NEW x \in R(r)
                   PROVE  FALSE
        OBVIOUS
      <4>1. x < r /\ x \in P \cup X
        BY DEF Receipts, Transfers
      <4>2. \E m \in P : m <= x
        BY <1>1, <4>1, TransferAfterMint
      <4>. QED BY <1>1, <2>3, <4>1, <4>2
    <3>. QED BY <2>1, <2>3, <3>1, <1>3
  <2>. QED BY <2>1, <2>2, <2>3 DEF Receipts, Transfers
<1>. QED BY <1>2, <1>3, <1>4
-------------------------------------------------------------------------------
(* Who lists a pill                                                        *)

Given(t) == Typed({"MINT", "TRANSFER"}, t)
Naming(a, t) ==
    {n \in RowsOf(t) : \/ db.event[n] \in {"MINT", "TRANSFER"} /\ feed[n].to = a
                       \/ db.event[n] = "TRANSFER" /\ feed[n].from = a}

LEMMA ListerIs ==
    ASSUME NEW t \in Token, Typed({"MINT"}, t) # {}, NEW a \in Address
    PROVE  a \in Listers(t) <=>
              \E n \in Naming(a, t) : feed[n].to = a /\ \A m \in Naming(a, t) : m <= n
BY DEF Listers, FindTokenIdsOwnedByUser, Owns, Naming, Typed

(* The rows of a minted token.                                             *)
LEMMA MintedRows ==
    ASSUME HandlersInv, RowsMatch, NEW t \in Token, Typed({"MINT"}, t) # {}
    PROVE  /\ Prescriptions(feed, t) # {}
           /\ \A n \in RowsOf(t) : n \in 1..MaxLength
           /\ \A n \in Given(t) : /\ n \in RowsOf(t)
                                  /\ n \in Prescriptions(feed, t) \cup Transfers(t)
           /\ \A n \in RowsOf(t) : db.event[n] = "TRANSFER" <=> n \in Transfers(t)
           /\ \A n \in RowsOf(t) : n \in Transfers(t) => n \in Given(t)
           /\ Given(t) \subseteq 1..MaxLength /\ Given(t) # {}
<1>1. \A n \in RowsOf(t) : /\ n \in 1..MaxLength /\ n \in DOMAIN feed /\ feed[n].token = t
                           /\ db.event[n] = "MINT" => feed[n].kind = "Prescription_Updated"
                           /\ db.event[n] = "TRANSFER" <=> feed[n].kind = "Transfer"
  BY RowKinds
<1>. QED BY <1>1 DEF Given, Typed, Prescriptions, Transfers, EventsOf

(* The wallet of the last mint or transfer lists the pill; any other lister
   gave it away in a transfer that was overtaken.                          *)
LEMMA ListersAre ==
    ASSUME HandlersInv, RowsMatch, NEW t \in Token, Typed({"MINT"}, t) # {},
           NEW g, g = LastOf(Given(t))
    PROVE  /\ feed[g].to \in Listers(t)
           /\ \A a \in Listers(t) \ {feed[g].to} :
                 \E x \in Overtaken(t) : feed[x].kind = "Transfer" /\ feed[x].from = a
<1>1. /\ Prescriptions(feed, t) # {}
      /\ g \in Given(t) /\ \A m \in Given(t) : m <= g
      /\ g \in 1..MaxLength /\ g \in RowsOf(t)
      /\ g \in Prescriptions(feed, t) \cup Transfers(t)
  BY MintedRows, LastExists
<1>2. feed[g].to \in Address
  BY <1>1, HolderIsWallet
<1>3. \A a : Naming(a, t) \subseteq Given(t)
  BY DEF Naming, Given, Typed
<1>4. feed[g].to \in Listers(t)
  <2>1. g \in Naming(feed[g].to, t)
    BY <1>1 DEF Naming, Given, Typed
  <2>. QED BY <1>1, <1>2, <1>3, <2>1, ListerIs
<1>5. ASSUME NEW a \in Listers(t), a # feed[g].to
      PROVE  \E x \in Overtaken(t) : feed[x].kind = "Transfer" /\ feed[x].from = a
  <2>1. PICK n \in Naming(a, t) : feed[n].to = a /\ \A m \in Naming(a, t) : m <= n
    BY ListerIs DEF Listers
  <2>2. /\ n \in Prescriptions(feed, t) \cup Transfers(t) /\ n \in 1..MaxLength
        /\ n < g
    <3>1. n \in Given(t) /\ n # g
      BY <1>3, <1>5, <2>1
    <3>. QED BY <1>1, <3>1, MintedRows
  <2> DEFINE D == {x \in Transfers(t) : n < x /\ x <= g}
  <2>3. D # {}
    <3> SUFFICES ASSUME D = {}
                 PROVE  FALSE
      OBVIOUS
    <3>0. \A x \in Transfers(t) : ~(n < x /\ x < g)
      <4>1. Transfers(t) \subseteq 1..MaxLength
        BY EventsIn DEF Transfers
      <4>. QED BY <1>1, <4>1
    <3>1. feed[LastOf(Receipts(feed, t, g))].to = a
      BY <1>1, <2>1, <2>2, <3>0, HolderStays
    <3>2. g \in Prescriptions(feed, t) /\ \E m \in Prescriptions(feed, t) : m < g
      <4>1. g \notin Transfers(t)
        BY <1>1, <2>2
      <4>2. n \in Transfers(t) => \E m \in Prescriptions(feed, t) : m < n
        BY <1>1, TransferAfterMint
      <4>3. Prescriptions(feed, t) \subseteq 1..MaxLength
        BY EventsIn DEF Prescriptions
      <4>. QED BY <1>1, <2>2, <4>1, <4>2, <4>3
    <3>3. feed[g].to = a
      BY <1>1, <3>1, <3>2, Received, PillIsHeld
    <3>. QED BY <3>3, <1>5
  <2> DEFINE x == FirstOf(D)
  <2>4. x \in D /\ \A y \in D : x <= y
    BY <2>3, EventsIn, FirstExists DEF Transfers
  <2>5. x \in Transfers(t) /\ n < x /\ x <= g /\ x \in 1..MaxLength
    BY <2>4, EventsIn DEF Transfers
  <2>6. \A y \in Transfers(t) : ~(n < y /\ y < x)
    <3> SUFFICES ASSUME NEW y \in Transfers(t), n < y, y < x
                 PROVE  FALSE
      OBVIOUS
    <3>1. y \in 1..MaxLength
      BY EventsIn DEF Transfers
    <3> HIDE DEF x
    <3>2. y < x /\ x <= g => y <= g
      BY <1>1, <2>5, <3>1, BoundsAssumption
    <3>3. y \in D
      BY <2>5, <3>2
    <3>4. x <= y
      BY <2>4, <3>3
    <3>. QED BY <2>5, <3>1, <3>4
  <2> HIDE DEF x, D
  <2>7. feed[x].from = a
    <3>1. feed[LastOf(Receipts(feed, t, x))].to = a
      BY <1>1, <2>1, <2>2, <2>5, <2>6, HolderStays
    <3>. QED BY <1>1, <2>5, <3>1, PillIsHeld
  <2>8. x \notin RowsOf(t)
    <3> SUFFICES ASSUME x \in RowsOf(t)
                 PROVE  FALSE
      OBVIOUS
    <3>1. x \in Naming(a, t)
      BY <2>5, <2>7, MintedRows DEF Naming
    <3>. QED BY <2>1, <2>2, <2>5, <3>1
  <2>9. x \in Overtaken(t)
    <3>1. x # g
      BY <1>1, <2>8
    <3>2. /\ x \in DOMAIN feed /\ feed[x].token = t /\ feed[x].kind = "Transfer"
      BY <2>5 DEF Transfers, EventsOf
    <3>. QED BY <1>1, <2>5, <2>8, <3>1, <3>2 DEF Overtaken, Of, EventsOf, RowsOf
  <2>. QED BY <2>5, <2>7, <2>9 DEF Transfers, EventsOf
<1>. QED BY <1>4, <1>5

(* The page looks at the changes too; they name the same wallet.           *)
LEMMA PageShowsHolder ==
    ASSUME HandlersInv, RowsMatch, NEW t \in Token, Typed({"MINT"}, t) # {},
           NEW g, g = LastOf(Given(t)), Overtaken(t) = {}
    PROVE  GetTokenDetails(t).owner = feed[g].to
<1> DEFINE shown == RowsOf(t) \ Typed({"FAME", "DEFAME"}, t)
           last == LastOf(shown)
<1>1. /\ Prescriptions(feed, t) # {}
      /\ g \in Given(t) /\ \A m \in Given(t) : m <= g
      /\ g \in 1..MaxLength /\ g \in RowsOf(t)
      /\ g \in Prescriptions(feed, t) \cup Transfers(t)
  BY MintedRows, LastExists
<1>2. shown \subseteq 1..MaxLength /\ g \in shown
  BY <1>1, MintedRows DEF Given, Typed
<1>3. last \in shown /\ \A m \in shown : m <= last
  BY <1>2, LastExists
<1>4. GetTokenDetails(t).owner = feed[last].to
  <2>1. Typed({"MINT", "CHANGE_ATTRIBUTE"}, t) # {}
    BY DEF Typed
  <2>2. Latest(shown) = last
    BY DEF Latest, LastOf
  <2>. QED BY <2>1, <2>2 DEF GetTokenDetails
<1>5. last \in 1..MaxLength /\ g <= last /\ last \in RowsOf(t)
  BY <1>2, <1>3
<1>6. CASE last = g
  BY <1>4, <1>6
<1>7. CASE g < last
  <2>1. last \in Prescriptions(feed, t)
    <3>1. last \notin Given(t)
      BY <1>1, <1>5, <1>7
    <3>2. db.event[last] \in EventType
      BY <1>5 DEF HandlersInv, Types, Tables, RowsOf
    <3>3. db.event[last] \notin {"SCALAR_REMOVE", "SCALAR_TRANSFER"}
      <4> SUFFICES ASSUME db.event[last] \in {"SCALAR_REMOVE", "SCALAR_TRANSFER"}
                   PROVE  FALSE
        OBVIOUS
      <4>1. last \in EventsOf(feed, TraitMoves \ {"Transfer"}, t)
        BY <1>5, RowKinds DEF EventsOf, TraitMoves
      <4>. QED BY <1>1, <4>1, PillIsHeld
    <3>4. db.event[last] = "CHANGE_ATTRIBUTE"
      BY <1>3, <1>5, <3>1, <3>2, <3>3 DEF Given, Typed, EventType
    <3>. QED BY <1>5, <3>4, RowKinds DEF Prescriptions, EventsOf
  <2>2. \A x \in Transfers(t) : ~(g < x /\ x < last)
    <3> SUFFICES ASSUME NEW x \in Transfers(t), g < x, x < last
                 PROVE  FALSE
      OBVIOUS
    <3>1. x \notin RowsOf(t)
      <4>1. x \in RowsOf(t) => x \in Given(t)
        BY MintedRows
      <4>2. x \in 1..MaxLength
        BY EventsIn DEF Transfers
      <4>. QED BY <1>1, <4>1, <4>2
    <3>2. x \in Overtaken(t)
      BY <1>5, <3>1 DEF Overtaken, Of, RowsOf, Transfers, EventsOf
    <3>. QED BY <3>2
  <2>3. feed[LastOf(Receipts(feed, t, last))].to = feed[g].to
    BY <1>1, <1>5, <1>7, <2>2, HolderStays
  <2>4. \E m \in Prescriptions(feed, t) : m < last
    <3>1. g \in Transfers(t) => \E m \in Prescriptions(feed, t) : m < g
      BY <1>1, TransferAfterMint
    <3>2. Prescriptions(feed, t) \subseteq 1..MaxLength
      BY EventsIn DEF Prescriptions
    <3>. QED BY <1>1, <1>5, <1>7, <3>1, <3>2
  <2>5. feed[last].to = feed[g].to
    BY <1>1, <1>5, <2>1, <2>3, <2>4, Received, PillIsHeld
  <2>. QED BY <1>4, <2>5
<1>. QED BY <1>1, <1>5, <1>6, <1>7

(* The wallets that list a pill are no more than the transfers that were
   overtaken, and the one that holds it.                                   *)
LEMMA ListersCount ==
    ASSUME HandlersInv, RowsMatch, NEW t \in Token, Typed({"MINT"}, t) # {}
    PROVE  /\ IsFiniteSet(Overtaken(t)) /\ IsFiniteSet(Listers(t))
           /\ Cardinality(Overtaken(t)) \in Nat
           /\ Cardinality(Listers(t)) \in 1..(1 + Cardinality(Overtaken(t)))
<1> DEFINE g == LastOf(Given(t))  b == feed[g].to
           others == Listers(t) \ {b}
           lost == [a \in others |->
                      CHOOSE x \in Overtaken(t) : feed[x].kind = "Transfer" /\ feed[x].from = a]
<1>1. /\ b \in Listers(t)
      /\ \A a \in others : \E x \in Overtaken(t) : feed[x].kind = "Transfer" /\ feed[x].from = a
  BY ListersAre
<1>2. IsFiniteSet(Overtaken(t)) /\ Cardinality(Overtaken(t)) \in Nat
  <2>1. Overtaken(t) \subseteq 1..MaxLength
    BY EventsIn DEF Overtaken, Of
  <2>2. IsFiniteSet(1..MaxLength)
    BY FS_Interval, BoundsAssumption
  <2>. QED BY <2>1, <2>2, FS_Subset, FS_CardinalityType
<1> HIDE DEF b
<1>3. \A a \in others : lost[a] \in Overtaken(t) /\ feed[lost[a]].from = a
  BY <1>1
<1>4. lost \in Injection(others, Overtaken(t))
  <2>1. lost \in [others -> Overtaken(t)]
    BY <1>3
  <2>2. \A a, c \in others : lost[a] = lost[c] => a = c
    BY <1>3
  <2>. QED BY <2>1, <2>2 DEF Injection, IsInjective
<1>5. IsFiniteSet(others) /\ Cardinality(others) <= Cardinality(Overtaken(t))
  BY <1>2, <1>4, FS_Injection
<1>6. Cardinality(others) \in Nat
  BY <1>5, FS_CardinalityType
<1>7. Listers(t) = others \cup {b} /\ b \notin others
  BY <1>1
<1>8. IsFiniteSet(Listers(t)) /\ Cardinality(Listers(t)) = Cardinality(others) + 1
  BY <1>5, <1>7, FS_AddElement
<1>. QED BY <1>2, <1>5, <1>6, <1>8

LEMMA NothingOvertaken ==
    ASSUME HandlersInv, Calm, InOrder, NEW t \in Token
    PROVE  Overtaken(t) = {}
<1> SUFFICES ASSUME NEW n \in Overtaken(t)
             PROVE  FALSE
  OBVIOUS
<1>1. PICK m \in RowsOf(t) : n < m
  BY DEF Overtaken
<1>2. RowsBefore(m)
  BY <1>1 DEF InOrder, RowsOf
<1>3. n \in DOMAIN feed /\ feed[n].kind \in KeepsRow /\ db.event[n] = None
  BY DEF Overtaken, Of, EventsOf, KeepsRow
<1>. QED BY <1>1, <1>2, <1>3 DEF RowsBefore

LEMMA OneOwnerHolds == HandlersInv /\ FeedOrder => OneOwner
<1> SUFFICES ASSUME HandlersInv, FeedOrder, NEW t \in Token, Typed({"MINT"}, t) # {}
             PROVE  /\ Overtaken(t) = {} => Listers(t) = {GetTokenDetails(t).owner}
                    /\ Cardinality(Listers(t)) \in 1..(1 + Cardinality(Overtaken(t)))
                    /\ Calm => Overtaken(t) = {}
  BY DEF OneOwner
<1>1. RowsMatch /\ (Calm => InOrder)
  BY DEF FeedOrder
<1>2. Overtaken(t) = {} => Listers(t) = {GetTokenDetails(t).owner}
  BY <1>1, ListersAre, PageShowsHolder
<1>. QED BY <1>1, <1>2, ListersCount, NothingOvertaken

(* Whatever overtakes whatever: a pill none of whose moves was overtaken is
   listed by one wallet, the one its page names; each further wallet is owed to
   a transfer that was overtaken; and one worker never lets that happen.     *)
THEOREM OneOwnerAlways == Spec => []OneOwner
BY OneOwnerHolds, HandlersInvariant, FeedOrderInvariant, PTL
-------------------------------------------------------------------------------
(* What a pill's page shows when the queue is empty                        *)

LEMMA SettledKeeps ==
    ASSUME HandlersInv, SentInv, InOrder, Settled,
           NEW n \in DOMAIN feed, feed[n].kind \in KeepsRow
    PROVE  db.event[n] # None
<1> DEFINE j == [copy |-> 1, event |-> n]
<1>1. /\ 1 \in 1..scenario.copies /\ 1 \in 1..Copies
      /\ n \in 1..MaxLength /\ n <= Len(feed) /\ Len(feed) \in Nat
  BY FeedType, ScenarioAssumption, BoundsAssumption DEF HandlersInv, Types, feed
<1>2. j \in Job /\ j.copy = 1 /\ j.event = n
  BY <1>1 DEF Job
<1> HIDE DEF j
<1>3. sent[1] = Len(feed)
  BY <1>1 DEF Settled
<1>4. state[j] # "new"
  BY <1>1, <1>2, <1>3 DEF SentInv
<1>5. state[j] \in {"done", "failed"}
  BY <1>2, <1>4 DEF Settled
<1>. QED BY <1>2, <1>5 DEF InOrder

LEMMA SettledTypes ==
    ASSUME HandlersInv, RowsMatch, SentInv, InOrder, Settled, NEW t \in Token
    PROVE  /\ Typed({"MINT", "CHANGE_ATTRIBUTE"}, t) = Prescriptions(feed, t)
           /\ Typed({"TRANSFER"}, t) = Transfers(t)
           /\ Typed({"FAME"}, t) = Of({"PILL_FAME_UPDATED"}, t)
           /\ Typed({"DEFAME"}, t) = Of({"PILL_DEFAME_UPDATED"}, t)
           /\ Typed({"SCALAR_REMOVE"}, t) = Of({"SCALAR_REMOVE"}, t)
<1>1. \A n \in DOMAIN feed : feed[n].token = t /\ feed[n].kind \in KeepsRow => n \in RowsOf(t)
  BY SettledKeeps DEF RowsOf
<1>2. \A n \in RowsOf(t) :
           /\ n \in DOMAIN feed /\ feed[n].token = t
           /\ db.event[n] \in {"MINT", "CHANGE_ATTRIBUTE"} <=> feed[n].kind = "Prescription_Updated"
           /\ db.event[n] = "TRANSFER" <=> feed[n].kind = "Transfer"
           /\ db.event[n] = "FAME" <=> feed[n].kind = "PILL_FAME_UPDATED"
           /\ db.event[n] = "DEFAME" <=> feed[n].kind = "PILL_DEFAME_UPDATED"
           /\ db.event[n] = "SCALAR_REMOVE" <=> feed[n].kind = "SCALAR_REMOVE"
  BY RowKinds
<1>3. Typed({"MINT", "CHANGE_ATTRIBUTE"}, t) = Prescriptions(feed, t)
  BY <1>1, <1>2 DEF Typed, Prescriptions, EventsOf, KeepsRow
<1>4. Typed({"TRANSFER"}, t) = Transfers(t)
  BY <1>1, <1>2 DEF Typed, Transfers, EventsOf, KeepsRow
<1>5. Typed({"FAME"}, t) = Of({"PILL_FAME_UPDATED"}, t)
  BY <1>1, <1>2 DEF Typed, Of, EventsOf, KeepsRow
<1>6. Typed({"DEFAME"}, t) = Of({"PILL_DEFAME_UPDATED"}, t)
  BY <1>1, <1>2 DEF Typed, Of, EventsOf, KeepsRow
<1>7. Typed({"SCALAR_REMOVE"}, t) = Of({"SCALAR_REMOVE"}, t)
  BY <1>1, <1>2 DEF Typed, Of, EventsOf, KeepsRow
<1>. QED BY <1>3, <1>4, <1>5, <1>6, <1>7

LEMMA PageIsChain ==
    ASSUME HandlersInv, RowsMatch, SentInv, InOrder, Settled, NEW t \in Pills(feed)
    PROVE  GetTokenDetails(t) =
            [owner      |-> feed[LastOf(Of({"Prescription_Updated", "Transfer"}, t))].to,
             background |-> LastPrescribed(feed, t).bg,
             ingredient |-> LastPrescribed(feed, t).ing,
             fame       |-> LastAmount("PILL_FAME_UPDATED", t),
             defame     |-> LastAmount("PILL_DEFAME_UPDATED", t)]
<1> DEFINE attributes == Typed({"MINT", "CHANGE_ATTRIBUTE"}, t)
           moves      == RowsOf(t) \ Typed({"FAME", "DEFAME"}, t)
<1>1. t \in Token /\ Prescriptions(feed, t) # {}
  BY DEF Pills
<1>2. attributes = Prescriptions(feed, t)
  BY <1>1, SettledTypes
<1>3. moves = Of({"Prescription_Updated", "Transfer"}, t)
  <2>1. \A n : n \in moves => n \in Of({"Prescription_Updated", "Transfer"}, t)
    <3> SUFFICES ASSUME NEW n \in moves
                 PROVE  n \in Of({"Prescription_Updated", "Transfer"}, t)
      OBVIOUS
    <3>1. n \in RowsOf(t) /\ n \in 1..MaxLength /\ n \in DOMAIN feed /\ feed[n].token = t
      BY <1>1, RowKinds
    <3>2. db.event[n] \in EventType \ {"FAME", "DEFAME"}
      BY <3>1 DEF HandlersInv, Types, Tables, RowsOf, Typed
    <3>3. feed[n].kind \in {"Prescription_Updated", "Transfer", "SCALAR_REMOVE", "SCALAR_TRANSFER"}
      BY <1>1, <3>1, <3>2, RowKinds DEF EventType
    <3>4. n \notin EventsOf(feed, TraitMoves \ {"Transfer"}, t)
      BY <1>1, PillIsHeld
    <3>. QED BY <3>1, <3>3, <3>4 DEF Of, EventsOf, TraitMoves
  <2>2. \A n \in Of({"Prescription_Updated", "Transfer"}, t) : n \in moves
    <3> SUFFICES ASSUME NEW n \in Of({"Prescription_Updated", "Transfer"}, t)
                 PROVE  n \in moves
      OBVIOUS
    <3>1. n \in RowsOf(t)
      BY SettledKeeps DEF Of, EventsOf, RowsOf, KeepsRow
    <3>. QED BY <1>1, <3>1, RowKinds DEF Of, EventsOf, Typed
  <2>. QED BY <2>1, <2>2
<1>4. \A rows : Latest(rows) = LastOf(rows)
  BY DEF Latest, LastOf
<1>5. Amount("FAME", t) = LastAmount("PILL_FAME_UPDATED", t)
  BY <1>1, <1>4, SettledTypes DEF Amount, LastAmount, LastValue
<1>6. Amount("DEFAME", t) = LastAmount("PILL_DEFAME_UPDATED", t)
  BY <1>1, <1>4, SettledTypes DEF Amount, LastAmount, LastValue
<1>7. /\ attributes # {}
      /\ feed[Latest(moves)].to = feed[LastOf(Of({"Prescription_Updated", "Transfer"}, t))].to
      /\ feed[Latest(attributes)] = LastPrescribed(feed, t)
  BY <1>1, <1>2, <1>3, <1>4 DEF LastPrescribed
<1>. QED BY <1>5, <1>6, <1>7 DEF GetTokenDetails

(* One worker and no fault: once the queue is empty, the page of every pill
   shows the last receiver, attributes and amounts of the chain.            *)
THEOREM PillsAreChain == Spec => []PillIsChain
<1>1. HandlersInv /\ FeedOrder => PillIsChain
  BY PageIsChain DEF FeedOrder, PillIsChain
<1>. QED BY <1>1, HandlersInvariant, FeedOrderInvariant, PTL
-------------------------------------------------------------------------------
(* The traits when the queue is empty                                      *)

Motions == {"Transfer", "SCALAR_REMOVE", "SCALAR_TRANSFER"}
MovesOf(t) == EventsOf(feed, Motions, t)
AllMoves(t) == EventsOf(feed, TraitMoves, t)

CalmEnd == HandlersInv /\ FeedOrder /\ Calm /\ CalmInv /\ Settled

(* Every move of a trait but a redemption has left its row.                *)
LEMMA TraitRows ==
    ASSUME CalmEnd, NEW t \in Token
    PROVE  /\ Typed(TraitEvents, t) = MovesOf(t)
           /\ \A n \in MovesOf(t) : /\ db.event[n] = "SCALAR_TRANSFER" <=> feed[n].kind = "SCALAR_TRANSFER"
                                    /\ db.event[n] = "SCALAR_REMOVE" <=> feed[n].kind = "SCALAR_REMOVE"
                                    /\ db.event[n] = "TRANSFER" <=> feed[n].kind = "Transfer"
           /\ Typed({"MINT"}, t) # {} <=> Prescriptions(feed, t) # {}
<1>1. /\ HandlersInv /\ RowsMatch /\ SentInv /\ CalmInv /\ Settled
      /\ Consistent(feed, stage, db, asked)
      /\ DOMAIN feed \subseteq 1..MaxLength
  BY FeedType DEF CalmEnd, FeedOrder, CalmInv, HandlersInv, Types
<1>2. \A n \in DOMAIN feed : stage[n] = "done"
  BY <1>1, AllHandled
<1>3. \A n \in DOMAIN feed :
         /\ db.event[n] # None <=> feed[n].kind \in KeepsRow \cup {"SCALAR_TRANSFER"}
         /\ db.event[n] = "MINT" <=> n \in MintsOf(feed) /\ db.event[n] # None
  <2>1. "done" \notin NotYet
    BY DEF NotYet, Early, Finding
  <2>. QED BY <1>1, <1>2, <2>1 DEF Consistent, Rowed
<1>4. \A n \in RowsOf(t) :
         /\ db.event[n] \in {"MINT", "CHANGE_ATTRIBUTE"} <=> feed[n].kind = "Prescription_Updated"
         /\ db.event[n] = "TRANSFER" <=> feed[n].kind = "Transfer"
         /\ db.event[n] = "SCALAR_REMOVE" <=> feed[n].kind = "SCALAR_REMOVE"
         /\ db.event[n] = "SCALAR_TRANSFER" <=> feed[n].kind = "SCALAR_TRANSFER"
  BY <1>1, RowKinds
<1>5. \A n : n \in MovesOf(t) => n \in RowsOf(t)
  BY <1>3 DEF MovesOf, Motions, EventsOf, RowsOf, KeepsRow
<1>6. \A n : n \in Typed(TraitEvents, t) <=> n \in MovesOf(t)
  <2>1. \A n \in Typed(TraitEvents, t) : n \in RowsOf(t) /\ db.event[n] \in TraitEvents
    BY DEF Typed
  <2>2. \A n \in Typed(TraitEvents, t) : n \in MovesOf(t)
    BY <1>4, <2>1 DEF TraitEvents, MovesOf, Motions, EventsOf, RowsOf
  <2>3. \A n \in MovesOf(t) : n \in Typed(TraitEvents, t)
    BY <1>4, <1>5 DEF TraitEvents, MovesOf, Motions, EventsOf, Typed
  <2>. QED BY <2>2, <2>3
<1>7. ASSUME Typed({"MINT"}, t) # {}
      PROVE  Prescriptions(feed, t) # {}
  BY <1>1, <1>7, MintedRows
<1>8. ASSUME Prescriptions(feed, t) # {}
      PROVE  Typed({"MINT"}, t) # {}
  <2> DEFINE n == FirstOf(Prescriptions(feed, t))
  <2>1. n \in MintsOf(feed)
    BY <1>8 DEF MintsOf, Pills
  <2>2. n \in Prescriptions(feed, t)
    BY <1>1, <1>8, EventsIn, FirstExists DEF Prescriptions
  <2> HIDE DEF n
  <2>3. n \in DOMAIN feed /\ feed[n].token = t /\ feed[n].kind = "Prescription_Updated"
    BY <2>2 DEF Prescriptions, EventsOf
  <2>4. db.event[n] = "MINT" /\ db.event[n] # None
    BY <1>3, <2>1, <2>3 DEF KeepsRow
  <2>. QED BY <2>3, <2>4 DEF Typed, RowsOf
<1>. QED BY <1>4, <1>5, <1>6, <1>7, <1>8

(* The moves of a trait, in the order of the chain.                        *)
LEMMA TraitIsHeld ==
    ASSUME CalmEnd, NEW t \in Token
    PROVE  /\ AllMoves(t) \subseteq 1..MaxLength /\ MovesOf(t) \subseteq AllMoves(t)
           /\ \A n \in AllMoves(t) : n \notin MovesOf(t) =>
                 \A m \in AllMoves(t) : n <= m
           /\ \A n \in AllMoves(t) : HolderAfter(feed, n - 1, t) # None =>
                 /\ feed[n].kind \in {"Transfer", "SCALAR_TRANSFER"}
                 /\ feed[n].from = HolderAfter(feed, n - 1, t)
           /\ \A n \in AllMoves(t) : feed[n].kind # "SCALAR_TRANSFER" => feed[n].to \in Address
<1>1. scenario \in Scenarios /\ DOMAIN feed \subseteq 1..MaxLength /\ IsCalm(scenario)
  BY FeedType DEF CalmEnd, HandlersInv, Types, Calm
<1>2. TraitsHeld(feed)
  BY <1>1, ChainAssumption DEF feed
<1>3. \A n \in DOMAIN feed : feed[n].kind = "TRAIT_REDEMPTION" =>
         \A m \in EventsOf(feed, TraitMoves, feed[n].token) : n <= m
  BY <1>2 DEF TraitsHeld
<1>4. \A n \in AllMoves(t) : HolderAfter(feed, n - 1, t) # None =>
                 /\ feed[n].kind \in {"Transfer", "SCALAR_TRANSFER"}
                 /\ feed[n].from = HolderAfter(feed, n - 1, t)
  BY <1>2 DEF TraitsHeld, AllMoves
<1>5. AllMoves(t) \subseteq 1..MaxLength /\ MovesOf(t) \subseteq AllMoves(t)
  BY <1>1 DEF AllMoves, MovesOf, EventsOf, Motions, TraitMoves
<1>6. \A n \in AllMoves(t) : n \notin MovesOf(t) => \A m \in AllMoves(t) : n <= m
  <2>1. \A n \in AllMoves(t) : n \notin MovesOf(t) =>
           n \in DOMAIN feed /\ feed[n].kind = "TRAIT_REDEMPTION" /\ feed[n].token = t
    BY DEF AllMoves, MovesOf, EventsOf, Motions, TraitMoves
  <2>. QED BY <1>3, <2>1 DEF AllMoves
<1>7. \A n \in AllMoves(t) : feed[n].kind # "SCALAR_TRANSFER" => feed[n].to \in Address
  <2>1. \A n \in AllMoves(t) : feed[n] \in ChainEvent /\ feed[n].kind \in TraitMoves
    BY <1>1, FeedType DEF AllMoves, EventsOf
  <2>. QED BY <2>1, EventFields DEF TraitMoves
<1>. QED BY <1>4, <1>5, <1>6, <1>7

(* A trait that a wallet received is moved next from that wallet.          *)
LEMMA NextMove ==
    ASSUME CalmEnd, NEW t \in Token, NEW k \in AllMoves(t), NEW m \in AllMoves(t),
           k < m, feed[k].kind # "SCALAR_TRANSFER", \A x \in AllMoves(t) : ~(k < x /\ x < m)
    PROVE  feed[m].kind \in {"Transfer", "SCALAR_TRANSFER"} /\ feed[m].from = feed[k].to
<1> DEFINE S == {n \in AllMoves(t) : n <= m - 1}
<1>1. AllMoves(t) \subseteq 1..MaxLength /\ feed[k].to \in Address
  BY TraitIsHeld
<1>2. k \in S /\ S \subseteq 1..MaxLength /\ \A x \in S : x <= k
  BY <1>1
<1>3. LastOf(S) = k /\ S # {}
  BY <1>2, LastIs
<1>4. HolderAfter(feed, m - 1, t) = feed[k].to
  BY <1>3 DEF HolderAfter, AllMoves
<1>5. feed[k].to # None
  BY <1>1, NoneAssumption
<1>. QED BY <1>4, <1>5, TraitIsHeld

(* Where the tables and the chain have a trait that is no pill.            *)
LEMMA BackpackHolds ==
    ASSUME CalmEnd, NEW t \in Token
    PROVE  db.backpack[t] =
              IF \/ Prescriptions(feed, t) # {} \/ AllMoves(t) = {}
                 \/ feed[LastOf(AllMoves(t))].kind = "SCALAR_TRANSFER"
              THEN None ELSE feed[LastOf(AllMoves(t))].to
<1>1. /\ \A n \in DOMAIN feed : stage[n] = "done"
      /\ Consistent(feed, stage, db, asked)
  BY AllHandled DEF CalmEnd, FeedOrder, CalmInv
<1>2. db.backpack[t] = HolderAt(feed, stage, t)
  BY <1>1 DEF Consistent
<1>3. MovesDone(feed, stage, t) = AllMoves(t)
  BY <1>1 DEF MovesDone, AllMoves, EventsOf, Moved
<1>. QED BY <1>2, <1>3 DEF HolderAt, HolderBy

(* The wallet's rows of a trait, and the last of them.                     *)
Names(a, t) ==
    {n \in MovesOf(t) : \/ feed[n].to = a
                        \/ feed[n].kind # "SCALAR_REMOVE" /\ feed[n].from = a}

LEMMA FindsTrait ==
    ASSUME CalmEnd, NEW a \in Address, NEW t \in Token
    PROVE  t \in FindTraitTokensByOwner(a) <=>
              /\ Prescriptions(feed, t) = {} /\ Names(a, t) # {}
              /\ feed[LastOf(Names(a, t))].kind # "SCALAR_TRANSFER"
              /\ feed[LastOf(Names(a, t))].to = a
<1> DEFINE rows == {n \in Typed(TraitEvents, t) :
                        \/ feed[n].to = a
                        \/ db.event[n] # "SCALAR_REMOVE" /\ feed[n].from = a}
<1>1. rows = Names(a, t) /\ Latest(rows) = LastOf(Names(a, t))
  <2>1. rows = Names(a, t)
    BY TraitRows DEF Names
  <2>. QED BY <2>1 DEF Latest, LastOf
<1> DEFINE l == LastOf(Names(a, t))
<1>2. Names(a, t) # {} => l \in Names(a, t) /\ l \in MovesOf(t)
  <2>1. Names(a, t) \subseteq 1..MaxLength
    BY TraitIsHeld DEF Names
  <2>. QED BY <2>1, LastExists DEF Names
<1>3. t \in FindTraitTokensByOwner(a) <=>
         /\ rows # {}
         /\ db.event[Latest(rows)] \in {"SCALAR_REMOVE", "TRANSFER"}
         /\ feed[Latest(rows)].to = a
         /\ db.event[Latest(rows)] = "TRANSFER" => Typed({"MINT"}, t) = {}
  BY DEF FindTraitTokensByOwner
<1> HIDE DEF rows, l
<1>4. l \in MovesOf(t) =>
         /\ feed[l].kind \in Motions
         /\ db.event[l] \in {"SCALAR_REMOVE", "TRANSFER"} <=> feed[l].kind # "SCALAR_TRANSFER"
         /\ db.event[l] = "TRANSFER" <=> feed[l].kind = "Transfer"
  <2>1. l \in MovesOf(t) => feed[l].kind \in Motions
    BY DEF MovesOf, EventsOf
  <2>. QED BY <2>1, TraitRows DEF Motions
<1>5. l \in MovesOf(t) /\ Prescriptions(feed, t) # {} => feed[l].kind = "Transfer"
  <2>1. Prescriptions(feed, t) # {} => EventsOf(feed, TraitMoves \ {"Transfer"}, t) = {}
    BY PillIsHeld DEF CalmEnd
  <2>. QED BY <2>1 DEF MovesOf, EventsOf, Motions, TraitMoves
<1>6. Typed({"MINT"}, t) # {} <=> Prescriptions(feed, t) # {}
  BY TraitRows
<1>. QED BY <1>1, <1>2, <1>3, <1>4, <1>5, <1>6 DEF l

(* The wallet's last row is the last move of all when the trait stayed.     *)
LEMMA LastNamed ==
    ASSUME CalmEnd, NEW a \in Address, NEW t \in Token, Names(a, t) # {},
           NEW l, l = LastOf(Names(a, t)), feed[l].kind # "SCALAR_TRANSFER", feed[l].to = a
    PROVE  AllMoves(t) # {} /\ LastOf(AllMoves(t)) = l /\ MovesOf(t) # {} /\ LastOf(MovesOf(t)) = l
<1>1. AllMoves(t) \subseteq 1..MaxLength /\ MovesOf(t) \subseteq AllMoves(t)
  BY TraitIsHeld
<1>2. l \in Names(a, t) /\ \A m \in Names(a, t) : m <= l
  BY <1>1, LastExists DEF Names
<1>3. l \in MovesOf(t) /\ l \in AllMoves(t) /\ l \in 1..MaxLength
  BY <1>1, <1>2 DEF Names
<1> DEFINE later == {m \in AllMoves(t) : l < m}
<1>4. later = {}
  <2> SUFFICES ASSUME later # {}
               PROVE  FALSE
    OBVIOUS
  <2> DEFINE m == FirstOf(later)
  <2>1. m \in later /\ \A x \in later : m <= x
    BY <1>1, FirstExists
  <2>2. m \in AllMoves(t) /\ l < m /\ m \in 1..MaxLength
    BY <1>1, <2>1
  <2>3. \A x \in AllMoves(t) : ~(l < x /\ x < m)
    BY <1>1, <2>1, <2>2
  <2> HIDE DEF m, later
  <2>4. feed[m].kind \in {"Transfer", "SCALAR_TRANSFER"} /\ feed[m].from = a
    BY <1>3, <2>2, <2>3, NextMove
  <2>5. m \in Names(a, t)
    <3>1. m \in MovesOf(t)
      BY <2>2, <2>4 DEF MovesOf, AllMoves, EventsOf, Motions
    <3>. QED BY <2>4, <3>1 DEF Names
  <2>. QED BY <1>2, <1>3, <2>2, <2>5
<1>5. \A m \in AllMoves(t) : m <= l
  BY <1>1, <1>3, <1>4
<1>6. LastOf(AllMoves(t)) = l
  BY <1>1, <1>3, <1>5, LastIs
<1>7. LastOf(MovesOf(t)) = l
  BY <1>1, <1>3, <1>5, LastIs
<1>. QED BY <1>3, <1>6, <1>7

LEMMA FoundIsHeld ==
    ASSUME CalmEnd, NEW a \in Address, NEW t \in FindTraitTokensByOwner(a)
    PROVE  /\ t \in Token /\ Typed(TraitEvents, t) # {} /\ db.backpack[t] = a
           /\ TraitOwner(t) = a /\ EquippedById(t) = None
<1>1. t \in Token
  BY DEF FindTraitTokensByOwner
<1> DEFINE l == LastOf(Names(a, t))
<1>2. /\ Prescriptions(feed, t) = {} /\ Names(a, t) # {}
      /\ feed[l].kind # "SCALAR_TRANSFER" /\ feed[l].to = a
  BY <1>1, FindsTrait
<1>3. /\ AllMoves(t) # {} /\ LastOf(AllMoves(t)) = l
      /\ MovesOf(t) # {} /\ LastOf(MovesOf(t)) = l
  BY <1>1, <1>2, LastNamed
<1>4. l \in MovesOf(t)
  BY <1>1, <1>3, TraitIsHeld, LastExists
<1> HIDE DEF l
<1>5. db.backpack[t] = a
  BY <1>1, <1>2, <1>3, BackpackHolds
<1>6. /\ Typed(TraitEvents, t) = MovesOf(t) /\ Latest(Typed(TraitEvents, t)) = l
      /\ db.event[l] # "SCALAR_TRANSFER"
  <2>1. Typed(TraitEvents, t) = MovesOf(t) /\ db.event[l] # "SCALAR_TRANSFER"
    BY <1>1, <1>2, <1>4, TraitRows
  <2>. QED BY <1>3, <2>1 DEF Latest, LastOf
<1>7. EquippedById(t) = None
  BY <1>6 DEF EquippedById
<1>8. TraitOwner(t) = a
  BY <1>2, <1>3, <1>6, <1>7 DEF TraitOwner
<1>. QED BY <1>1, <1>3, <1>5, <1>6, <1>7, <1>8

LEMMA HeldIsFound ==
    ASSUME CalmEnd, NEW a \in Address, NEW t \in Token,
           db.backpack[t] = a, Typed(TraitEvents, t) # {}
    PROVE  t \in FindTraitTokensByOwner(a)
<1> DEFINE l == LastOf(AllMoves(t))
<1>1. a # None
  BY NoneAssumption
<1>2. /\ Prescriptions(feed, t) = {} /\ AllMoves(t) # {}
      /\ feed[l].kind # "SCALAR_TRANSFER" /\ feed[l].to = a
  BY <1>1, BackpackHolds
<1>3. MovesOf(t) # {}
  BY TraitRows
<1>4. /\ AllMoves(t) \subseteq 1..MaxLength /\ MovesOf(t) \subseteq AllMoves(t)
      /\ \A n \in AllMoves(t) : n \notin MovesOf(t) => \A m \in AllMoves(t) : n <= m
  BY TraitIsHeld
<1>5. l \in AllMoves(t) /\ \A m \in AllMoves(t) : m <= l
  BY <1>2, <1>4, LastExists
<1> HIDE DEF l
<1>6. l \in MovesOf(t)
  <2> SUFFICES ASSUME l \notin MovesOf(t)
               PROVE  FALSE
    OBVIOUS
  <2>1. PICK m \in MovesOf(t) : TRUE
    BY <1>3
  <2>2. l <= m /\ m <= l /\ m \in 1..MaxLength /\ l \in 1..MaxLength
    BY <1>4, <1>5, <2>1
  <2>. QED BY <2>1, <2>2
<1>7. l \in Names(a, t) /\ \A m \in Names(a, t) : m <= l
  BY <1>2, <1>4, <1>5, <1>6 DEF Names
<1>8. LastOf(Names(a, t)) = l
  <2>1. Names(a, t) \subseteq 1..MaxLength
    BY <1>4 DEF Names
  <2>. QED BY <1>7, <2>1, LastIs
<1>. QED BY <1>2, <1>7, <1>8, FindsTrait

(* One worker and no fault: once the queue is empty, the traits the rows give a
   wallet are those its backpack holds, each page names the wallet, and none of
   them is shown as worn.                                                   *)
THEOREM TraitListsAreOne == Spec => []TraitListsAgree
<1>1. HandlersInv /\ FeedOrder /\ (Calm => CalmInv) => TraitListsAgree
  <2> SUFFICES ASSUME CalmEnd, NEW a \in Address
               PROVE  /\ FindTraitTokensByOwner(a) =
                            {t \in FindBackPackTokens(a) : Typed(TraitEvents, t) # {}}
                      /\ \A t \in FindTraitTokensByOwner(a) : TraitOwner(t) = a
                      /\ FindTraitTokensByOwner(a)
                            \cap {t \in Token : EquippedById(t) # None} = {}
    BY DEF TraitListsAgree, CalmEnd
  <2>1. \A t \in FindTraitTokensByOwner(a) :
           /\ t \in Token /\ Typed(TraitEvents, t) # {} /\ db.backpack[t] = a
           /\ TraitOwner(t) = a /\ EquippedById(t) = None
    BY FoundIsHeld
  <2>2. \A t \in Token : db.backpack[t] = a /\ Typed(TraitEvents, t) # {} =>
           t \in FindTraitTokensByOwner(a)
    BY HeldIsFound
  <2>3. FindTraitTokensByOwner(a) = {t \in FindBackPackTokens(a) : Typed(TraitEvents, t) # {}}
    BY <2>1, <2>2 DEF FindBackPackTokens
  <2>. QED BY <2>1, <2>3
<1>. QED BY <1>1, HandlersInvariant, FeedOrderInvariant, CalmInvariant, PTL

(* What the pages of a wallet's pills show as worn is what the chain says.  *)
LEMMA WornIs ==
    ASSUME CalmEnd, NEW a \in Address, NEW t \in WornByPillsOf(a)
    PROVE  \E p \in FindTokenIdsOwnedByUser(a) :
              p \in Token /\ t \in Token /\ t \in WornOnChain(p) /\ GetTokenDetails(p).owner = a
<1>1. OneOwner /\ HandlersInv /\ RowsMatch /\ SentInv /\ InOrder /\ Settled /\ Calm
  BY OneOwnerHolds DEF CalmEnd, FeedOrder
<1> DEFINE pair(p) == {GetTokenDetails(p).ingredient, GetTokenDetails(p).background}
           pairs == {pair(p) : p \in FindTokenIdsOwnedByUser(a)}
<1>2. t \in UNION pairs /\ t # None
  BY DEF WornByPillsOf
<1>3. PICK p \in FindTokenIdsOwnedByUser(a) : t \in pair(p)
  <2>1. PICK s \in pairs : t \in s
    BY <1>2
  <2>. QED BY <2>1
<1>4. p \in Token /\ Owns(a, p)
  BY DEF FindTokenIdsOwnedByUser
<1>5. Typed({"MINT"}, p) # {}
  BY <1>4 DEF Owns, Typed
<1>6. p \in Pills(feed)
  BY <1>1, <1>4, <1>5, MintedRows DEF Pills
<1>7. /\ GetTokenDetails(p).background = LastPrescribed(feed, p).bg
      /\ GetTokenDetails(p).ingredient = LastPrescribed(feed, p).ing
  BY <1>1, <1>6, PageIsChain
<1>8. t \in WornOnChain(p)
  BY <1>2, <1>3, <1>7 DEF WornOnChain, Traits
<1>9. GetTokenDetails(p).owner = a
  <2>1. Listers(p) = {GetTokenDetails(p).owner}
    BY <1>1, <1>4, <1>5, NothingOvertaken DEF OneOwner
  <2>. QED BY <1>3, <2>1 DEF Listers
<1>10. t \in Token
  <2> DEFINE n == LastOf(Prescriptions(feed, p))
  <2>1. Prescriptions(feed, p) # {}
    BY <1>6 DEF Pills
  <2>2. n \in Prescriptions(feed, p)
    BY <1>1, <2>1, EventsIn, LastExists DEF Prescriptions
  <2> HIDE DEF n
  <2>3. feed[n] \in ChainEvent
    BY <1>1, <2>2, FeedType DEF HandlersInv, Types, Prescriptions, EventsOf
  <2>4. feed[n].bg \in Token \cup {None} /\ feed[n].ing \in Token \cup {None}
    BY <2>3, EventFields
  <2>. QED BY <1>2, <1>8, <2>4 DEF WornOnChain, Traits, LastPrescribed, n
<1>. QED BY <1>3, <1>4, <1>8, <1>9, <1>10

LEMMA PutOnIs ==
    ASSUME CalmEnd, NEW p \in Token, NEW t \in Token, PutOnOnChain(p, t)
    PROVE  /\ Typed(TraitEvents, t) # {} /\ EquippedById(t) = p
           /\ TraitOwner(t) = GetTokenDetails(p).owner
<1> DEFINE l == LastOf(MovesOf(t))
<1>1. MovesOf(t) # {} /\ feed[l].kind = "SCALAR_TRANSFER" /\ feed[l].to = p
  BY DEF PutOnOnChain, Of, MovesOf, Motions
<1>2. l \in MovesOf(t)
  BY <1>1, TraitIsHeld, LastExists
<1>3. Typed(TraitEvents, t) = MovesOf(t) /\ db.event[l] = "SCALAR_TRANSFER"
  BY <1>1, <1>2, TraitRows
<1>4. Latest(Typed(TraitEvents, t)) = l
  BY <1>3 DEF Latest, LastOf
<1> HIDE DEF l
<1>5. EquippedById(t) = p
  BY <1>1, <1>3, <1>4 DEF EquippedById
<1>6. TraitOwner(t) = GetTokenDetails(p).owner
  BY <1>1, <1>3, <1>5, NoneAssumption DEF TraitOwner
<1>. QED BY <1>1, <1>3, <1>5, <1>6

(* One worker and no fault: once the queue is empty, a worn trait is shown as
   the property of whoever holds the pill it was put on, however often the pill
   changed hands since, and every redeemed trait as claimed.                *)
THEOREM TraitsAreWithPill == Spec => []TraitsFollowPill
<1>1. HandlersInv /\ FeedOrder /\ (Calm => CalmInv) => TraitsFollowPill
  <2> SUFFICES ASSUME CalmEnd
               PROVE  /\ \A a \in Address :
                            (\A p \in FindTokenIdsOwnedByUser(a), t \in Token :
                                t \in WornOnChain(p) => PutOnOnChain(p, t)) =>
                            /\ FindEquippedAnswers(a)
                            /\ \A t \in WornByPillsOf(a) :
                                  TraitOwner(t) = a /\ EquippedById(t) \in FindTokenIdsOwnedByUser(a)
                      /\ \A n \in DOMAIN feed :
                            feed[n].kind = "TRAIT_REDEMPTION" => CheckIsClaimed(feed[n].value)
    BY DEF TraitsFollowPill, CalmEnd
  <2>1. ASSUME NEW a \in Address,
               \A p \in FindTokenIdsOwnedByUser(a), t \in Token :
                  t \in WornOnChain(p) => PutOnOnChain(p, t),
               NEW t \in WornByPillsOf(a)
        PROVE  /\ Typed(TraitEvents, t) # {} /\ TraitOwner(t) = a
               /\ EquippedById(t) \in FindTokenIdsOwnedByUser(a)
    <3>1. PICK p \in FindTokenIdsOwnedByUser(a) :
             p \in Token /\ t \in Token /\ t \in WornOnChain(p) /\ GetTokenDetails(p).owner = a
      BY <2>1, WornIs
    <3>2. PutOnOnChain(p, t)
      BY <2>1, <3>1
    <3>. QED BY <3>1, <3>2, PutOnIs
  <2>2. ASSUME NEW n \in DOMAIN feed, feed[n].kind = "TRAIT_REDEMPTION"
        PROVE  CheckIsClaimed(feed[n].value)
    <3>1. stage[n] = "done" /\ Consistent(feed, stage, db, asked)
      BY AllHandled DEF CalmEnd, FeedOrder, CalmInv
    <3> DEFINE r == <<feed[n].value, feed[n].token>>
    <3>2. r \in Claims(feed, n, stage[n])
      BY <2>2, <3>1 DEF Claims, NotYet, Early, Finding
    <3>3. r \in db.redemption
      BY <3>1, <3>2 DEF Consistent
    <3>. QED BY <3>3 DEF CheckIsClaimed
  <2>. QED BY <2>1, <2>2 DEF FindEquippedAnswers
<1>. QED BY <1>1, HandlersInvariant, FeedOrderInvariant, CalmInvariant, PTL
-------------------------------------------------------------------------------
(* Sums over a finite set, as MapThenSumSet computes them: it picks the members
   one after the other.  What is chosen among sets is a smallest one.      *)
LEMMA SmallestSet ==
    ASSUME NEW S, IsFiniteSet(S), NEW Bad, Bad \subseteq SUBSET S, Bad # {}
    PROVE  \E s \in Bad : \A t \in Bad : t \subseteq s => t = s
<1>1. IsWellFoundedOn(StrictSubsetOrdering(S), FiniteSubsetsOf(S))
  BY FS_StrictSubsetOrderingWellFounded
<1>2. Bad \subseteq FiniteSubsetsOf(S)
  BY FS_Subset DEF FiniteSubsetsOf
<1>3. PICK s \in Bad : \A t \in Bad : ~(<<t, s>> \in StrictSubsetOrdering(S))
  BY <1>1, <1>2, WFMin
<1>. QED BY <1>3 DEF StrictSubsetOrdering

Pick(s) == CHOOSE x \in s : TRUE
IntOn(h, S) == \A x \in S : h[x] \in Int

(* g[s] is the sum of h over s, for the subsets s of S.                    *)
Adds(g, h, S) ==
    \A s \in SUBSET S : g[s] = IF s = {} THEN 0 ELSE h[Pick(s)] + g[s \ {Pick(s)}]
SumsOn(g, h, S) == g \in [SUBSET S -> Int] /\ Adds(g, h, S)

TakesAny(g, h, S) == \A s \in SUBSET S : \A y \in s : g[s] = h[y] + g[s \ {y}]

LEMMA PickIs ==
    ASSUME NEW s, s # {}
    PROVE  Pick(s) \in s
BY DEF Pick

(* The sums of ever larger sets exist.                                     *)
LEMMA SumExists ==
    ASSUME NEW S, IsFiniteSet(S), NEW h, IntOn(h, S)
    PROVE  \E g : SumsOn(g, h, S)
<1> DEFINE Good(g, n) == \A s \in SUBSET S : Cardinality(s) <= n =>
                            g[s] = IF s = {} THEN 0 ELSE h[Pick(s)] + g[s \ {Pick(s)}]
           Bad == {n \in Nat : ~\E g \in [SUBSET S -> Int] : Good(g, n)}
<1>1. \A s \in SUBSET S : IsFiniteSet(s) /\ Cardinality(s) \in Nat
                          /\ Cardinality(s) <= Cardinality(S)
  BY FS_Subset, FS_CardinalityType
<1>2. ASSUME Bad # {}
      PROVE  FALSE
  <2>1. PICK n \in Bad : \A m \in Bad : ~(<<m, n>> \in OpToRel(<, Nat))
    <3>1. Bad \subseteq Nat
      OBVIOUS
    <3> HIDE DEF Bad
    <3>. QED BY <1>2, <3>1, NatLessThanWellFounded, WFMin
  <2>2. n \in Nat /\ ~\E g \in [SUBSET S -> Int] : Good(g, n)
    OBVIOUS
  <2>3. CASE n = 0
    <3> DEFINE z == [s \in SUBSET S |-> 0]
    <3>1. z \in [SUBSET S -> Int]
      OBVIOUS
    <3>2. \A s \in SUBSET S : Cardinality(s) <= 0 => s = {}
      BY <1>1, FS_EmptySet
    <3>3. Good(z, n)
      BY <2>3, <3>2
    <3>. QED BY <2>2, <3>1, <3>3
  <2>4. CASE n # 0
    <3>1. n - 1 \in Nat /\ n - 1 < n
      BY <2>2, <2>4
    <3>2. n - 1 \notin Bad
      BY <2>1, <2>2, <3>1 DEF OpToRel
    <3>3. PICK g \in [SUBSET S -> Int] : Good(g, n - 1)
      BY <3>1, <3>2
    <3> DEFINE f == [s \in SUBSET S |->
                       IF Cardinality(s) < n THEN g[s]
                       ELSE IF s = {} THEN 0 ELSE h[Pick(s)] + g[s \ {Pick(s)}]]
    <3>4. \A s \in SUBSET S : s # {} => /\ Pick(s) \in S /\ s \ {Pick(s)} \in SUBSET S
                                        /\ Cardinality(s \ {Pick(s)}) = Cardinality(s) - 1
      BY <1>1, PickIs, FS_RemoveElement
    <3>5. f \in [SUBSET S -> Int]
      BY <3>4 DEF IntOn
    <3>6. Good(f, n)
      <4> SUFFICES ASSUME NEW s \in SUBSET S, Cardinality(s) <= n
                   PROVE  f[s] = IF s = {} THEN 0 ELSE h[Pick(s)] + f[s \ {Pick(s)}]
        OBVIOUS
      <4>1. CASE s = {}
        <5>1. Cardinality(s) = 0
          BY <4>1, FS_EmptySet
        <5>2. g[s] = 0
          BY <3>1, <3>3, <4>1, <5>1
        <5>. QED BY <4>1, <5>2
      <4>2. CASE s # {}
        <5> DEFINE r == s \ {Pick(s)}
        <5>1. r \in SUBSET S /\ Cardinality(r) = Cardinality(s) - 1 /\ Cardinality(s) \in Nat
          BY <1>1, <3>4, <4>2
        <5>2. f[r] = g[r]
          <6>1. Cardinality(r) < n
            BY <2>2, <5>1
          <6>. QED BY <5>1, <6>1
        <5>3. f[s] = h[Pick(s)] + g[r]
          <6>1. CASE Cardinality(s) < n
            <7>1. Cardinality(s) <= n - 1
              BY <2>2, <5>1, <6>1
            <7>. QED BY <3>3, <4>2, <6>1, <7>1
          <6>2. CASE ~(Cardinality(s) < n)
            BY <4>2, <6>2
          <6>. QED BY <6>1, <6>2
        <5>. QED BY <4>2, <5>2, <5>3
      <4>. QED BY <4>1, <4>2
    <3>. QED BY <2>2, <3>5, <3>6
  <2>. QED BY <2>3, <2>4
<1>3. Cardinality(S) \in Nat
  BY FS_CardinalityType
<1>4. PICK g \in [SUBSET S -> Int] : Good(g, Cardinality(S))
  BY <1>2, <1>3
<1>5. SumsOn(g, h, S)
  BY <1>1, <1>4 DEF SumsOn, Adds
<1>. QED BY <1>5

(* There is only one.                                                      *)
LEMMA SumUnique ==
    ASSUME NEW S, IsFiniteSet(S), NEW h, NEW g, NEW f,
           Adds(g, h, S), Adds(f, h, S)
    PROVE  \A s \in SUBSET S : g[s] = f[s]
<1> DEFINE Bad == {s \in SUBSET S : g[s] # f[s]}
<1>1. SUFFICES ASSUME Bad # {}
               PROVE  FALSE
  OBVIOUS
<1>2. PICK s \in Bad : \A t \in Bad : t \subseteq s => t = s
  <2>1. Bad \subseteq SUBSET S
    OBVIOUS
  <2> HIDE DEF Bad
  <2>. QED BY <1>1, <2>1, SmallestSet
<1>3. s # {}
  BY DEF SumsOn, Adds
<1>4. Pick(s) \in s /\ s \ {Pick(s)} \in SUBSET S /\ s \ {Pick(s)} # s
  BY <1>3, PickIs
<1>5. g[s \ {Pick(s)}] = f[s \ {Pick(s)}]
  BY <1>2, <1>4
<1>. QED BY <1>3, <1>5 DEF SumsOn, Adds

(* Any member may be taken first.                                          *)
LEMMA SumsTakeAny ==
    ASSUME NEW S, IsFiniteSet(S), NEW h, IntOn(h, S), NEW g, SumsOn(g, h, S)
    PROVE  TakesAny(g, h, S)
<1> DEFINE Bad == {r \in SUBSET S : \E z \in r : g[r] # h[z] + g[r \ {z}]}
<1>1. SUFFICES ASSUME Bad # {}
               PROVE  FALSE
  BY DEF TakesAny
<1>2. PICK r \in Bad : \A t \in Bad : t \subseteq r => t = r
  <2>1. Bad \subseteq SUBSET S
    OBVIOUS
  <2> HIDE DEF Bad
  <2>. QED BY <1>1, <2>1, SmallestSet
<1>3. PICK z \in r : g[r] # h[z] + g[r \ {z}]
  OBVIOUS
<1> DEFINE p == Pick(r)
<1>4. p \in r /\ r \in SUBSET S
  BY <1>3, PickIs
<1>5. g[r] = h[p] + g[r \ {p}]
  BY <1>4 DEF SumsOn, Adds
<1>6. p # z
  BY <1>3, <1>5
<1> HIDE DEF p
<1> DEFINE q == r \ {p, z}
<1>7. /\ r \ {p} \in SUBSET S /\ r \ {z} \in SUBSET S /\ q \in SUBSET S
      /\ z \in r \ {p} /\ p \in r \ {z} /\ (r \ {p}) \ {z} = q /\ (r \ {z}) \ {p} = q
      /\ r \ {p} # r /\ r \ {z} # r
  BY <1>3, <1>4, <1>6
<1>8. r \ {p} \notin Bad /\ r \ {z} \notin Bad
  BY <1>2, <1>7
<1> HIDE DEF q
<1>9. g[r \ {p}] = h[z] + g[q] /\ g[r \ {z}] = h[p] + g[q]
  BY <1>7, <1>8
<1>10. h[p] \in Int /\ h[z] \in Int /\ g[q] \in Int
  BY <1>3, <1>4, <1>7 DEF IntOn, SumsOn
<1>. QED BY <1>3, <1>5, <1>9, <1>10

Sum(h, S) == (CHOOSE g : SumsOn(g, h, S))[S]

LEMMA SumOf ==
    ASSUME NEW S, IsFiniteSet(S), NEW h, IntOn(h, S),
           NEW g, Adds(g, h, S), NEW T \in SUBSET S
    PROVE  Sum(h, T) = g[T]
<1> DEFINE f == CHOOSE k : SumsOn(k, h, T)
<1>1. IsFiniteSet(T) /\ IntOn(h, T)
  BY FS_Subset DEF IntOn
<1>2. SumsOn(f, h, T)
  <2>1. \E k : SumsOn(k, h, T)
    BY <1>1, SumExists
  <2>. QED BY <2>1
<1> DEFINE k == [s \in SUBSET T |-> g[s]]
<1>3. Adds(k, h, T)
  <2>2. \A s \in SUBSET T : s \in SUBSET S /\ s \ {Pick(s)} \in SUBSET T
    OBVIOUS
  <2>. QED BY <2>2 DEF Adds
<1> HIDE DEF f
<1>4. T \in SUBSET T
  OBVIOUS
<1>5. f[T] = k[T]
  <2> HIDE DEF k
  <2>. QED BY <1>1, <1>2, <1>3, <1>4, SumUnique DEF SumsOn
<1>. QED BY <1>5 DEF Sum, f

(* What the sums obey.                                                     *)
LEMMA SumTake ==
    ASSUME NEW S, IsFiniteSet(S), NEW h, IntOn(h, S)
    PROVE  /\ Sum(h, S) \in Int
           /\ Sum(h, {}) = 0
           /\ \A y \in S : Sum(h, S) = h[y] + Sum(h, S \ {y})
<1>1. PICK g : SumsOn(g, h, S)
  BY SumExists
<1>2. \A T \in SUBSET S : Sum(h, T) = g[T]
  BY <1>1, SumOf DEF SumsOn
<1>3. S \in SUBSET S /\ {} \in SUBSET S
  OBVIOUS
<1>4. g[{}] = 0
  BY <1>1, <1>3 DEF SumsOn, Adds
<1>5. ASSUME NEW y \in S
      PROVE  Sum(h, S) = h[y] + Sum(h, S \ {y})
  <2>1. S \ {y} \in SUBSET S
    OBVIOUS
  <2>2. TakesAny(g, h, S)
    BY <1>1, SumsTakeAny
  <2>3. g[S] = h[y] + g[S \ {y}]
    BY <1>3, <2>2 DEF TakesAny
  <2>. QED BY <1>2, <1>3, <2>1, <2>3
<1>6. g[S] \in Int
  BY <1>1, <1>3 DEF SumsOn, Adds
<1>. QED BY <1>2, <1>3, <1>4, <1>5, <1>6

LEMMA SumSame ==
    ASSUME NEW S, IsFiniteSet(S), NEW h, IntOn(h, S), NEW k, \A x \in S : k[x] = h[x]
    PROVE  Sum(h, S) = Sum(k, S)
<1>1. PICK g : SumsOn(g, h, S)
  BY SumExists
<1>2. SumsOn(g, k, S)
  <2>1. \A s \in SUBSET S : s # {} => k[Pick(s)] = h[Pick(s)]
    BY PickIs
  <2>. QED BY <1>1, <2>1 DEF SumsOn, Adds
<1>3. S \in SUBSET S
  OBVIOUS
<1>4. IntOn(k, S)
  BY DEF IntOn
<1>5. Sum(h, S) = g[S] /\ Sum(k, S) = g[S]
  BY <1>1, <1>2, <1>3, <1>4, SumOf DEF SumsOn
<1>. QED BY <1>5

LEMMA SumUnion ==
    ASSUME NEW S, IsFiniteSet(S), NEW T, IsFiniteSet(T), S \cap T = {},
           NEW h, IntOn(h, S), IntOn(h, T)
    PROVE  Sum(h, S \cup T) = Sum(h, S) + Sum(h, T)
<1> DEFINE Bad == {t \in SUBSET T : Sum(h, S \cup t) # Sum(h, S) + Sum(h, t)}
<1>1. SUFFICES ASSUME Bad # {}
               PROVE  FALSE
  OBVIOUS
<1>2. PICK t \in Bad : \A r \in Bad : r \subseteq t => r = t
  <2>1. Bad \subseteq SUBSET T
    OBVIOUS
  <2> HIDE DEF Bad
  <2>. QED BY <1>1, <2>1, SmallestSet
<1>3. t \in SUBSET T /\ Sum(h, S \cup t) # Sum(h, S) + Sum(h, t)
  OBVIOUS
<1>4. IsFiniteSet(t) /\ IsFiniteSet(S \cup t) /\ IntOn(h, t) /\ IntOn(h, S \cup t)
  BY <1>3, FS_Subset, FS_Union DEF IntOn
<1>5. t # {}
  <2>1. SUFFICES ASSUME t = {}
                 PROVE  FALSE
    OBVIOUS
  <2>2. S \cup t = S
    BY <2>1
  <2>3. Sum(h, t) = 0
    BY <1>4, <2>1, SumTake
  <2>4. Sum(h, S) \in Int
    BY SumTake
  <2>5. Sum(h, S \cup t) = Sum(h, S)
    BY <2>2
  <2> HIDE DEF Bad
  <2>. QED BY <1>3, <2>3, <2>4, <2>5
<1>6. PICK y \in t : TRUE
  BY <1>5
<1> DEFINE r == t \ {y}
<1>7. r \in SUBSET T /\ r \subseteq t /\ r # t /\ (S \cup t) \ {y} = S \cup r
  BY <1>3, <1>6
<1>8. Sum(h, S \cup r) = Sum(h, S) + Sum(h, r)
  BY <1>2, <1>7
<1>9. Sum(h, S \cup t) = h[y] + Sum(h, S \cup r)
  <2>1. y \in S \cup t
    BY <1>6
  <2>2. Sum(h, S \cup t) = h[y] + Sum(h, (S \cup t) \ {y})
    BY <1>4, <2>1, SumTake
  <2>. QED BY <1>7, <2>2
<1>10. Sum(h, t) = h[y] + Sum(h, r)
  BY <1>4, <1>6, SumTake
<1>11. h[y] \in Int /\ Sum(h, S) \in Int /\ Sum(h, r) \in Int
  <2>1. IsFiniteSet(r) /\ IntOn(h, r)
    BY <1>4, <1>7, FS_Subset DEF IntOn
  <2>2. Sum(h, r) \in Int
    BY <2>1, SumTake
  <2>3. Sum(h, S) \in Int
    BY SumTake
  <2>. QED BY <1>4, <1>6, <2>2, <2>3 DEF IntOn
<1>. QED BY <1>3, <1>8, <1>9, <1>10, <1>11

(* Sums of sums, over sets that share no member.                           *)
LEMMA SumFibres ==
    ASSUME NEW A, IsFiniteSet(A), NEW F, \A a \in A : IsFiniteSet(F[a]),
           \A a, b \in A : a # b => F[a] \cap F[b] = {},
           NEW h, \A a \in A : IntOn(h, F[a]),
           NEW H, \A a \in A : H[a] = Sum(h, F[a])
    PROVE  IsFiniteSet(UNION {F[a] : a \in A}) /\ Sum(H, A) = Sum(h, UNION {F[a] : a \in A})
<1> DEFINE All(B) == UNION {F[a] : a \in B}
           Bad == {B \in SUBSET A : ~(IsFiniteSet(All(B)) /\ Sum(H, B) = Sum(h, All(B)))}
<1>1. SUFFICES ASSUME Bad # {}
               PROVE  FALSE
  <2>1. A \in SUBSET A
    OBVIOUS
  <2>. QED BY <2>1
<1>2. PICK B \in Bad : \A C \in Bad : C \subseteq B => C = B
  <2>1. Bad \subseteq SUBSET A
    OBVIOUS
  <2> HIDE DEF Bad
  <2>. QED BY <1>1, <2>1, SmallestSet
<1>3. B \in SUBSET A /\ ~(IsFiniteSet(All(B)) /\ Sum(H, B) = Sum(h, All(B)))
  OBVIOUS
<1>4. \A a \in A : H[a] \in Int
  BY SumTake
<1>5. IsFiniteSet(B) /\ IntOn(H, B)
  BY <1>3, <1>4, FS_Subset DEF IntOn
<1>6. B # {}
  <2>1. SUFFICES ASSUME B = {}
                 PROVE  FALSE
    OBVIOUS
  <2>2. All(B) = {}
    BY <2>1
  <2>3. IsFiniteSet({}) /\ Sum(H, {}) = 0
    BY <1>5, FS_EmptySet, SumTake
  <2>4. Sum(h, {}) = 0
    <3>1. IsFiniteSet({}) /\ IntOn(h, {})
      BY FS_EmptySet DEF IntOn
    <3>. QED BY <3>1, SumTake
  <2> HIDE DEF All
  <2>. QED BY <1>3, <2>1, <2>2, <2>3, <2>4
<1>7. PICK a \in B : TRUE
  BY <1>6
<1> DEFINE C == B \ {a}
<1>8. C \in SUBSET A /\ C \subseteq B /\ C # B /\ a \in A
  BY <1>3, <1>7
<1>9. IsFiniteSet(All(C)) /\ Sum(H, C) = Sum(h, All(C))
  BY <1>2, <1>8
<1>10. All(B) = All(C) \cup F[a]
  BY <1>7
<1>11. All(C) \cap F[a] = {}
  <2> SUFFICES ASSUME NEW b \in C, NEW x \in F[b], x \in F[a]
               PROVE  FALSE
    OBVIOUS
  <2>1. b \in A /\ b # a
    BY <1>8
  <2>. QED BY <1>8, <2>1
<1>12. IntOn(h, All(C)) /\ IntOn(h, F[a])
  BY <1>8 DEF IntOn
<1>13. IsFiniteSet(F[a]) /\ H[a] = Sum(h, F[a])
  BY <1>8
<1>14. IsFiniteSet(All(B)) /\ Sum(h, All(B)) = Sum(h, All(C)) + Sum(h, F[a])
  <2> DEFINE S == All(C)
             T == F[a]
  <2>1. IsFiniteSet(S) /\ IsFiniteSet(T) /\ S \cap T = {}
        /\ IntOn(h, S) /\ IntOn(h, T)
    BY <1>9, <1>11, <1>12, <1>13
  <2>2. All(B) = S \cup T
    BY <1>10
  <2>3. Sum(h, All(C)) = Sum(h, S) /\ Sum(h, F[a]) = Sum(h, T)
    OBVIOUS
  <2> HIDE DEF S, T, All
  <2>4. IsFiniteSet(S \cup T)
    BY <2>1, FS_Union
  <2>5. Sum(h, S \cup T) = Sum(h, S) + Sum(h, T)
    BY <2>1, SumUnion
  <2>. QED BY <2>2, <2>3, <2>4, <2>5
<1> HIDE DEF All
<1>15. Sum(H, B) = H[a] + Sum(H, C)
  BY <1>5, <1>7, SumTake
<1>16. Sum(H, C) \in Int /\ H[a] \in Int
  <2>1. IsFiniteSet(C) /\ IntOn(H, C)
    BY <1>5, <1>8, FS_Subset DEF IntOn
  <2>. QED BY <1>5, <1>7, <2>1, SumTake
<1>. QED BY <1>3, <1>9, <1>13, <1>14, <1>15, <1>16

LEMMA SumOnes ==
    ASSUME NEW S, IsFiniteSet(S), NEW h, \A x \in S : h[x] = 1
    PROVE  Sum(h, S) = Cardinality(S)
<1> DEFINE Bad == {t \in SUBSET S : Sum(h, t) # Cardinality(t)}
<1>1. SUFFICES ASSUME Bad # {}
               PROVE  FALSE
  OBVIOUS
<1>2. PICK t \in Bad : \A r \in Bad : r \subseteq t => r = t
  <2>1. Bad \subseteq SUBSET S
    OBVIOUS
  <2> HIDE DEF Bad
  <2>. QED BY <1>1, <2>1, SmallestSet
<1>3. t \in SUBSET S /\ Sum(h, t) # Cardinality(t)
  OBVIOUS
<1>4. IsFiniteSet(t) /\ IntOn(h, t)
  BY <1>3, FS_Subset DEF IntOn
<1>5. t # {}
  BY <1>3, <1>4, SumTake, FS_EmptySet
<1>6. PICK y \in t : TRUE
  BY <1>5
<1>7. t \ {y} \in SUBSET S /\ t \ {y} \subseteq t /\ t \ {y} # t
  BY <1>3, <1>6
<1>8. Sum(h, t \ {y}) = Cardinality(t \ {y})
  BY <1>2, <1>7
<1>9. Sum(h, t) = h[y] + Sum(h, t \ {y}) /\ h[y] = 1
  BY <1>3, <1>4, <1>6, SumTake
<1>10. Cardinality(t \ {y}) = Cardinality(t) - 1 /\ Cardinality(t) \in Nat
  BY <1>4, <1>6, FS_RemoveElement, FS_CardinalityType
<1>. QED BY <1>3, <1>8, <1>9, <1>10

(* The function MapThenSumSet defines by recursion on the subsets.         *)
Folded(f, h, S) ==
    f = [s \in SUBSET S |-> IF s = {} THEN 0 ELSE h[Pick(s)] + f[s \ {Pick(s)}]]

LEMMA FoldedSum ==
    ASSUME NEW S, IsFiniteSet(S), NEW h, IntOn(h, S)
    PROVE  /\ \E f : Folded(f, h, S)
           /\ \A f : Folded(f, h, S) => f[S] = Sum(h, S)
<1>1. \E f : Folded(f, h, S)
  <2>1. PICK g : SumsOn(g, h, S)
    BY SumExists
  <2> DEFINE f == [s \in SUBSET S |-> g[s]]
  <2>2. \A s \in SUBSET S : s # {} => s \ {Pick(s)} \in SUBSET S
    OBVIOUS
  <2>3. Folded(f, h, S)
    BY <2>1, <2>2 DEF Folded, SumsOn, Adds
  <2>. QED BY <2>3
<1>2. ASSUME NEW f, Folded(f, h, S)
      PROVE  f[S] = Sum(h, S)
  <2> DEFINE k == [s \in SUBSET S |-> IF s = {} THEN 0 ELSE h[Pick(s)] + f[s \ {Pick(s)}]]
  <2>1. f = k
    BY <1>2 DEF Folded
  <2>2. \A s \in SUBSET S : k[s] = IF s = {} THEN 0 ELSE h[Pick(s)] + f[s \ {Pick(s)}]
    OBVIOUS
  <2> HIDE DEF k
  <2>3. Adds(f, h, S)
    BY <2>1, <2>2 DEF Adds
  <2>4. S \in SUBSET S
    OBVIOUS
  <2>. QED BY <2>3, <2>4, SumOf
<1>. QED BY <1>1, <1>2

-------------------------------------------------------------------------------
(* Amounts, event by event                                                  *)

(* What each number adds to the last of the numbers below it.              *)
Below(S, n) == {m \in S : m < n}
Increments(h, v, S) ==
    \A n \in S : h[n] = IF Below(S, n) = {} THEN v[n] ELSE v[n] - v[LastOf(Below(S, n))]

LEMMA IncrementsAddUp ==
    ASSUME NEW S, S \subseteq 1..MaxLength, NEW v, IntOn(v, S),
           NEW h, Increments(h, v, S), S # {}
    PROVE  IsFiniteSet(S) /\ IntOn(h, S) /\ Sum(h, S) = v[LastOf(S)]
<1>1. IsFiniteSet(S)
  <2>1. IsFiniteSet(1..MaxLength)
    BY FS_Interval, BoundsAssumption
  <2>. QED BY <2>1, FS_Subset
<1>2. \A n \in S : n \in Nat
  BY BoundsAssumption
<1>3. \A T \in SUBSET S : T # {} => LastOf(T) \in T /\ \A m \in T : m <= LastOf(T)
  BY LastExists
<1>4. IntOn(h, S)
  <2> SUFFICES ASSUME NEW n \in S
               PROVE  h[n] \in Int
    BY DEF IntOn
  <2>1. Below(S, n) \in SUBSET S
    BY DEF Below
  <2>2. v[n] \in Int /\ (Below(S, n) # {} => v[LastOf(Below(S, n))] \in Int)
    BY <1>3, <2>1 DEF IntOn
  <2>3. h[n] = IF Below(S, n) = {} THEN v[n] ELSE v[n] - v[LastOf(Below(S, n))]
    BY DEF Increments
  <2>. QED BY <2>2, <2>3
<1> DEFINE Segment(T) == \A n \in T : Below(S, n) \subseteq T
           Bad == {T \in SUBSET S : T # {} /\ Segment(T) /\ Sum(h, T) # v[LastOf(T)]}
<1>5. SUFFICES ASSUME Bad # {}
               PROVE  FALSE
  <2>1. Segment(S) /\ S \in SUBSET S
    BY DEF Below
  <2>. QED BY <1>1, <1>4, <2>1
<1>6. PICK T \in Bad : \A R \in Bad : R \subseteq T => R = T
  <2>1. Bad \subseteq SUBSET S
    OBVIOUS
  <2>2. Bad # {}
    BY <1>5
  <2> HIDE DEF Bad
  <2> HIDE DEF Segment
  <2>. QED BY ONLY <1>1, <2>1, <2>2, SmallestSet
<1>7. T \in SUBSET S /\ T # {} /\ Segment(T) /\ Sum(h, T) # v[LastOf(T)]
  OBVIOUS
<1> DEFINE n == LastOf(T)
           R == T \ {n}
<1>8. n \in T /\ n \in S /\ \A m \in T : m <= n
  BY <1>3, <1>7
<1>9. Below(S, n) = R
  <2>1. Below(S, n) \subseteq T
    BY <1>7, <1>8
  <2>2. \A m \in S : m \in Nat
    BY <1>2
  <2> HIDE DEF n
  <2>3. \A m \in R : m \in S /\ m < n
    BY <1>7, <1>8, <2>2
  <2>4. \A m \in Below(S, n) : m # n
    BY <1>8, <2>2 DEF Below
  <2>. QED BY <2>1, <2>3, <2>4 DEF Below
<1>10. IsFiniteSet(T) /\ IntOn(h, T)
  BY <1>1, <1>4, <1>7, FS_Subset DEF IntOn
<1>11. Sum(h, T) = h[n] + Sum(h, R)
  BY <1>8, <1>10, SumTake
<1>12. h[n] = IF R = {} THEN v[n] ELSE v[n] - v[LastOf(R)]
  BY <1>8, <1>9 DEF Increments
<1>13. CASE R = {}
  <2>1. Sum(h, R) = 0
    BY <1>10, <1>13, SumTake
  <2>2. v[n] \in Int
    BY <1>8 DEF IntOn
  <2>. QED BY <1>7, <1>11, <1>12, <1>13, <2>1, <2>2
<1>14. CASE R # {}
  <2>1. R \in SUBSET S /\ R \subseteq T /\ R # T
    BY <1>7, <1>8
  <2>2. Segment(R)
    <3>1. \A m \in R : m < n
      <4>1. \A m \in S : m \in Nat
        BY <1>2
      <4> HIDE DEF n
      <4>. QED BY <1>7, <1>8, <4>1
    <3>2. \A m \in R : \A k \in Below(S, m) : k \in T /\ k < m /\ k \in Nat
      BY <1>2, <1>7 DEF Below
    <3> HIDE DEF n
    <3>3. \A m \in R : m \in Nat
      BY <1>2, <1>7
    <3>4. \A m \in R : \A k \in Below(S, m) : k # n
      BY <1>2, <1>8, <3>1, <3>2, <3>3
    <3>. QED BY <3>2, <3>4
  <2> HIDE DEF n
  <2>3. Sum(h, R) = v[LastOf(R)]
    <3>1. R \notin Bad
      BY <1>6, <2>1
    <3>. QED BY <1>14, <2>1, <2>2, <3>1
  <2>4. v[n] \in Int /\ v[LastOf(R)] \in Int
    BY <1>3, <1>8, <1>14, <2>1 DEF IntOn
  <2>. QED BY <1>7, <1>11, <1>12, <1>14, <2>3, <2>4 DEF n
<1>. QED BY <1>13, <1>14

(* The rows of one kind of amount.                                         *)
Amounts == {"PILL_FAME_UPDATED", "PILL_DEFAME_UPDATED"}

LEMMA AmountRows ==
    ASSUME HandlersInv, RowsMatch, NEW t \in Token, NEW kind \in Amounts,
           NEW rows, rows = Typed({RowType[kind]}, t)
    PROVE  /\ rows \subseteq 1..MaxLength /\ rows \subseteq Of({kind}, t)
           /\ \A n \in rows : db.event[n] = RowType[kind] /\ feed[n].token = t
           /\ \A n \in rows : feed[n].value \in Nat
           /\ \A n \in rows : AmountAdded(n) =
                 IF Below(rows, n) = {} THEN feed[n].value
                 ELSE feed[n].value - feed[LastOf(Below(rows, n))].value
           /\ Amount(RowType[kind], t) = IF rows = {} THEN 0 ELSE feed[LastOf(rows)].value
<1>1. RowType[kind] = IF kind = "PILL_FAME_UPDATED" THEN "FAME" ELSE "DEFAME"
  BY DEF RowType, Amounts
<1>2. \A n \in rows : /\ n \in RowsOf(t) /\ db.event[n] = RowType[kind]
                      /\ n \in DOMAIN feed /\ feed[n].token = t /\ n \in 1..MaxLength
                      /\ feed[n].kind = kind
  BY <1>1, RowKinds DEF Typed, Amounts
<1>3. rows \subseteq 1..MaxLength /\ rows \subseteq Of({kind}, t)
  BY <1>2 DEF Of, EventsOf
<1>4. \A n \in rows : feed[n].value \in Nat
  <2>1. \A n \in rows : feed[n] \in ChainEvent
    BY <1>2, FeedType DEF HandlersInv, Types
  <2>. QED BY <2>1, EventFields
<1>5. ASSUME NEW n \in rows
      PROVE  AmountAdded(n) =
                 IF Below(rows, n) = {} THEN feed[n].value
                 ELSE feed[n].value - feed[LastOf(Below(rows, n))].value
  <2> DEFINE before == {m \in Typed({db.event[n]}, feed[n].token) : m < n}
  <2>1. before = Below(rows, n)
    BY <1>2 DEF Below
  <2>2. AmountAdded(n) = IF before = {} THEN feed[n].value
                         ELSE feed[n].value - feed[Latest(before)].value
    BY DEF AmountAdded
  <2>3. Latest(Below(rows, n)) = LastOf(Below(rows, n))
    BY DEF Latest, LastOf
  <2> HIDE DEF before
  <2>. QED BY <2>1, <2>2, <2>3
<1>6. Amount(RowType[kind], t) = IF rows = {} THEN 0 ELSE feed[LastOf(rows)].value
  BY DEF Amount, Latest, LastOf
<1>. QED BY <1>2, <1>3, <1>4, <1>5, <1>6

LEMMA SumAmounts ==
    ASSUME NEW rows, IsFiniteSet(rows), NEW h, IntOn(h, rows),
           \A n \in rows : h[n] = AmountAdded(n)
    PROVE  MapThenSumSet(AmountAdded, rows) = Sum(h, rows)
<1> DEFINE Q(f) == f = [s \in SUBSET rows |->
                          IF s = {} THEN 0
                          ELSE AmountAdded(CHOOSE x \in s : TRUE) + f[s \ {CHOOSE x \in s : TRUE}]]
<1>1. MapThenSumSet(AmountAdded, rows) = (CHOOSE f : Q(f))[rows]
  BY DEF MapThenSumSet, MapThenFoldSet
<1>2. \A f : Q(f) <=> Folded(f, h, rows)
  <2> TAKE f
  <2>1. \A s \in SUBSET rows : s # {} =>
           Pick(s) = (CHOOSE x \in s : TRUE) /\ h[Pick(s)] = AmountAdded(CHOOSE x \in s : TRUE)
    BY PickIs DEF Pick
  <2>. QED BY <2>1 DEF Folded
<1> HIDE DEF Q
<1>3. Q(CHOOSE f : Q(f))
  <2>1. \E f : Q(f)
    BY <1>2, FoldedSum
  <2>. QED BY <2>1
<1>. QED BY <1>1, <1>2, <1>3, FoldedSum

(* Whatever was indexed, in whatever order.                                *)
THEOREM AmountsAlwaysAddUp == Spec => []AmountsAddUp
<1>1. HandlersInv /\ FeedOrder => AmountsAddUp
  <2> SUFFICES ASSUME HandlersInv, FeedOrder, NEW t \in Token, NEW kind \in Amounts
               PROVE  LET type == RowType[kind]
                          rows == Typed({type}, t)
                          before(n) == {m \in Of({kind}, t) : m < n}
                      IN  /\ MapThenSumSet(AmountAdded, rows) = Amount(type, t)
                          /\ \A n \in rows : before(n) # {} /\ LastOf(before(n)) \in rows =>
                                AmountAdded(n) = feed[n].value - feed[LastOf(before(n))].value
    BY DEF AmountsAddUp, Amounts
  <2> DEFINE type == RowType[kind]
             rows == Typed({type}, t)
             before(n) == Below(Of({kind}, t), n)
             h == [n \in rows |-> AmountAdded(n)]
             v == [n \in rows |-> feed[n].value]
  <2>1. /\ rows \subseteq 1..MaxLength /\ rows \subseteq Of({kind}, t)
        /\ \A n \in rows : feed[n].value \in Nat
        /\ \A n \in rows : AmountAdded(n) =
              IF Below(rows, n) = {} THEN feed[n].value
              ELSE feed[n].value - feed[LastOf(Below(rows, n))].value
        /\ Amount(type, t) = IF rows = {} THEN 0 ELSE feed[LastOf(rows)].value
    <3>1. HandlersInv /\ RowsMatch
      BY DEF FeedOrder
    <3>2. rows = Typed({RowType[kind]}, t)
      OBVIOUS
    <3> HIDE DEF rows
    <3>. QED BY <3>1, <3>2, AmountRows
  <2> HIDE DEF rows
  <2>2. \A n \in rows : Below(rows, n) # {} => LastOf(Below(rows, n)) \in rows
    <3> TAKE n \in rows
    <3>1. Below(rows, n) \subseteq 1..MaxLength /\ Below(rows, n) \subseteq rows
      BY <2>1 DEF Below
    <3>. QED BY <3>1, LastExists
  <2>3. MapThenSumSet(AmountAdded, rows) = Amount(type, t)
    <3>1. IntOn(v, rows)
      BY <2>1 DEF IntOn
    <3>2. Increments(h, v, rows)
      BY <2>1, <2>2 DEF Increments
    <3>3. rows # {} => Sum(h, rows) = v[LastOf(rows)] /\ IntOn(h, rows)
      <4> HIDE DEF h, v
      <4>1. CASE rows # {}
        BY <2>1, <3>1, <3>2, <4>1, IncrementsAddUp
      <4>. QED BY <4>1
    <3>4. IsFiniteSet(rows)
      <4>1. IsFiniteSet(1..MaxLength)
        BY FS_Interval, BoundsAssumption
      <4>. QED BY <2>1, <4>1, FS_Subset
    <3>5. IntOn(h, rows)
      BY <3>3 DEF IntOn
    <3>6. MapThenSumSet(AmountAdded, rows) = Sum(h, rows)
      <4>1. \A n \in rows : h[n] = AmountAdded(n)
        OBVIOUS
      <4> HIDE DEF h
      <4>. QED BY <3>4, <3>5, <4>1, SumAmounts
    <3>7. rows = {} => Sum(h, rows) = 0
      BY <3>4, <3>5, SumTake
    <3>8. rows # {} => LastOf(rows) \in rows
      BY <2>1, LastExists
    <3>. QED BY <2>1, <3>3, <3>6, <3>7, <3>8
  <2>4. ASSUME NEW n \in rows, before(n) # {}, LastOf(before(n)) \in rows
        PROVE  AmountAdded(n) = feed[n].value - feed[LastOf(before(n))].value
    <3> DEFINE l == LastOf(before(n))
    <3>1. before(n) \subseteq 1..MaxLength
      BY EventsIn DEF Below, Of
    <3>2. l \in before(n) /\ \A m \in before(n) : m <= l
      BY <2>4, <3>1, LastExists
    <3>3. l \in Below(rows, n) /\ \A m \in Below(rows, n) : m <= l
      BY <2>1, <2>4, <3>2 DEF Below
    <3>4. Below(rows, n) \subseteq 1..MaxLength
      BY <2>1 DEF Below
    <3>5. LastOf(Below(rows, n)) = l
      BY <3>3, <3>4, LastIs
    <3>. QED BY <2>1, <2>4, <3>3, <3>5
  <2>. QED BY <2>3, <2>4 DEF rows, Below
<1>. QED BY <1>1, HandlersInvariant, FeedOrderInvariant, PTL
-------------------------------------------------------------------------------
(* Only an event that says so gives voting power                           *)

PowerGiven(t) == {n \in Of({"ATTRIBUTE_ADDED"}, t) : feed[n].value = 1}

PowerInv ==
    /\ \A t \in db.votingPower : PowerGiven(t) # {}
    /\ \A w \in Worker : pc[w] = "createPower" => Event(w).value = 1

PowerEffect(w) ==
    /\ pc'[w] = "createPower" => Event(w).value = 1
    /\ \/ db'.votingPower = db.votingPower
       \/ pc[w] = "createPower" /\ db'.votingPower = db.votingPower \cup {Event(w).token}

LEMMA ReadPower ==
    ASSUME HandlersInv, NEW w \in Worker, NEW s, NEW next, next # "createPower",
           Reads(w, s, next)
    PROVE  PowerEffect(w)
BY DEF Reads, Goto, PowerEffect, HandlersInv, Types

LEMMA AskPower ==
    ASSUME HandlersInv, NEW w \in Worker, NEW s, NEW jobs, NEW next, next # "createPower",
           Asks(w, s, jobs, next)
    PROVE  PowerEffect(w)
BY DEF Asks, Goto, PowerEffect, HandlersInv, Types

LEMMA WritePower ==
    ASSUME HandlersInv, NEW w \in Worker, NEW s, NEW tables, NEW next, next # "createPower",
           Writes(w, s, tables, next),
           \/ tables.votingPower = db.votingPower
           \/ s = "createPower" /\ tables.votingPower = db.votingPower \cup {Event(w).token}
    PROVE  PowerEffect(w)
BY DEF Writes, Goto, PowerEffect, HandlersInv, Types

LEMMA InsertPower ==
    ASSUME HandlersInv, NEW w \in Worker, NEW s, NEW exists, NEW tables,
           NEW next, next # "createPower", Inserts(w, s, exists, tables, next),
           \/ tables.votingPower = db.votingPower
           \/ s = "createPower" /\ tables.votingPower = db.votingPower \cup {Event(w).token}
    PROVE  PowerEffect(w)
<1>1. CASE Refused(w, s)
  BY <1>1 DEF Refused, Goto, PowerEffect, HandlersInv, Types
<1>. QED BY <1>1, WritePower DEF Inserts

LEMMA OtherThanPower ==
    ASSUME db \in Tables
    PROVE  /\ \A t : WithTrait(t).votingPower = db.votingPower
           /\ \A w, t : /\ WithOwner(w, t).votingPower = db.votingPower
                        /\ WithRow(w, t).votingPower = db.votingPower
           /\ \A w : /\ WithStock(w).votingPower = db.votingPower
                     /\ WithVote(w).votingPower = db.votingPower
           /\ \A a, x : [db EXCEPT !.picture[a] = x].votingPower = db.votingPower
           /\ \A t, x : [db EXCEPT !.vote[t] = x].votingPower = db.votingPower
           /\ \A x : [db EXCEPT !.redemption = x].votingPower = db.votingPower
           /\ \A x : [db EXCEPT !.votingPower = x].votingPower = x
BY DEF Tables, WithTrait, WithOwner, WithRow, WithStock, WithVote

LEMMA StatementPower ==
    ASSUME HandlersInv, NEW w \in Worker, Statement(w)
    PROVE  PowerEffect(w)
<1>1. db \in Tables /\ pc \in [Worker -> Step]
  BY DEF HandlersInv, Types
<1>2. CASE FindEvent(w) \/ FindMinted(w) \/ CheckIfIsPill(w) \/ FindStock(w) \/ FindVote(w)
  BY <1>2, ReadPower DEF FindEvent, FindMinted, CheckIfIsPill, FindStock, FindVote
<1>3. CASE FindRedemption(w) \/ FindKnown(w)
  BY <1>3, ReadPower DEF FindRedemption, FindKnown
<1>4. CASE FindPower(w)
  <2>1. CASE Event(w).value # 1 \/ Event(w).token \in db.votingPower
    BY <1>4, <2>1, ReadPower DEF FindPower
  <2>2. CASE Event(w).value = 1
    BY <1>4, <2>2 DEF FindPower, Reads, PowerEffect
  <2>. QED BY <2>1, <2>2
<1>5. CASE FindBackpack(w)
  <2>1. PICK j \in Job : At(w, j, "findBackpack")
    BY <1>5, AtStatement DEF FindBackpack, Reads, Step
  <2>2. PICK next \in {"return", "createBackpack", "updateBackpack", "deleteBackpack"} :
           Reads(w, "findBackpack", next)
    BY <1>5, <2>1 DEF FindBackpack, At, Sound, KindSound
  <2>. QED BY <2>2, ReadPower
<1>6. CASE QueueBG(w) \/ QueueIng(w) \/ QueueMetadata(w) \/ QueueTrait(w)
  BY <1>6, AskPower DEF QueueBG, QueueIng, QueueMetadata, QueueTrait
<1>7. CASE CreateBG(w) \/ CreateIng(w) \/ CreateKnown(w)
  BY <1>1, <1>7, OtherThanPower, InsertPower DEF CreateBG, CreateIng, CreateKnown
<1>8. CASE UpdateBackpack(w) \/ CreateBackpack(w) \/ DeleteBackpack(w)
  BY <1>1, <1>8, OtherThanPower, InsertPower
     DEF UpdateBackpack, CreateBackpack, DeleteBackpack, Changes
<1>9. CASE UpdateStock(w) \/ CreateStock(w) \/ UpdateVote(w) \/ CreateVote(w)
  BY <1>1, <1>9, OtherThanPower, InsertPower
     DEF UpdateStock, CreateStock, UpdateVote, CreateVote, Changes
<1>10. CASE CreateRedemption(w)
  BY <1>1, <1>10, OtherThanPower, InsertPower DEF CreateRedemption
<1>11. CASE CreatePower(w)
  BY <1>1, <1>11, OtherThanPower, InsertPower DEF CreatePower
<1>12. CASE ClearPicture(w)
  BY <1>1, <1>12, OtherThanPower, WritePower DEF ClearPicture
<1>13. CASE FindPicture(w)
  BY <1>1, <1>13 DEF FindPicture, Goto, PowerEffect
<1>14. CASE CreateChange(w) \/ CreateMint(w)
  BY <1>1, <1>14, OtherThanPower, InsertPower DEF CreateChange, CreateMint
<1>15. CASE CreateEvent(w)
  <2>1. PICK j \in Job : At(w, j, "createEvent")
    BY <1>15, AtStatement DEF CreateEvent, Step
  <2> DEFINE kind == feed[j.event].kind
  <2>2. kind \in DOMAIN RowType /\ Event(w).kind = kind
    BY <2>1 DEF At, Sound, KindSound
  <2>3. AfterRow(kind) # "createPower"
    BY <2>2 DEF AfterRow, RowType
  <2>4. CASE Reads(w, "createEvent", AfterRow(kind))
    BY <2>3, <2>4, ReadPower
  <2>5. CASE Inserts(w, "createEvent", Indexed(w), WithRow(w, RowType[kind]), AfterRow(kind))
    BY <1>1, <2>3, <2>5, OtherThanPower, InsertPower
  <2>. QED BY <1>15, <2>2, <2>4, <2>5 DEF CreateEvent
<1>. QED
  BY <1>2, <1>3, <1>4, <1>5, <1>6, <1>7, <1>8, <1>9, <1>10, <1>11, <1>12, <1>13, <1>14,
     <1>15 DEF Statement

LEMMA PowerStays ==
    ASSUME PowerInv, scenario' = scenario, db'.votingPower = db.votingPower,
           \A v \in Worker : pc'[v] = "createPower" =>
               pc[v] = "createPower" /\ running'[v] = running[v]
    PROVE  PowerInv'
BY DEF PowerInv, PowerGiven, Of, EventsOf, Event, feed

LEMMA PowerNext ==
    ASSUME HandlersInv, PowerInv, [Next]_vars
    PROVE  PowerInv'
<1>1. /\ db \in Tables /\ pc \in [Worker -> Step] /\ running \in [Worker -> Job \cup {NoJob}]
      /\ scenario \in Scenarios
  BY DEF HandlersInv, Types, QueueTypeOK
<1>2. ASSUME NEW w \in Worker, Statement(w)
      PROVE  PowerInv'
  <2>1. PICK j \in Job, s \in Step \ {"idle"} :
           At(w, j, s) /\ (Advances(w, j, s) \/ GivesUp(w, j, s))
    BY <1>2, StatementEffect DEF Effect
  <2>2. /\ scenario' = scenario
        /\ \A v \in Worker \ {w} : pc'[v] = pc[v] /\ running'[v] = running[v]
        /\ pc'[w] = "createPower" => running'[w] = running[w]
    BY <1>1, <2>1 DEF Advances, GivesUp, Refused, Reject, Goto, At
  <2>3. PowerEffect(w)
    BY <1>2, StatementPower
  <2>4. \A v \in Worker : pc'[v] = "createPower" => Event(v)'.value = 1
    BY <2>2, <2>3 DEF PowerInv, PowerEffect, Event, feed
  <2>5. \A t : PowerGiven(t)' = PowerGiven(t)
    BY <2>2 DEF PowerGiven, Of, EventsOf, feed
  <2>6. pc[w] = "createPower" => PowerGiven(Event(w).token) # {}
    <3> SUFFICES ASSUME pc[w] = "createPower"
                 PROVE  j.event \in PowerGiven(Event(w).token)
      OBVIOUS
    <3>1. feed[j.event].kind = "ATTRIBUTE_ADDED" /\ running[w] = j /\ j.event \in DOMAIN feed
      BY <2>1 DEF At, Sound, KindSound
    <3>. QED BY <3>1 DEF PowerInv, PowerGiven, Of, EventsOf, Event
  <2>7. \A t \in db'.votingPower : PowerGiven(t)' # {}
    BY <2>3, <2>5, <2>6 DEF PowerEffect, PowerInv
  <2>. QED BY <2>4, <2>7 DEF PowerInv
<1>3. ASSUME NEW w \in Worker, NEW j \in Job, IndexBlock(w, j)
      PROVE  PowerInv'
  <2>1. j.event \in DOMAIN feed
    BY <1>3 DEF IndexBlock, Take, IsHead, HandlersInv, QueueInv
  <2>2. feed[j.event].kind \in EventKind
    BY <1>1, <2>1, FeedType, EventFields
  <2>3. HandlerStart(feed[j.event].kind) # "createPower"
    BY <2>2 DEF HandlerStart, EventKind
  <2>. QED BY <1>1, <1>3, <2>3, PowerStays DEF IndexBlock, Take, Goto
<1>4. ASSUME NEW w \in Worker, CompleteJob(w) \/ HandlerThrows(w)
      PROVE  PowerInv'
  BY <1>1, <1>4, PowerStays DEF CompleteJob, HandlerThrows, Complete, Reject, Goto
<1>5. ASSUME NEW w \in Worker, SwallowError(w)
      PROVE  PowerInv'
  BY <1>1, <1>5, PowerStays DEF SwallowError, Goto, blocksQueue
<1>6. CASE Crash
  BY <1>1, <1>6, PowerStays DEF Crash
<1>7. ASSUME NEW a \in Address, SetProfilePicture(a)
      PROVE  PowerInv'
  BY <1>1, <1>7, OtherThanPower, PowerStays DEF SetProfilePicture, blocksQueue, handler
<1>8. ASSUME NEW t \in Token, GetVotingPower(t)
      PROVE  PowerInv'
  BY <1>1, <1>8, OtherThanPower, PowerStays DEF GetVotingPower, blocksQueue, handler
<1>9. CASE UNCHANGED <<scenario, running, pc, db>>
  BY <1>9, PowerStays
<1>10. Next => \/ \E w \in Worker : \/ Statement(w) \/ CompleteJob(w) \/ HandlerThrows(w)
                                    \/ SwallowError(w)
               \/ \E w \in Worker, j \in Job : IndexBlock(w, j)
               \/ Crash
               \/ \E a \in Address : SetProfilePicture(a)
               \/ \E t \in Token : GetVotingPower(t)
               \/ UNCHANGED <<scenario, running, pc, db>>
  BY DEF Next, QueueIndexBlockData, Add, PromoteDelayed, Promote, CheckStalled, RecoverStalled,
         CheckProfilePicture, handler, blocksQueue
<1>. QED
  BY <1>2, <1>3, <1>4, <1>5, <1>6, <1>7, <1>8, <1>9, <1>10 DEF vars, handler, blocksQueue

THEOREM PowerIsGiven == Spec => []PowerInv
<1>1. Init => PowerInv
  BY DEF Init, EmptyDb, PowerInv
<1>. QED BY <1>1, PowerNext, HandlersInvariant, PTL DEF Spec
-------------------------------------------------------------------------------
(* Votes and fame, wallet by wallet                                        *)

LEMMA SameSize ==
    ASSUME NEW S, IsFiniteSet(S), NEW f, \A x, y \in S : f[x] = f[y] => x = y
    PROVE  IsFiniteSet({f[x] : x \in S}) /\ Cardinality({f[x] : x \in S}) = Cardinality(S)
<1> DEFINE T == {f[x] : x \in S}
           g == [x \in S |-> f[x]]
<1>1. g \in Bijection(S, T)
  BY DEF Bijection, Injection, IsInjective, Surjection
<1>2. ExistsBijection(S, T)
  BY <1>1 DEF ExistsBijection
<1> HIDE DEF T
<1>3. IsFiniteSet(T) /\ Cardinality(T) = Cardinality(S)
  BY <1>2, FS_Bijection
<1>. QED BY <1>3 DEF T

(* Every pill is listed by exactly one wallet.                             *)
LEMMA EachPillListed ==
    ASSUME CalmEnd
    PROVE  /\ IsFiniteSet(Pills(feed)) /\ Pills(feed) \subseteq Token
           /\ \A a \in Address : FindTokenIdsOwnedByUser(a) \subseteq Pills(feed)
           /\ \A a, b \in Address :
                 a # b => FindTokenIdsOwnedByUser(a) \cap FindTokenIdsOwnedByUser(b) = {}
           /\ \A p \in Pills(feed) : \E a \in Address : p \in FindTokenIdsOwnedByUser(a)
<1>1. OneOwner /\ SettledIsChain /\ HandlersInv /\ RowsMatch /\ Calm /\ Settled
  BY OneOwnerHolds, SettledHolds DEF CalmEnd, FeedOrder
<1>2. \A a \in Address : \A p \in FindTokenIdsOwnedByUser(a) :
         p \in Token /\ p \in Listers(p) \cup {p} /\ a \in Listers(p) /\ Typed({"MINT"}, p) # {}
  BY DEF FindTokenIdsOwnedByUser, Listers, Owns, Typed
<1>3. \A p \in Token : Typed({"MINT"}, p) # {} => p \in Pills(feed)
  BY <1>1, MintedRows DEF Pills
<1>4. \A p \in Token : Typed({"MINT"}, p) # {} => Listers(p) = {GetTokenDetails(p).owner}
  BY <1>1 DEF OneOwner
<1>5. ASSUME NEW p \in Pills(feed)
      PROVE  p \in Token /\ Typed({"MINT"}, p) # {}
  <2> DEFINE n == MintOf(p)
  <2>1. p \in Token /\ Prescriptions(feed, p) # {}
    BY DEF Pills
  <2>2. n \in Prescriptions(feed, p)
    BY <1>1, <2>1, EventsIn, FirstExists DEF Prescriptions, MintOf
  <2>3. n \in DOMAIN feed /\ feed[n].token = p
    BY <2>2 DEF Prescriptions, EventsOf
  <2>4. db.event[n] = "MINT"
    BY <1>1, <2>1, <2>3 DEF SettledIsChain, Minted
  <2>5. "MINT" # None
    BY NoneAssumption DEF EventType
  <2> HIDE DEF n
  <2>6. n \in Typed({"MINT"}, p)
    BY <2>3, <2>4, <2>5 DEF Typed, RowsOf
  <2>. QED BY <2>1, <2>6
<1>6. IsFiniteSet(Pills(feed))
  <2> DEFINE f == [p \in Pills(feed) |-> CHOOSE n \in Prescriptions(feed, p) : TRUE]
  <2>1. \A p \in Pills(feed) : f[p] \in 1..MaxLength /\ feed[f[p]].token = p
    <3> TAKE p \in Pills(feed)
    <3>1. f[p] \in Prescriptions(feed, p)
      BY DEF Pills
    <3>. QED BY <1>1, <3>1, EventsIn DEF Prescriptions, EventsOf
  <2> HIDE DEF f
  <2> DEFINE g == [p \in Pills(feed) |-> f[p]]
  <2>2. g \in Injection(Pills(feed), 1..MaxLength)
    BY <2>1 DEF Injection, IsInjective
  <2>3. IsFiniteSet(1..MaxLength)
    BY FS_Interval, BoundsAssumption
  <2> HIDE DEF g
  <2>. QED BY <2>2, <2>3, FS_Injection
<1>7. ASSUME NEW p \in Pills(feed)
      PROVE  \E a \in Address : p \in FindTokenIdsOwnedByUser(a)
  <2>1. Listers(p) = {GetTokenDetails(p).owner}
    BY <1>4, <1>5
  <2>. QED BY <2>1 DEF Listers
<1>8. ASSUME NEW a \in Address, NEW b \in Address,
             NEW p \in FindTokenIdsOwnedByUser(a), p \in FindTokenIdsOwnedByUser(b)
      PROVE  a = b
  <2>1. p \in Token /\ Typed({"MINT"}, p) # {}
    BY <1>2
  <2>2. a \in Listers(p) /\ b \in Listers(p)
    BY <1>8 DEF Listers
  <2>. QED BY <1>4, <2>1, <2>2
<1>9. \A a \in Address : FindTokenIdsOwnedByUser(a) \subseteq Pills(feed)
  BY <1>2, <1>3
<1>. QED BY <1>5, <1>6, <1>7, <1>8, <1>9

(* Who may vote, on the chain and in the tables.                           *)
HasVote(t) == Of(Votes, t) = {} /\ PowerGiven(t) # {}

LEMMA VoteIsChain ==
    ASSUME CalmEnd, PowerInv
    PROVE  \A t : GivesPower(t) <=> t \in Token /\ HasVote(t)
<1>1. HandlersInv /\ SettledIsChain /\ SentInv /\ CalmInv /\ Calm /\ Settled
  BY SettledHolds DEF CalmEnd, FeedOrder
<1>2. db \in Tables /\ scenario \in Scenarios
  BY <1>1 DEF HandlersInv, Types
<1>3. ASSUME NEW t \in Token
      PROVE  db.vote[t] = 0 <=> Of(Votes, t) = {}
  <2> DEFINE n == LastOf(Of(Votes, t))
  <2>1. db.vote[t] = LastValue(Votes, t)
    BY <1>1 DEF SettledIsChain, Votes
  <2>2. ASSUME Of(Votes, t) # {}
        PROVE  feed[n].value # 0
    <3>1. n \in Of(Votes, t)
      BY <1>1, <2>2, EventsIn, LastExists DEF Of
    <3>2. feed[n] \in ChainEvent /\ feed[n].kind \in Votes
      BY <1>2, <3>1, FeedType DEF Of, EventsOf
    <3>. QED BY <3>2 DEF ChainEvent, Votes
  <2>. QED BY <2>1, <2>2 DEF LastValue
<1>4. ASSUME NEW t \in Token, PowerGiven(t) # {}
      PROVE  t \in db.votingPower
  <2>1. PICK n \in DOMAIN feed :
           feed[n].kind = "ATTRIBUTE_ADDED" /\ feed[n].token = t /\ feed[n].value = 1
    BY <1>4 DEF PowerGiven, Of, EventsOf
  <2> DEFINE j == [copy |-> 1, event |-> n]
  <2>2. /\ j \in Job /\ j.event = n /\ j.copy <= scenario.copies
    <3>1. 1 \in 1..Copies /\ n \in 1..MaxLength /\ 1 <= scenario.copies
      BY <1>2, FeedType, ScenarioAssumption, BoundsAssumption
    <3>. QED BY <3>1 DEF Job
  <2> HIDE DEF j
  <2>3. j \in Written
    BY <1>1, <2>2, AllHandled
  <2>4. Kept(n)
    <3>1. CASE state[j] = "done"
      BY <1>1, <2>2, <3>1 DEF HandlersInv, JobsInv
    <3>2. ASSUME NEW w \in Worker, running[w] = j, pc[w] = "return"
          PROVE  Kept(n)
      BY <1>1, <2>2, <3>2 DEF HandlersInv, WorkersSound, Sound, Early, Finding, Step
    <3>. QED BY <2>3, <3>1, <3>2 DEF Written
  <2>. QED BY <2>1, <2>4 DEF Kept, Settles, KeepsRow
<1>5. \A t \in db.votingPower : t \in Token /\ PowerGiven(t) # {}
  BY <1>2 DEF PowerInv, Tables
<1>. QED BY <1>3, <1>4, <1>5 DEF GivesPower, HasVote

(* The votes of some pills: their own, and those of the traits they wear.   *)
CastBy(X) == {v \in Token : HasVote(v) /\ \E p \in X : v = p \/ v \in WornOnChain(p)}

LEMMA CastOnce ==
    ASSUME CalmEnd, NEW X, X \subseteq Pills(feed), NEW Y, Y \subseteq Pills(feed), X \cap Y = {}
    PROVE  CastBy(X) \cap CastBy(Y) = {}
<1>1. WornOnce(feed)
  BY ChainAssumption DEF CalmEnd, HandlersInv, Types, Calm, feed
<1>2. ASSUME NEW v \in CastBy(X), v \in CastBy(Y)
      PROVE  FALSE
  <2>1. PICK p \in X : v = p \/ v \in WornOnChain(p)
    BY DEF CastBy
  <2>2. PICK q \in Y : v = q \/ v \in WornOnChain(q)
    BY <1>2 DEF CastBy
  <2>3. p \in Pills(feed) /\ q \in Pills(feed) /\ p # q
    BY <2>1, <2>2
  <2>4. /\ WornOnChain(p) \cap WornOnChain(q) = {}
        /\ WornOnChain(p) \cap Pills(feed) = {} /\ WornOnChain(q) \cap Pills(feed) = {}
    BY <1>1, <2>3 DEF WornOnce, WornOnChain
  <2>. QED BY <2>1, <2>2, <2>3, <2>4
<1>. QED BY <1>2

OwnVotes(X) == {t \in X : GivesPower(t)}
BackgroundVotes(X) == {t \in X : GivesPower(GetTokenDetails(t).background)}
IngredientVotes(X) == {t \in X : GivesPower(GetTokenDetails(t).ingredient)}

LEMMA CastCount ==
    ASSUME CalmEnd, PowerInv, NEW X, X \subseteq Pills(feed)
    PROVE  /\ IsFiniteSet(CastBy(X))
           /\ Cardinality(CastBy(X)) = Cardinality(OwnVotes(X))
                 + Cardinality(BackgroundVotes(X)) + Cardinality(IngredientVotes(X))
<1> DEFINE own == OwnVotes(X)  bgs == BackgroundVotes(X)  ings == IngredientVotes(X)
           worn(p) == LastPrescribed(feed, p)
           f == [p \in X |-> worn(p).bg]
           g == [p \in X |-> worn(p).ing]
           B == {f[p] : p \in bgs}
           I == {g[p] : p \in ings}
<1>1. /\ WornOnce(feed) /\ HandlersInv /\ RowsMatch /\ SentInv /\ InOrder /\ Settled
      /\ None \notin Token
  BY ChainAssumption, NoneAssumption DEF CalmEnd, HandlersInv, Types, FeedOrder, Calm, feed
<1>2. IsFiniteSet(X) /\ IsFiniteSet(own) /\ IsFiniteSet(bgs) /\ IsFiniteSet(ings)
  <2>1. IsFiniteSet(Pills(feed))
    BY EachPillListed
  <2>2. IsFiniteSet(X)
    BY <2>1, FS_Subset
  <2>3. own \subseteq X /\ bgs \subseteq X /\ ings \subseteq X
    BY DEF OwnVotes, BackgroundVotes, IngredientVotes
  <2>. QED BY <2>2, <2>3, FS_Subset
<1>3. \A t : GivesPower(t) <=> t \in Token /\ HasVote(t)
  BY VoteIsChain
<1>4. \A p \in X : /\ p \in Pills(feed) /\ p \in Token
                   /\ GetTokenDetails(p).background = f[p]
                   /\ GetTokenDetails(p).ingredient = g[p]
                   /\ WornOnChain(p) = {f[p], g[p]} \ {None}
  <2> TAKE p \in X
  <2>1. p \in Pills(feed) /\ p \in Token
    BY DEF Pills
  <2>2. /\ GetTokenDetails(p).background = worn(p).bg
        /\ GetTokenDetails(p).ingredient = worn(p).ing
    BY <1>1, <2>1, PageIsChain
  <2>. QED BY <2>1, <2>2 DEF WornOnChain, Traits
<1>5. /\ \A p, q \in X : p # q => WornOnChain(p) \cap WornOnChain(q) = {}
      /\ \A p \in X : WornOnChain(p) \cap Pills(feed) = {} /\ (f[p] = None \/ f[p] # g[p])
  <2>1. \A p, q \in X : p # q => WornOnChain(p) \cap WornOnChain(q) = {}
    BY <1>1, <1>4 DEF WornOnce, WornOnChain
  <2>2. \A p \in X : WornOnChain(p) \cap Pills(feed) = {} /\ (worn(p).bg = None \/ worn(p).bg # worn(p).ing)
    BY <1>1, <1>4 DEF WornOnce, WornOnChain
  <2>. QED BY <2>1, <2>2
<1> HIDE DEF f, g
<1>6. /\ \A p \in bgs : p \in X /\ f[p] \in WornOnChain(p) /\ f[p] \in Token /\ HasVote(f[p])
      /\ \A p \in ings : p \in X /\ g[p] \in WornOnChain(p) /\ g[p] \in Token /\ HasVote(g[p])
      /\ \A p \in own : p \in X /\ p \in Token /\ HasVote(p) /\ p \in Pills(feed)
  BY <1>1, <1>3, <1>4 DEF OwnVotes, BackgroundVotes, IngredientVotes
<1>7. IsFiniteSet(B) /\ Cardinality(B) = Cardinality(bgs)
  <2>1. \A p, q \in bgs : f[p] = f[q] => p = q
    BY <1>5, <1>6
  <2>. QED BY <1>2, <2>1, SameSize
<1>8. IsFiniteSet(I) /\ Cardinality(I) = Cardinality(ings)
  <2>1. \A p, q \in ings : g[p] = g[q] => p = q
    BY <1>5, <1>6
  <2>. QED BY <1>2, <2>1, SameSize
<1>9. CastBy(X) = own \cup B \cup I
  <2>1. \A v \in CastBy(X) : v \in own \cup B \cup I
    <3> TAKE v \in CastBy(X)
    <3>1. v \in Token /\ HasVote(v) /\ GivesPower(v)
      BY <1>3 DEF CastBy
    <3>2. PICK p \in X : v = p \/ v = f[p] \/ v = g[p]
      BY <1>4 DEF CastBy
    <3>3. CASE v = p
      BY <3>1, <3>2, <3>3 DEF OwnVotes
    <3>4. CASE v = f[p]
      <4>1. p \in bgs
        BY <1>4, <3>1, <3>2, <3>4 DEF BackgroundVotes
      <4>. QED BY <3>4, <4>1
    <3>5. CASE v = g[p]
      <4>1. p \in ings
        BY <1>4, <3>1, <3>2, <3>5 DEF IngredientVotes
      <4>. QED BY <3>5, <4>1
    <3>. QED BY <3>2, <3>3, <3>4, <3>5
  <2>2. \A v \in own \cup B \cup I : v \in CastBy(X)
    BY <1>6 DEF CastBy
  <2>. QED BY <2>1, <2>2
<1>10. own \cap B = {} /\ (own \cup B) \cap I = {}
  <2>1. own \cap B = {} /\ own \cap I = {}
    BY <1>5, <1>6
  <2>2. ASSUME NEW p \in bgs, NEW q \in ings, f[p] = g[q]
        PROVE  FALSE
    <3>1. p = q
      BY <1>5, <1>6, <2>2
    <3>2. f[p] # None
      BY <1>1, <1>6
    <3>. QED BY <1>5, <1>6, <2>2, <3>1, <3>2
  <2>. QED BY <2>1, <2>2
<1> HIDE DEF B, I
<1>11. /\ IsFiniteSet(own \cup B) /\ Cardinality(own \cup B) = Cardinality(own) + Cardinality(B)
       /\ Cardinality(own) \in Nat /\ Cardinality(B) \in Nat /\ Cardinality(I) \in Nat
  <2>1. IsFiniteSet(own \cup B)
        /\ Cardinality(own \cup B) = Cardinality(own) + Cardinality(B) - Cardinality(own \cap B)
    BY <1>2, <1>7, FS_Union
  <2>2. Cardinality(own \cap B) = 0
    BY <1>10, FS_EmptySet
  <2>. QED BY <1>2, <1>7, <1>8, <2>1, <2>2, FS_CardinalityType
<1>12. /\ IsFiniteSet((own \cup B) \cup I)
       /\ Cardinality((own \cup B) \cup I) = Cardinality(own \cup B) + Cardinality(I)
  <2>1. /\ IsFiniteSet((own \cup B) \cup I)
        /\ Cardinality((own \cup B) \cup I)
             = Cardinality(own \cup B) + Cardinality(I) - Cardinality((own \cup B) \cap I)
    BY <1>8, <1>11, FS_Union
  <2>2. Cardinality((own \cup B) \cap I) = 0
    BY <1>10, FS_EmptySet
  <2>3. Cardinality(own \cup B) \in Nat
    BY <1>11
  <2>. QED BY <1>11, <2>1, <2>2, <2>3
<1>. QED BY <1>7, <1>8, <1>9, <1>11, <1>12

FameOnChain(p) == LastAmount("PILL_FAME_UPDATED", p) - LastAmount("PILL_DEFAME_UPDATED", p)

(* The sums the queries ask for, and the one on the chain.                  *)
LEMMA SumVotes ==
    ASSUME NEW S, IsFiniteSet(S), NEW h, IntOn(h, S), \A a \in S : h[a] = VotingPower(a)
    PROVE  MapThenSumSet(VotingPower, S) = Sum(h, S)
<1> DEFINE Q(f) == f = [s \in SUBSET S |->
                          IF s = {} THEN 0
                          ELSE VotingPower(CHOOSE x \in s : TRUE) + f[s \ {CHOOSE x \in s : TRUE}]]
<1>1. MapThenSumSet(VotingPower, S) = (CHOOSE f : Q(f))[S]
  BY DEF MapThenSumSet, MapThenFoldSet
<1>2. \A f : Q(f) <=> Folded(f, h, S)
  <2> TAKE f
  <2>1. \A s \in SUBSET S : s # {} =>
           Pick(s) = (CHOOSE x \in s : TRUE) /\ h[Pick(s)] = VotingPower(CHOOSE x \in s : TRUE)
    BY PickIs DEF Pick
  <2>. QED BY <2>1 DEF Folded
<1> HIDE DEF Q
<1>3. Q(CHOOSE f : Q(f))
  <2>1. \E f : Q(f)
    BY <1>2, FoldedSum
  <2>. QED BY <2>1
<1>. QED BY <1>1, <1>2, <1>3, FoldedSum

LEMMA SumFame ==
    ASSUME NEW S, IsFiniteSet(S), NEW h, IntOn(h, S), \A a \in S : h[a] = TotalFame(a)
    PROVE  MapThenSumSet(TotalFame, S) = Sum(h, S)
<1> DEFINE Q(f) == f = [s \in SUBSET S |->
                          IF s = {} THEN 0
                          ELSE TotalFame(CHOOSE x \in s : TRUE) + f[s \ {CHOOSE x \in s : TRUE}]]
<1>1. MapThenSumSet(TotalFame, S) = (CHOOSE f : Q(f))[S]
  BY DEF MapThenSumSet, MapThenFoldSet
<1>2. \A f : Q(f) <=> Folded(f, h, S)
  <2> TAKE f
  <2>1. \A s \in SUBSET S : s # {} =>
           Pick(s) = (CHOOSE x \in s : TRUE) /\ h[Pick(s)] = TotalFame(CHOOSE x \in s : TRUE)
    BY PickIs DEF Pick
  <2>. QED BY <2>1 DEF Folded
<1> HIDE DEF Q
<1>3. Q(CHOOSE f : Q(f))
  <2>1. \E f : Q(f)
    BY <1>2, FoldedSum
  <2>. QED BY <2>1
<1>. QED BY <1>1, <1>2, <1>3, FoldedSum

LEMMA SumPages ==
    ASSUME NEW a, NEW S, S = FindTokenIdsOwnedByUser(a), IsFiniteSet(S), NEW h, IntOn(h, S),
           \A t \in S : h[t] = GetTokenDetails(t).fame - GetTokenDetails(t).defame
    PROVE  TotalFame(a) = Sum(h, S)
<1> DEFINE page(t) == GetTokenDetails(t).fame - GetTokenDetails(t).defame
           Q(f) == f = [s \in SUBSET S |->
                          IF s = {} THEN 0
                          ELSE page(CHOOSE x \in s : TRUE) + f[s \ {CHOOSE x \in s : TRUE}]]
<1>1. TotalFame(a) = (CHOOSE f : Q(f))[S]
  BY DEF TotalFame, MapThenSumSet, MapThenFoldSet
<1>2. \A f : Q(f) <=> Folded(f, h, S)
  <2> TAKE f
  <2>1. \A s \in SUBSET S : s # {} =>
           Pick(s) = (CHOOSE x \in s : TRUE) /\ h[Pick(s)] = page(CHOOSE x \in s : TRUE)
    BY PickIs DEF Pick
  <2> HIDE DEF page
  <2>. QED BY <2>1 DEF Folded
<1> HIDE DEF Q
<1>3. Q(CHOOSE f : Q(f))
  <2>1. \E f : Q(f)
    BY <1>2, FoldedSum
  <2>. QED BY <2>1
<1>. QED BY <1>1, <1>2, <1>3, FoldedSum

LEMMA SumOnChain ==
    ASSUME NEW S, IsFiniteSet(S), NEW h, IntOn(h, S), \A p \in S : h[p] = FameOnChain(p)
    PROVE  MapThenSumSet(LAMBDA p : LastAmount("PILL_FAME_UPDATED", p)
                                      - LastAmount("PILL_DEFAME_UPDATED", p), S) = Sum(h, S)
<1> DEFINE Q(f) == f = [s \in SUBSET S |->
                          IF s = {} THEN 0
                          ELSE FameOnChain(CHOOSE x \in s : TRUE) + f[s \ {CHOOSE x \in s : TRUE}]]
<1>1. MapThenSumSet(LAMBDA p : LastAmount("PILL_FAME_UPDATED", p)
                                 - LastAmount("PILL_DEFAME_UPDATED", p), S) = (CHOOSE f : Q(f))[S]
  BY DEF MapThenSumSet, MapThenFoldSet, FameOnChain
<1>2. \A f : Q(f) <=> Folded(f, h, S)
  <2> TAKE f
  <2>1. \A s \in SUBSET S : s # {} =>
           Pick(s) = (CHOOSE x \in s : TRUE) /\ h[Pick(s)] = FameOnChain(CHOOSE x \in s : TRUE)
    BY PickIs DEF Pick
  <2>. QED BY <2>1 DEF Folded
<1> HIDE DEF Q
<1>3. Q(CHOOSE f : Q(f))
  <2>1. \E f : Q(f)
    BY <1>2, FoldedSum
  <2>. QED BY <2>1
<1>. QED BY <1>1, <1>2, <1>3, FoldedSum

LEMMA VotesAddUp ==
    ASSUME CalmEnd, PowerInv
    PROVE  MapThenSumSet(VotingPower, Address) = Cardinality(CastBy(Pills(feed)))
<1> DEFINE Own(a) == FindTokenIdsOwnedByUser(a)
           F == [a \in Address |-> CastBy(Own(a))]
           H == [a \in Address |-> VotingPower(a)]
           ones == [v \in Token |-> 1]
<1>1. /\ \A a \in Address : Own(a) \subseteq Pills(feed)
      /\ \A a, b \in Address : a # b => Own(a) \cap Own(b) = {}
      /\ \A p \in Pills(feed) : \E a \in Address : p \in Own(a)
  BY EachPillListed
<1>2. ASSUME NEW a \in Address
      PROVE  IsFiniteSet(F[a]) /\ H[a] = Cardinality(F[a])
  <2> DEFINE X == Own(a)
  <2>1. VotingPower(a) = Cardinality(OwnVotes(X)) + Cardinality(BackgroundVotes(X))
                         + Cardinality(IngredientVotes(X))
    BY DEF VotingPower, OwnVotes, BackgroundVotes, IngredientVotes
  <2>2. X \subseteq Pills(feed)
    BY <1>1
  <2>3. F[a] = CastBy(X)
    OBVIOUS
  <2> HIDE DEF X
  <2>. QED BY <2>1, <2>2, <2>3, CastCount
<1>3. \A a \in Address : F[a] \subseteq Token
  BY DEF CastBy
<1>4. \A a, b \in Address : a # b => F[a] \cap F[b] = {}
  <2> TAKE a, b \in Address
  <2> HAVE a # b
  <2>1. Own(a) \subseteq Pills(feed) /\ Own(b) \subseteq Pills(feed) /\ Own(a) \cap Own(b) = {}
    BY <1>1
  <2> HIDE DEF Own
  <2>. QED BY <2>1, CastOnce
<1>5. UNION {F[a] : a \in Address} = CastBy(Pills(feed))
  <2>1. \A v : (\E a \in Address : v \in F[a]) <=> v \in CastBy(Pills(feed))
    BY <1>1 DEF CastBy
  <2> HIDE DEF F
  <2>. QED BY <2>1
<1>6. \A v \in Token : ones[v] = 1
  OBVIOUS
<1>7. \A a \in Address : H[a] = VotingPower(a)
  OBVIOUS
<1> HIDE DEF F, H, ones, Own
<1>8. \A a \in Address : IntOn(ones, F[a]) /\ H[a] = Sum(ones, F[a])
  <2> TAKE a \in Address
  <2>1. IsFiniteSet(F[a]) /\ \A v \in F[a] : ones[v] = 1
    BY <1>2, <1>3, <1>6
  <2>2. Sum(ones, F[a]) = Cardinality(F[a])
    BY <2>1, SumOnes
  <2>. QED BY <1>2, <2>1, <2>2 DEF IntOn
<1> DEFINE all == UNION {F[a] : a \in Address}
<1>9. IsFiniteSet(all) /\ Sum(H, Address) = Sum(ones, all)
  BY <1>2, <1>4, <1>8, AddressAssumption, SumFibres
<1>10. Sum(ones, all) = Cardinality(all)
  <2>1. \A v \in all : ones[v] = 1
    BY <1>3, <1>6
  <2> HIDE DEF all
  <2>. QED BY <1>9, <2>1, SumOnes
<1>11. MapThenSumSet(VotingPower, Address) = Sum(H, Address)
  <2>1. IntOn(H, Address)
    BY <1>2, FS_CardinalityType DEF IntOn
  <2>. QED BY <1>7, <2>1, AddressAssumption, SumVotes
<1>. QED BY <1>5, <1>9, <1>10, <1>11

LEMMA FameAddsUp ==
    ASSUME CalmEnd
    PROVE  MapThenSumSet(TotalFame, Address) =
              MapThenSumSet(LAMBDA p : LastAmount("PILL_FAME_UPDATED", p)
                                         - LastAmount("PILL_DEFAME_UPDATED", p), Pills(feed))
<1> DEFINE Own(a) == FindTokenIdsOwnedByUser(a)
           F == [a \in Address |-> Own(a)]
           H == [a \in Address |-> TotalFame(a)]
           h == [p \in Pills(feed) |-> FameOnChain(p)]
<1>1. /\ IsFiniteSet(Pills(feed)) /\ Pills(feed) \subseteq Token
      /\ \A a \in Address : Own(a) \subseteq Pills(feed)
      /\ \A a, b \in Address : a # b => Own(a) \cap Own(b) = {}
      /\ \A p \in Pills(feed) : \E a \in Address : p \in Own(a)
  BY EachPillListed
<1>2. HandlersInv /\ RowsMatch /\ SentInv /\ InOrder /\ Settled
  BY DEF CalmEnd, FeedOrder
<1>3. \A p \in Pills(feed) : FameOnChain(p) \in Int
  <2>1. ASSUME NEW kind, NEW t
        PROVE  LastAmount(kind, t) \in Nat
    <3> DEFINE n == LastOf(Of({kind}, t))
    <3>1. ASSUME Of({kind}, t) # {}
          PROVE  feed[n].value \in Nat
      <4>1. n \in Of({kind}, t)
        BY <1>2, <3>1, EventsIn, LastExists DEF Of
      <4>2. feed[n] \in ChainEvent
        BY <1>2, <4>1, FeedType DEF Of, EventsOf, HandlersInv, Types
      <4>. QED BY <4>2, EventFields
    <3>. QED BY <3>1 DEF LastAmount, LastValue
  <2>. QED BY <2>1 DEF FameOnChain
<1>4. \A p \in Pills(feed) : h[p] = FameOnChain(p) /\ h[p] \in Int
  BY <1>3
<1>5. \A a \in Address : H[a] = TotalFame(a) /\ F[a] = Own(a)
  OBVIOUS
<1> HIDE DEF F, H, h, Own
<1>6. ASSUME NEW a \in Address
      PROVE  IsFiniteSet(F[a]) /\ IntOn(h, F[a]) /\ H[a] = Sum(h, F[a])
  <2>1. IsFiniteSet(F[a]) /\ F[a] \subseteq Pills(feed)
    BY <1>1, <1>5, FS_Subset
  <2>2. IntOn(h, F[a])
    BY <1>4, <2>1 DEF IntOn
  <2>3. \A t \in F[a] : h[t] = GetTokenDetails(t).fame - GetTokenDetails(t).defame
    <3> TAKE t \in F[a]
    <3>1. /\ GetTokenDetails(t).fame = LastAmount("PILL_FAME_UPDATED", t)
          /\ GetTokenDetails(t).defame = LastAmount("PILL_DEFAME_UPDATED", t)
      <4>1. t \in Pills(feed)
        BY <2>1
      <4>. QED BY <1>2, <4>1, PageIsChain
    <3>. QED BY <1>4, <2>1, <3>1 DEF FameOnChain
  <2>4. TotalFame(a) = Sum(h, F[a])
    <3>1. F[a] = FindTokenIdsOwnedByUser(a)
      BY <1>5 DEF Own
    <3>. QED BY <2>1, <2>2, <2>3, <3>1, SumPages
  <2>. QED BY <1>5, <2>1, <2>2, <2>4
<1>7. \A a, b \in Address : a # b => F[a] \cap F[b] = {}
  BY <1>1, <1>5
<1> DEFINE all == UNION {F[a] : a \in Address}
<1>8. Sum(H, Address) = Sum(h, all)
  BY <1>6, <1>7, AddressAssumption, SumFibres
<1>9. all = Pills(feed)
  BY <1>1, <1>5
<1> HIDE DEF all
<1>10. MapThenSumSet(TotalFame, Address) = Sum(H, Address)
  <2>1. IntOn(H, Address)
    <3>1. \A a \in Address : Sum(h, F[a]) \in Int
      BY <1>6, SumTake
    <3>. QED BY <1>6, <3>1 DEF IntOn
  <2>. QED BY <1>5, <2>1, AddressAssumption, SumFame
<1>11. MapThenSumSet(LAMBDA p : LastAmount("PILL_FAME_UPDATED", p)
                                  - LastAmount("PILL_DEFAME_UPDATED", p), Pills(feed))
          = Sum(h, Pills(feed))
  <2>1. IntOn(h, Pills(feed))
    BY <1>4 DEF IntOn
  <2>. QED BY <1>1, <1>4, <2>1, SumOnChain
<1>. QED BY <1>8, <1>9, <1>10, <1>11

(* One worker and no fault: once the queue is empty, the wallets' votes are
   together the votes of the chain, and their fame is the pills' fame: what one
   wallet's pages count no other wallet's do, and every pill is somebody's. *)
THEOREM EachCountedOnce == Spec => []CountedOnce
<1>1. HandlersInv /\ FeedOrder /\ (Calm => CalmInv) /\ PowerInv => CountedOnce
  <2> SUFFICES ASSUME CalmEnd, PowerInv
               PROVE  LET pills == Pills(feed)
                          votes == {t \in Token :
                                      /\ Of({"PILL_VOTE_TIMESTAMP", "TRAIT_VOTE_TIME_STAMP"}, t) = {}
                                      /\ \E n \in Of({"ATTRIBUTE_ADDED"}, t) : feed[n].value = 1
                                      /\ t \in pills \/ \E p \in pills : t \in WornOnChain(p)}
                      IN  /\ MapThenSumSet(VotingPower, Address) = Cardinality(votes)
                          /\ MapThenSumSet(TotalFame, Address) =
                                MapThenSumSet(LAMBDA p : LastAmount("PILL_FAME_UPDATED", p)
                                                           - LastAmount("PILL_DEFAME_UPDATED", p), pills)
    BY DEF CountedOnce, CalmEnd
  <2> DEFINE pills == Pills(feed)
             votes == {t \in Token :
                         /\ Of({"PILL_VOTE_TIMESTAMP", "TRAIT_VOTE_TIME_STAMP"}, t) = {}
                         /\ \E n \in Of({"ATTRIBUTE_ADDED"}, t) : feed[n].value = 1
                         /\ t \in pills \/ \E p \in pills : t \in WornOnChain(p)}
  <2>1. votes = CastBy(pills)
    <3>1. \A t : HasVote(t) <=>
             /\ Of({"PILL_VOTE_TIMESTAMP", "TRAIT_VOTE_TIME_STAMP"}, t) = {}
             /\ \E n \in Of({"ATTRIBUTE_ADDED"}, t) : feed[n].value = 1
      BY DEF HasVote, PowerGiven, Votes
    <3> HIDE DEF pills
    <3>. QED BY <3>1 DEF CastBy
  <2>. QED BY <2>1, VotesAddUp, FameAddsUp
<1>. QED BY <1>1, HandlersInvariant, FeedOrderInvariant, CalmInvariant, PowerIsGiven, PTL
===============================================================================
