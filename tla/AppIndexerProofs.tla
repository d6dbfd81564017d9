--------------------------- MODULE AppIndexerProofs ---------------------------
(***************************************************************************)
(* The keys handleData gives to events, and what the table holds of them,  *)
(* for any chain, any number of streams and any reorganisations.           *)
(***************************************************************************)
EXTENDS AppIndexer, FiniteSetTheorems, TLAPS

-------------------------------------------------------------------------------
(* The decoders                                                            *)

(* Each decoder finds the members where the contract put them.             *)
LEMMA Decoded ==
    ASSUME NEW name \in EventName, NEW m \in Members(name, Address)
    PROVE  Decode(name, Words(name, m)) = m
<1>1. CASE name = "Transfer"
  BY <1>1 DEF Members, Words, Decode, U256
<1>2. CASE name = "PrescriptionUpdated"
  BY <1>2 DEF Members, Words, Decode, U256, DecodePrescriptionUpdated, Sum256
<1>3. CASE name = "ScalarTransfer"
  BY <1>3 DEF Members, Words, Decode, U256, Sum256, Unread
<1>4. CASE name = "ScalarRemove"
  BY <1>4 DEF Members, Words, Decode, U256, Sum256
<1>5. CASE name = "AttributeAdded"
  BY <1>5 DEF Members, Words, Decode, U256, Sum256, Unread
<1>6. CASE name \in {"PillFameUpdated", "PillDeFameUpdated"}
  BY <1>6 DEF Members, Words, Decode, U256, Sum256
<1>7. CASE name = "PharmacyStockUpdate"
  BY <1>7 DEF Members, Words, Decode
<1>8. CASE name = "PillVoteTimeStamp"
  BY <1>8 DEF Members, Words, Decode, U256, Sum256
<1>9. CASE name = "TraitVoteTimeStamp"
  BY <1>9 DEF Members, Words, Decode, U256, Sum256, Unread
<1>10. CASE name = "TraitRedemption"
  BY <1>10 DEF Members, Words, Decode, U256, Sum256
<1>. QED
  BY <1>1, <1>2, <1>3, <1>4, <1>5, <1>6, <1>7, <1>8, <1>9, <1>10 DEF EventName
-------------------------------------------------------------------------------
(* The counter                                                             *)

LEMMA PairsFinite ==
    ASSUME NEW block
    PROVE  /\ IsFiniteSet(Pairs(block))
           /\ Cardinality(Pairs(block)) \in 0..(MaxEvents * MaxKeys)
           /\ MaxEvents * MaxKeys \in Nat
           /\ \A p \in Pairs(block) : p[1] \in Nat /\ p[2] \in Nat /\ p = <<p[1], p[2]>>
<1> DEFINE E == 1..MaxEvents
           K == 1..MaxKeys
<1>1. MaxEvents \in Nat /\ MaxKeys \in Nat
  BY BoundsAssumption
<1>2. IsFiniteSet(E) /\ Cardinality(E) = MaxEvents
  BY <1>1, FS_Interval
<1>3. IsFiniteSet(K) /\ Cardinality(K) = MaxKeys
  BY <1>1, FS_Interval
<1>4. Pairs(block) \subseteq E \X K
  BY DEF Pairs
<1>5. \A p \in E \X K : p[1] \in Nat /\ p[2] \in Nat /\ p = <<p[1], p[2]>>
  BY <1>1
<1> HIDE DEF E, K
<1>6. IsFiniteSet(E \X K) /\ Cardinality(E \X K) = MaxEvents * MaxKeys
  BY <1>2, <1>3, FS_Product
<1>7. Cardinality(E \X K) \in Nat
  BY <1>6, FS_CardinalityType
<1>8. IsFiniteSet(Pairs(block)) /\ Cardinality(Pairs(block)) <= Cardinality(E \X K)
  BY <1>4, <1>6, FS_Subset
<1>9. Cardinality(Pairs(block)) \in Nat
  BY <1>8, FS_CardinalityType
<1>. QED BY <1>4, <1>5, <1>6, <1>7, <1>8, <1>9

UpTo(block, p) == {q \in Pairs(block) : NotAfter(q, p)}

LEMMA IndexType ==
    ASSUME NEW block, NEW p \in Pairs(block)
    PROVE  /\ EventIndex(block, p) \in 1..(MaxEvents * MaxKeys)
           /\ IsFiniteSet(UpTo(block, p)) /\ EventIndex(block, p) = Cardinality(UpTo(block, p))
<1>1. UpTo(block, p) \subseteq Pairs(block)
  BY DEF UpTo
<1>2. EventIndex(block, p) = Cardinality(UpTo(block, p))
  BY DEF EventIndex, UpTo
<1>3. IsFiniteSet(UpTo(block, p)) /\ Cardinality(UpTo(block, p)) <= Cardinality(Pairs(block))
  BY <1>1, PairsFinite, FS_Subset
<1>4. Cardinality(UpTo(block, p)) \in Nat
  BY <1>3, FS_CardinalityType
<1>5. p \in UpTo(block, p)
  BY PairsFinite DEF UpTo, NotAfter
<1>6. Cardinality(UpTo(block, p)) # 0
  BY <1>3, <1>5, FS_EmptySet
<1>. QED BY <1>2, <1>3, <1>4, <1>6, PairsFinite

(* A later pair has a larger number.                                       *)
LEMMA IndexGrows ==
    ASSUME NEW block, NEW p \in Pairs(block), NEW q \in Pairs(block), ~NotAfter(q, p)
    PROVE  NotAfter(p, q) /\ EventIndex(block, p) < EventIndex(block, q)
<1>1. /\ p[1] \in Nat /\ p[2] \in Nat /\ q[1] \in Nat /\ q[2] \in Nat
      /\ \A r \in Pairs(block) : r[1] \in Nat /\ r[2] \in Nat
  BY PairsFinite
<1>2. NotAfter(p, q)
  BY <1>1 DEF NotAfter
<1>3. UpTo(block, p) \subseteq UpTo(block, q)
  BY <1>1, <1>2 DEF UpTo, NotAfter
<1>4. q \in UpTo(block, q) /\ q \notin UpTo(block, p)
  BY <1>1 DEF UpTo, NotAfter
<1>5. /\ Cardinality(UpTo(block, p)) <= Cardinality(UpTo(block, q))
      /\ Cardinality(UpTo(block, p)) # Cardinality(UpTo(block, q))
  BY <1>3, <1>4, IndexType, FS_Subset
<1>. QED BY <1>2, <1>5, IndexType

(* The numbers of a block are those of its pairs, in their order.          *)
LEMMA IndexOrder ==
    ASSUME NEW block, NEW p \in Pairs(block), NEW q \in Pairs(block)
    PROVE  /\ EventIndex(block, p) <= EventIndex(block, q) <=> NotAfter(p, q)
           /\ EventIndex(block, p) = EventIndex(block, q) => p = q
<1>1. EventIndex(block, p) \in Nat /\ EventIndex(block, q) \in Nat
  BY IndexType, PairsFinite
<1>2. NotAfter(p, q) /\ NotAfter(q, p) => p = q
  BY PairsFinite DEF NotAfter
<1>3. ~NotAfter(p, q) => NotAfter(q, p) /\ EventIndex(block, q) < EventIndex(block, p)
  BY IndexGrows
<1>4. ~NotAfter(q, p) => NotAfter(p, q) /\ EventIndex(block, p) < EventIndex(block, q)
  BY IndexGrows
<1>. QED BY <1>1, <1>2, <1>3, <1>4
-------------------------------------------------------------------------------
(* Every job and row is what handleData made of a block that a stream
   delivered and that is still on the chain, unless its transaction was
   dropped; and each event of such a block is waiting or in the table.      *)
Indexed(b, p) == Item(b, p, EventIndex(chain[b], p))
Made(i) == i.block \in delivered /\ \E p \in Relevant(chain[i.block]) : i = Indexed(i.block, p)

Present(b, p) ==
    \/ Indexed(b, p) \in jobs \cup table
    \/ chain[b][p[1]].tx \in dropped
    \/ Name(chain[b], p) \notin RowNames

IndexerInv ==
    /\ TypeOK
    /\ delivered \subseteq DOMAIN chain
    /\ \A i \in jobs \cup table : i.tx \in dropped \/ Made(i)
    /\ \A b \in delivered : \A p \in Relevant(chain[b]) : Present(b, p)
-------------------------------------------------------------------------------
LEMMA ChainIs ==
    ASSUME TypeOK
    PROVE  /\ Bounded(chain)
           /\ \A b \in DOMAIN chain : \A n \in DOMAIN chain[b] : LaidOut(chain[b][n])
           /\ \A a, b \in DOMAIN chain :
                 a # b => TransactionsOf(chain[a]) \cap TransactionsOf(chain[b]) \subseteq {None}
BY ChainAssumption DEF TypeOK

(* An item that is made of a pair has its transaction, its number and what was
   said under its key.                                                     *)
LEMMA MadeOf ==
    ASSUME TypeOK, NEW b \in DOMAIN chain, NEW p \in Relevant(chain[b])
    PROVE  LET i == Indexed(b, p)
               e == chain[b][p[1]]
           IN  /\ p \in Pairs(chain[b]) /\ i.block = b /\ i.eventIndex = EventIndex(chain[b], p)
               /\ i.tx = e.tx /\ i.tx # None /\ i.tx \in TransactionsOf(chain[b])
               /\ i.name = Name(chain[b], p) /\ i.name \in EventName
               /\ i.data = e.members /\ e.members \in Members(i.name, Address)
<1> DEFINE e == chain[b][p[1]]
           name == Name(chain[b], p)
<1>1. p \in Pairs(chain[b]) /\ name \in EventName
  BY DEF Relevant, IsRelevant
<1>2. p[1] \in DOMAIN chain[b] /\ p[2] \in DOMAIN e.keys /\ e.tx # None
  BY <1>1 DEF Pairs
<1>3. LaidOut(e)
  BY <1>2, ChainIs
<1>4. e.members \in Members(name, Address) /\ e.data = Words(name, e.members)
  BY <1>1, <1>2, <1>3 DEF LaidOut, Name
<1>5. Decode(name, e.data) = e.members
  BY <1>1, <1>4, Decoded
<1>. QED BY <1>1, <1>2, <1>4, <1>5 DEF Indexed, Item, TransactionsOf

(* What a pair that is worth a row says on the chain.                      *)
LEMMA KeptIs ==
    ASSUME TypeOK, NEW b \in DOMAIN chain, NEW p
    PROVE  /\ p \in Kept(b) <=> /\ p \in Relevant(chain[b])
                                /\ chain[b][p[1]].tx \notin dropped
                                /\ Name(chain[b], p) \in RowNames
           /\ p \in Kept(b) => Content(Indexed(b, p)) = OnChain(b, p)
<1> DEFINE e == chain[b][p[1]]
           name == Name(chain[b], p)
<1>1. RowNames \subseteq EventName
  BY DEF RowNames, EventName
<1>2. ASSUME p \in Pairs(chain[b]), name \in EventName
      PROVE  name = "Transfer" => e.data[1] = e.members.from /\ e.data[2] = e.members.to
  <2>1. p[1] \in DOMAIN chain[b] /\ p[2] \in DOMAIN e.keys
    BY <1>2 DEF Pairs
  <2>2. LaidOut(e)
    BY <2>1, ChainIs
  <2>3. e.members \in Members(name, Address) /\ e.data = Words(name, e.members)
    BY <1>2, <2>1, <2>2 DEF LaidOut, Name
  <2>. QED BY <2>3 DEF Members, Words, U256
<1>3. p \in Kept(b) <=> /\ p \in Relevant(chain[b])
                        /\ e.tx \notin dropped
                        /\ name \in RowNames
  BY <1>1, <1>2 DEF Kept, Relevant, IsRelevant
<1>4. p \in Kept(b) => Content(Indexed(b, p)) = OnChain(b, p)
  BY <1>3, MadeOf DEF Content, OnChain
<1>. QED BY <1>3, <1>4

(* A key stands for one event: whoever has it comes from the same pair.    *)
LEMMA KeyOfOne ==
    ASSUME IndexerInv, NEW i \in jobs \cup table, NEW r \in jobs \cup table,
           i.tx \notin dropped, r.tx = i.tx, r.eventIndex = i.eventIndex
    PROVE  r = i
<1>1. TypeOK /\ i.block \in DOMAIN chain /\ r.block \in DOMAIN chain
  BY DEF IndexerInv, Made
<1>2. PICK p \in Relevant(chain[i.block]) : i = Indexed(i.block, p)
  BY DEF IndexerInv, Made
<1>3. PICK q \in Relevant(chain[r.block]) : r = Indexed(r.block, q)
  BY DEF IndexerInv, Made
<1>4. /\ i.tx \in TransactionsOf(chain[i.block]) /\ i.tx # None
      /\ p \in Pairs(chain[i.block]) /\ i.eventIndex = EventIndex(chain[i.block], p)
  BY <1>1, <1>2, MadeOf
<1>5. /\ r.tx \in TransactionsOf(chain[r.block])
      /\ q \in Pairs(chain[r.block]) /\ r.eventIndex = EventIndex(chain[r.block], q)
  BY <1>1, <1>3, MadeOf
<1>6. r.block = i.block
  BY <1>1, <1>4, <1>5, ChainIs
<1>7. p = q
  BY <1>4, <1>5, <1>6, IndexOrder
<1>. QED BY <1>2, <1>3, <1>6, <1>7
-------------------------------------------------------------------------------
(* The steps                                                               *)

LEMMA IndexerStart == Init => IndexerInv
<1> SUFFICES ASSUME Init
             PROVE  IndexerInv
  OBVIOUS
<1>1. Streams \in Nat /\ MaxBlocks \in Nat
  BY BoundsAssumption
<1>2. TypeOK
  BY <1>1 DEF Init, TypeOK
<1>. QED BY <1>2 DEF Init, IndexerInv

LEMMA CreateStreamStep ==
    ASSUME IndexerInv, NEW s \in 1..Streams, NEW b \in 1..MaxBlocks, CreateStream(s, b)
    PROVE  IndexerInv'
<1>1. b \in 0..MaxBlocks /\ b \in 0..(MaxBlocks + 1)
  BY BoundsAssumption
<1>2. TypeOK'
  BY <1>1 DEF IndexerInv, TypeOK, CreateStream, history
<1>. QED
  BY <1>2 DEF IndexerInv, CreateStream, history, Made, Present, Indexed, Item

LEMMA HandleDataStep ==
    ASSUME IndexerInv, NEW s \in 1..Streams, HandleData(s)
    PROVE  IndexerInv'
<1> DEFINE b == next[s]
           new == {Indexed(b, p) : p \in Relevant(chain[b])}
<1>1. TypeOK /\ b \in DOMAIN chain
  BY DEF IndexerInv, HandleData
<1>2. /\ chain' = chain /\ table' = table /\ dropped' = dropped /\ first' = first
      /\ jobs' = jobs \cup new
      /\ delivered' = delivered \cup {b} /\ marked' = marked \cup {b}
      /\ next' = [next EXCEPT ![s] = b + 1]
  BY DEF HandleData, Indexed
<1>3. b \in 1..MaxBlocks /\ b + 1 \in 0..(MaxBlocks + 1)
  BY <1>1, ChainIs, BoundsAssumption DEF Bounded
<1>4. \A i \in new : /\ i.eventIndex \in 1..(MaxEvents * MaxKeys)
                     /\ i.name \in EventName /\ i.tx # None
                     /\ i.block = b
  BY <1>1, MadeOf, IndexType
<1>5. TypeOK'
  <2> HIDE DEF new
  <2>1. next' \in [1..Streams -> 0..(MaxBlocks + 1)]
    BY <1>1, <1>2, <1>3 DEF TypeOK
  <2>2. delivered' \subseteq marked' /\ marked' \subseteq 1..MaxBlocks
    BY <1>1, <1>2, <1>3 DEF TypeOK
  <2>3. \A i \in jobs' \cup table' :
          /\ i.eventIndex \in 1..(MaxEvents * MaxKeys)
          /\ i.name \in EventName /\ i.tx # None
          /\ i.block \in marked'
    BY <1>1, <1>2, <1>4 DEF TypeOK
  <2>. QED BY <1>1, <1>2, <2>1, <2>2, <2>3 DEF TypeOK
<1>6. \A c, p : Indexed(c, p)' = Indexed(c, p)
  BY <1>2 DEF Indexed, Item
<1>7. \A i \in jobs' \cup table' : i.tx \in dropped' \/ Made(i)'
  <2> SUFFICES ASSUME NEW i \in jobs' \cup table'
               PROVE  i.tx \in dropped' \/ Made(i)'
    OBVIOUS
  <2>1. CASE i \in new
    <3>1. PICK p \in Relevant(chain[b]) : i = Indexed(b, p)
      BY <2>1
    <3>. QED BY <1>2, <1>4, <1>6, <2>1, <3>1 DEF Made
  <2>2. CASE i \in jobs \cup table
    BY <1>2, <1>6, <2>2 DEF IndexerInv, Made
  <2>. QED BY <1>2, <2>1, <2>2
<1>8. \A c \in delivered' : \A p \in Relevant(chain[c])' : Present(c, p)'
  <2> SUFFICES ASSUME NEW c \in delivered', NEW p \in Relevant(chain[c])
               PROVE  Present(c, p)'
    BY <1>2
  <2>1. CASE c = b
    BY <1>2, <1>6, <2>1 DEF Present
  <2>2. CASE c \in delivered
    <3>1. Present(c, p)
      BY <2>2 DEF IndexerInv
    <3>. QED BY <1>2, <1>6, <3>1 DEF Present
  <2>. QED BY <1>2, <2>1, <2>2
<1>9. delivered' \subseteq DOMAIN chain'
  BY <1>1, <1>2 DEF IndexerInv
<1>. QED BY <1>5, <1>7, <1>8, <1>9 DEF IndexerInv

(* A job that finds its key in the table finds its own row.                *)
LEMMA IndexBlockStep ==
    ASSUME IndexerInv, NEW i \in jobs, IndexBlock(i)
    PROVE  IndexerInv'
<1>1. /\ chain' = chain /\ dropped' = dropped /\ first' = first /\ next' = next
      /\ delivered' = delivered /\ marked' = marked
      /\ jobs' = jobs \ {i}
      /\ table' = IF i.name \in RowNames /\ ~HasRow(i) THEN table \cup {i} ELSE table
  BY DEF IndexBlock, streams, history
<1>2. TypeOK'
  BY <1>1 DEF IndexerInv, TypeOK
<1>3. \A c, p : Indexed(c, p)' = Indexed(c, p)
  BY <1>1 DEF Indexed, Item
<1>4. \A x \in jobs' \cup table' : x.tx \in dropped' \/ Made(x)'
  BY <1>1, <1>3 DEF IndexerInv, Made
<1>5. \A c \in delivered' : \A p \in Relevant(chain[c])' : Present(c, p)'
  <2> SUFFICES ASSUME NEW c \in delivered, NEW p \in Relevant(chain[c]),
                      Indexed(c, p) = i, i.tx \notin dropped, i.name \in RowNames
               PROVE  i \in table'
    <3> SUFFICES ASSUME NEW c \in delivered, NEW p \in Relevant(chain[c])
                 PROVE  Present(c, p)'
      BY <1>1
    <3>1. Present(c, p)
      BY DEF IndexerInv
    <3>2. Indexed(c, p).tx = chain[c][p[1]].tx /\ Indexed(c, p).name = Name(chain[c], p)
      BY MadeOf DEF IndexerInv
    <3>. QED BY <1>1, <1>3, <3>1, <3>2 DEF Present
  <2>1. CASE HasRow(i)
    <3>1. PICK r \in table : r.tx = i.tx /\ r.eventIndex = i.eventIndex
      BY <2>1 DEF HasRow
    <3>2. r = i
      BY <3>1, KeyOfOne
    <3>. QED BY <1>1, <3>2
  <2>. QED BY <1>1, <2>1
<1>. QED BY <1>1, <1>2, <1>4, <1>5 DEF IndexerInv

(* What was made of the blocks that stay is still on the chain; of the others
   every transaction is dropped.                                           *)
LEMMA ReorganiseStep ==
    ASSUME IndexerInv, NEW f \in Forks, Reorganise(f)
    PROVE  IndexerInv'
<1>1. /\ f.old = chain /\ chain' = f.new
      /\ next' = [s \in 1..Streams |-> IF next[s] > f.at THEN f.at ELSE next[s]]
      /\ delivered' = delivered \cap 1..(f.at - 1)
      /\ first' = first /\ jobs' = jobs /\ table' = table /\ marked' = marked
  BY DEF Reorganise
<1>2. /\ dropped \subseteq dropped'
      /\ \A c \in DOMAIN chain : c >= f.at => TransactionsOf(chain[c]) \subseteq dropped'
  BY DEF Reorganise
<1>3. f.at \in Nat /\ DOMAIN chain \subseteq Nat
  BY ChainAssumption, ChainIs DEF IndexerInv, Bounded
<1>4. \A c \in DOMAIN chain : c < f.at => c \in DOMAIN chain' /\ chain'[c] = chain[c]
  BY <1>1, ChainAssumption
<1>5. TypeOK'
  <2>1. next' \in [1..Streams -> 0..(MaxBlocks + 1)]
    <3>1. f.at \in 0..(MaxBlocks + 1)
      BY ChainAssumption, BoundsAssumption
    <3>. QED BY <1>1, <3>1 DEF IndexerInv, TypeOK
  <2>2. chain' \in Chains \cup {g.new : g \in Forks}
    BY <1>1
  <2>. QED BY <1>1, <2>1, <2>2 DEF IndexerInv, TypeOK
<1>6. \A c \in delivered' : c \in delivered /\ c \in DOMAIN chain /\ c < f.at
  BY <1>1, <1>3 DEF IndexerInv
<1>7. \A c \in delivered' : \A p : Indexed(c, p)' = Indexed(c, p)
  BY <1>4, <1>6 DEF Indexed, Item
<1>8. delivered' \subseteq DOMAIN chain'
  BY <1>4, <1>6
<1>9. \A i \in jobs' \cup table' : i.tx \in dropped' \/ Made(i)'
  <2> SUFFICES ASSUME NEW i \in jobs \cup table, Made(i), i.tx \notin dropped'
               PROVE  Made(i)'
    BY <1>1, <1>2 DEF IndexerInv
  <2>1. i.block \in DOMAIN chain
    BY DEF IndexerInv, Made
  <2>2. i.tx \in TransactionsOf(chain[i.block])
    BY <2>1, MadeOf DEF IndexerInv, Made
  <2>3. i.block < f.at
    BY <1>2, <1>3, <2>1, <2>2
  <2>4. i.block \in delivered'
    <3>1. i.block \in 1..MaxBlocks
      BY <2>1, ChainIs DEF IndexerInv, Bounded
    <3>. QED BY <1>1, <1>3, <2>3, <3>1, BoundsAssumption DEF Made
  <2>5. chain'[i.block] = chain[i.block]
    BY <1>4, <2>1, <2>3
  <2>. QED BY <1>7, <2>4, <2>5 DEF Made
<1>10. \A c \in delivered' : \A p \in Relevant(chain[c])' : Present(c, p)'
  <2> SUFFICES ASSUME NEW c \in delivered', NEW p \in Relevant(chain'[c])
               PROVE  Present(c, p)'
    OBVIOUS
  <2>1. chain'[c] = chain[c] /\ c \in delivered
    BY <1>4, <1>6
  <2>2. Present(c, p)
    BY <2>1 DEF IndexerInv
  <2>. QED BY <1>1, <1>2, <1>7, <2>1, <2>2 DEF Present
<1>. QED BY <1>5, <1>8, <1>9, <1>10 DEF IndexerInv

LEMMA IndexerStep == IndexerInv /\ [Next]_vars => IndexerInv'
<1> SUFFICES ASSUME IndexerInv, [Next]_vars
             PROVE  IndexerInv'
  OBVIOUS
<1>1. ASSUME NEW s \in 1..Streams, NEW b \in 1..MaxBlocks, CreateStream(s, b)
      PROVE  IndexerInv'
  BY <1>1, CreateStreamStep
<1>2. ASSUME NEW s \in 1..Streams, HandleData(s)
      PROVE  IndexerInv'
  BY <1>2, HandleDataStep
<1>3. ASSUME NEW i \in jobs, IndexBlock(i)
      PROVE  IndexerInv'
  BY <1>3, IndexBlockStep
<1>4. ASSUME NEW f \in Forks, Reorganise(f)
      PROVE  IndexerInv'
  BY <1>4, ReorganiseStep
<1>5. CASE UNCHANGED vars
  BY <1>5 DEF vars, streams, history, IndexerInv, TypeOK, Made, Present, Indexed, Item
<1>. QED BY <1>1, <1>2, <1>3, <1>4, <1>5 DEF Next
-------------------------------------------------------------------------------
(* What is made of the chain stays true to it: items come of a pair of their
   block, each pair of a delivered block has its item, or its transaction was
   dropped.                                                                *)
THEOREM IndexerInvariant == Spec => []IndexerInv
BY IndexerStart, IndexerStep, PTL DEF Spec

(* Numbers, names and blocks of jobs and rows are in their ranges, and only the
   events of the Event table have a row there.                             *)
THEOREM TypeCorrect == Spec => []TypeOK
BY IndexerInvariant, PTL DEF IndexerInv

(* However many streams deliver it, in whatever words: every job carries the
   members the contract emitted under its transaction and key.             *)
THEOREM AlwaysDecoded == Spec => []JobsAreDecoded
<1>1. IndexerInv => JobsAreDecoded
  <2> SUFFICES ASSUME IndexerInv, NEW i \in jobs, i.tx \notin dropped
               PROVE  \E n \in DOMAIN chain[i.block] :
                         /\ chain[i.block][n].tx = i.tx
                         /\ \E k \in DOMAIN chain[i.block][n].keys :
                               chain[i.block][n].keys[k] = i.name
                         /\ chain[i.block][n].members = i.data
    BY DEF JobsAreDecoded
  <2>1. i.block \in DOMAIN chain
    BY DEF IndexerInv, Made
  <2>2. PICK p \in Relevant(chain[i.block]) : i = Indexed(i.block, p)
    BY DEF IndexerInv, Made
  <2>3. /\ p \in Pairs(chain[i.block]) /\ i.tx = chain[i.block][p[1]].tx
        /\ i.name = Name(chain[i.block], p) /\ i.data = chain[i.block][p[1]].members
    BY <2>1, <2>2, MadeOf DEF IndexerInv
  <2>. QED BY <2>3 DEF Pairs, Name
<1>. QED BY <1>1, IndexerInvariant, PTL
-------------------------------------------------------------------------------
(* The pair a row comes from.                                              *)
PlaceOf(b, r) == CHOOSE p \in Kept(b) : r = Indexed(b, p)

LEMMA PlaceIs ==
    ASSUME IndexerInv, NEW b \in DOMAIN chain, NEW r \in RowsOf(b)
    PROVE  /\ PlaceOf(b, r) \in Kept(b) /\ PlaceOf(b, r) \in Pairs(chain[b])
           /\ r = Indexed(b, PlaceOf(b, r))
           /\ r.eventIndex = EventIndex(chain[b], PlaceOf(b, r))
           /\ Content(r) = OnChain(b, PlaceOf(b, r))
<1>1. TypeOK /\ r \in table /\ r.block = b /\ r.tx \notin dropped /\ r.name \in RowNames
  BY DEF RowsOf, IndexerInv, TypeOK
<1>2. PICK p \in Relevant(chain[b]) : r = Indexed(b, p)
  BY <1>1 DEF IndexerInv, Made
<1>3. p \in Kept(b)
  BY <1>1, <1>2, MadeOf, KeptIs
<1>4. PlaceOf(b, r) \in Kept(b) /\ r = Indexed(b, PlaceOf(b, r))
  BY <1>2, <1>3 DEF PlaceOf
<1>5. PlaceOf(b, r) \in Relevant(chain[b]) /\ Content(r) = OnChain(b, PlaceOf(b, r))
  BY <1>1, <1>4, KeptIs
<1>. QED BY <1>1, <1>4, <1>5, MadeOf

(* However often its block is delivered, after whichever reorganisations, an
   event is in the table at most as often as the chain says it.            *)
THEOREM NothingTwice == Spec => []EachOnce
<1>1. IndexerInv => EachOnce
  <2> SUFFICES ASSUME IndexerInv, NEW b \in DOMAIN chain, NEW r \in RowsOf(b)
               PROVE  Cardinality({x \in RowsOf(b) : Content(x) = Content(r)})
                        <= Cardinality({p \in Kept(b) : OnChain(b, p) = Content(r)})
    BY DEF EachOnce
  <2> DEFINE A == {x \in RowsOf(b) : Content(x) = Content(r)}
             B == {p \in Kept(b) : OnChain(b, p) = Content(r)}
             g == [x \in A |-> PlaceOf(b, x)]
  <2>1. IsFiniteSet(B)
    <3>1. B \subseteq Pairs(chain[b])
      BY DEF Kept
    <3> HIDE DEF B
    <3>. QED BY <3>1, PairsFinite, FS_Subset
  <2>2. g \in [A -> B]
    BY PlaceIs
  <2>3. \A x, y \in A : g[x] = g[y] => x = y
    BY PlaceIs
  <2>4. g \in Injection(A, B)
    BY <2>2, <2>3 DEF Injection, IsInjective
  <2> HIDE DEF A, B, g
  <2>5. Cardinality(A) <= Cardinality(B)
    BY <2>1, <2>4, FS_Injection
  <2>. QED BY <2>5 DEF A, B
<1>. QED BY <1>1, IndexerInvariant, PTL

(* Once the jobs of a delivered block are done, its rows by their numbers are
   the events of the chain in its order, for any number of streams, any order
   of the jobs and any reorganisations.                                    *)
THEOREM AlwaysInChainOrder == Spec => []InChainOrder
<1>1. IndexerInv => InChainOrder
  <2> SUFFICES ASSUME IndexerInv, NEW b \in delivered, \A i \in jobs : i.block # b
               PROVE  \E place \in Bijection(RowsOf(b), Kept(b)) :
                        /\ \A r \in RowsOf(b) : Content(r) = OnChain(b, place[r])
                        /\ \A r, x \in RowsOf(b) :
                              r.eventIndex <= x.eventIndex <=> NotAfter(place[r], place[x])
    BY DEF InChainOrder
  <2> DEFINE place == [r \in RowsOf(b) |-> PlaceOf(b, r)]
  <2>1. b \in DOMAIN chain /\ TypeOK
    BY DEF IndexerInv
  <2>2. place \in [RowsOf(b) -> Kept(b)] /\ \A r \in RowsOf(b) : place[r] = PlaceOf(b, r)
    BY <2>1, PlaceIs
  <2>3. \A r, x \in RowsOf(b) : place[r] = place[x] => r = x
    BY <2>1, <2>2, PlaceIs
  <2>4. ASSUME NEW p \in Kept(b)
        PROVE  \E r \in RowsOf(b) : place[r] = p
    <3>1. /\ p \in Relevant(chain[b]) /\ chain[b][p[1]].tx \notin dropped
          /\ Name(chain[b], p) \in RowNames
      BY <2>1, KeptIs
    <3>2. /\ Indexed(b, p).block = b /\ Indexed(b, p).tx = chain[b][p[1]].tx
          /\ p \in Pairs(chain[b]) /\ Indexed(b, p).eventIndex = EventIndex(chain[b], p)
      BY <2>1, <3>1, MadeOf
    <3>3. Present(b, p)
      BY <3>1 DEF IndexerInv
    <3>4. Indexed(b, p) \in RowsOf(b)
      BY <3>1, <3>2, <3>3 DEF Present, RowsOf
    <3>5. PlaceOf(b, Indexed(b, p)) = p
      BY <2>1, <3>2, <3>4, PlaceIs, IndexOrder
    <3>. QED BY <2>2, <3>4, <3>5
  <2>5. \A r \in RowsOf(b) : Content(r) = OnChain(b, place[r])
    BY <2>1, <2>2, PlaceIs
  <2>6. \A r, x \in RowsOf(b) : r.eventIndex <= x.eventIndex <=> NotAfter(place[r], place[x])
    BY <2>1, <2>2, PlaceIs, IndexOrder
  <2> HIDE DEF place
  <2>7. place \in Bijection(RowsOf(b), Kept(b))
    BY <2>2, <2>3, <2>4 DEF Bijection, Injection, Surjection, IsInjective
  <2>. QED BY <2>5, <2>6, <2>7
<1>. QED BY <1>1, IndexerInvariant, PTL
===============================================================================
