------------------------------ MODULE AppIndexer ------------------------------
(***************************************************************************)
(* AppIndexer.handleData: a block of the chain becomes the jobs of its     *)
(* events, numbered by a counter that runs over the block.  The number is  *)
(* half of the key by which the handlers recognise an event they have seen *)
(* before, and all of the order in which the queries read a block's rows.  *)
(*                                                                         *)
(* Streams are started again and again (restartStream leaves the old one   *)
(* running) and hand overlapping parts of the chain to handleData; their   *)
(* jobs are handled in any order.  A reorganisation of the chain reaches   *)
(* the streams as a message without data, which createStream ignores, and  *)
(* as the new blocks.                                                      *)
(***************************************************************************)
EXTENDS Decoders, FiniteSets, Functions

CONSTANTS
    Chains,         \* the chains considered: sequences of blocks
    Forks,          \* reorganisations: [old, new |-> chains, at |-> a block]
    Address,
    Irrelevant,     \* the contract's address and the null address
    None,           \* a missing transaction hash
    Streams,        \* 1..Streams: bound on the streams ever started
    MaxBlocks, MaxEvents, MaxKeys   \* bounds: of a chain, a block, an event

ASSUME BoundsAssumption ==
    Streams \in Nat /\ MaxBlocks \in Nat /\ MaxEvents \in Nat /\ MaxKeys \in Nat

(* An event of a block: [tx, keys, data], with the name its key stands for in
   place of each key.                                                      *)
EventName == {"Transfer", "PrescriptionUpdated", "ScalarTransfer", "ScalarRemove",
              "PillFameUpdated", "PillDeFameUpdated", "PharmacyStockUpdate",
              "PillVoteTimeStamp", "TraitRedemption", "AttributeAdded",
              "TraitVoteTimeStamp"}

(* The events whose handler inserts a row of the Event table.              *)
RowNames == {"Transfer", "PrescriptionUpdated", "ScalarTransfer", "ScalarRemove",
             "PillFameUpdated", "PillDeFameUpdated"}

TransactionsOf(block) == {block[n].tx : n \in DOMAIN block}

(* The contract lays out the words of an event by the key it emits it under;
   a transaction is in one block of a chain; a reorganisation keeps the blocks
   before f.at.                                                            *)
LaidOut(e) ==
    \A k \in DOMAIN e.keys : e.keys[k] \in EventName =>
        /\ e.members \in Members(e.keys[k], Address)
        /\ e.data = Words(e.keys[k], e.members)

Bounded(c) ==
    /\ DOMAIN c \subseteq 1..MaxBlocks
    /\ \A b \in DOMAIN c :
          /\ DOMAIN c[b] \subseteq 1..MaxEvents
          /\ \A n \in DOMAIN c[b] : DOMAIN c[b][n].keys \subseteq 1..MaxKeys

ASSUME ChainAssumption ==
    /\ \A c \in Chains \cup {f.new : f \in Forks} :
          /\ Bounded(c)
          /\ \A b \in DOMAIN c : \A n \in DOMAIN c[b] : LaidOut(c[b][n])
          /\ \A a, b \in DOMAIN c :
                a # b => TransactionsOf(c[a]) \cap TransactionsOf(c[b]) \subseteq {None}
    /\ \A f \in Forks :
          /\ f.at \in 1..MaxBlocks
          /\ \A b \in DOMAIN f.old :
                b < f.at => b \in DOMAIN f.new /\ f.new[b] = f.old[b]

VARIABLES
    chain,
    first,          \* [1..Streams -> the initialBlock of createStream, 0 before]
    next,           \* [1..Streams -> the block the stream delivers next]
    jobs,           \* the jobs that wait
    table,          \* the Event table
    delivered,      \* history: the blocks of the chain some stream delivered
    marked,         \* history: the numbers of all blocks ever delivered
    dropped         \* history: the transactions of all blocks given up

streams == <<first, next>>
history == <<delivered, marked, dropped>>
vars == <<chain, streams, jobs, table, history>>

(* The pairs (event, key) handleData walks through and counts, event by event
   and key by key; an event without a transaction hash is skipped before it is
   counted.                                                                *)
Pairs(block) ==
    {p \in (1..MaxEvents) \X (1..MaxKeys) : /\ p[1] \in DOMAIN block
                                           /\ block[p[1]].tx # None
                                           /\ p[2] \in DOMAIN block[p[1]].keys}

NotAfter(p, q) == p[1] < q[1] \/ (p[1] = q[1] /\ p[2] <= q[2])

(* Mutant: each transaction numbers its own events.                         *)
EventIndex_OfTransaction(block, p) ==
    Cardinality({q \in Pairs(block) : NotAfter(q, p) /\ block[q[1]].tx = block[p[1]].tx})

(* The counter when the loops have come to pair p.                          *)
EventIndex(block, p) == Cardinality({q \in Pairs(block) : NotAfter(q, p)})

Name(block, p) == block[p[1]].keys[p[2]]

IsRelevant(block, p) ==
    LET data == block[p[1]].data IN
    /\ Name(block, p) \in EventName
    /\ Name(block, p) = "Transfer" => {data[1], data[2]} \cap Irrelevant = {}

Relevant(block) == {p \in Pairs(block) : IsRelevant(block, p)}

Item(b, p, index) ==
    LET e == chain[b][p[1]]
        name == Name(chain[b], p)
    IN  [tx |-> e.tx, eventIndex |-> index, block |-> b,
         name |-> name, data |-> Decode(name, e.data)]

TypeOK ==
    /\ chain \in Chains \cup {f.new : f \in Forks}
    /\ first \in [1..Streams -> 0..MaxBlocks]
    /\ next \in [1..Streams -> 0..(MaxBlocks + 1)]
    /\ delivered \subseteq marked /\ marked \subseteq 1..MaxBlocks
    /\ \A i \in jobs \cup table :
          /\ i.eventIndex \in 1..(MaxEvents * MaxKeys)
          /\ i.name \in EventName /\ i.tx # None
          /\ i.block \in marked
    /\ \A i \in table : i.name \in RowNames

Init ==
    /\ chain \in Chains
    /\ first = [s \in 1..Streams |-> 0]
    /\ next = [s \in 1..Streams |-> 0]
    /\ jobs = {} /\ table = {}
    /\ delivered = {} /\ marked = {} /\ dropped = {}

(* createStream(initialBlock): at the start, or from a mark, which is never
   behind a block that was not delivered.                                  *)
CreateStream(s, initialBlock) ==
    /\ first[s] = 0
    /\ s > 1 => first[s - 1] # 0
    /\ initialBlock = 1 \/ initialBlock \in marked
    /\ first' = [first EXCEPT ![s] = initialBlock]
    /\ next' = [next EXCEPT ![s] = initialBlock]
    /\ UNCHANGED <<chain, jobs, table, history>>

(* Mutant: the counter is a field, "the indexer's state between different
   calls" of the class comment, and goes on from block to block.           *)
HandleData_CountsOn(s) ==
    LET b == next[s]
        before == UNION {{c} \X Pairs(chain[c]) : c \in first[s]..(b - 1)}
    IN
    /\ b \in DOMAIN chain
    /\ jobs' = jobs \cup {Item(b, p, Cardinality(before) + EventIndex(chain[b], p)) :
                             p \in Relevant(chain[b])}
    /\ next' = [next EXCEPT ![s] = b + 1]
    /\ delivered' = delivered \cup {b}
    /\ marked' = marked \cup {b}
    /\ UNCHANGED <<chain, first, table, dropped>>

(* A message of the stream: handleData, and a job for each of its results. *)
HandleData(s) ==
    LET b == next[s] IN
    /\ b \in DOMAIN chain
    /\ jobs' = jobs \cup {Item(b, p, EventIndex(chain[b], p)) : p \in Relevant(chain[b])}
    /\ next' = [next EXCEPT ![s] = b + 1]
    /\ delivered' = delivered \cup {b}
    /\ marked' = marked \cup {b}
    /\ UNCHANGED <<chain, first, table, dropped>>

HasRow(i) == \E r \in table : r.tx = i.tx /\ r.eventIndex = i.eventIndex

(* Mutant: every handler inserts a row of the Event table.                  *)
IndexBlock_AnyName(i) ==
    /\ i \in jobs
    /\ jobs' = jobs \ {i}
    /\ table' = IF ~HasRow(i) THEN table \cup {i} ELSE table
    /\ UNCHANGED <<chain, streams, history>>

(* The handler of the event: nothing when its key has a row.               *)
IndexBlock(i) ==
    /\ i \in jobs
    /\ jobs' = jobs \ {i}
    /\ table' = IF i.name \in RowNames /\ ~HasRow(i) THEN table \cup {i} ELSE table
    /\ UNCHANGED <<chain, streams, history>>

(* The chain gives up its blocks from f.at on, which finality "accepted" does
   not exclude.  A stream that is past them is sent an invalidate message, of
   which the loop over the messages takes no notice, and then the new blocks;
   nothing that came of the old ones is taken back.                        *)
Reorganise(f) ==
    /\ f.old = chain
    /\ chain' = f.new
    /\ next' = [s \in 1..Streams |-> IF next[s] > f.at THEN f.at ELSE next[s]]
    /\ delivered' = delivered \cap 1..(f.at - 1)
    /\ dropped' = dropped \cup
                    UNION {TransactionsOf(chain[b]) : b \in {c \in DOMAIN chain : c >= f.at}}
    /\ UNCHANGED <<first, jobs, table, marked>>

Next ==
    \/ \E s \in 1..Streams, b \in 1..MaxBlocks : CreateStream(s, b)
    \/ \E s \in 1..Streams : next[s] # 0 /\ HandleData(s)
    \/ \E i \in jobs : IndexBlock(i)
    \/ \E f \in Forks : Reorganise(f)

Spec == Init /\ [][Next]_vars
-------------------------------------------------------------------------------
(* What the table must hold of block b, said of the chain: the members of the
   events with a transaction, key by key, but for transfers from or to the
   contract or the null address.  Transactions that a reorganisation dropped
   are left out of the account: their rows stay, and if the new blocks have
   them again their keys may be taken.                                     *)
Kept(b) ==
    {p \in Pairs(chain[b]) :
        LET e == chain[b][p[1]] IN
        /\ e.tx \notin dropped
        /\ Name(chain[b], p) \in RowNames
        /\ Name(chain[b], p) = "Transfer" =>
              {e.members.from, e.members.to} \cap Irrelevant = {}}

OnChain(b, p) == LET e == chain[b][p[1]]
                 IN  [tx |-> e.tx, name |-> Name(chain[b], p), data |-> e.members]

RowsOf(b) == {r \in table : r.block = b /\ r.tx \notin dropped}
Content(r) == [tx |-> r.tx, name |-> r.name, data |-> r.data]

(* However many streams deliver a block, in whichever order the jobs are
   handled, and whichever blocks it replaced, none of its events is ever in
   the table twice: a key always stands for the same event.                *)
EachOnce ==
    \A b \in DOMAIN chain : \A r \in RowsOf(b) :
        Cardinality({x \in RowsOf(b) : Content(x) = Content(r)})
            <= Cardinality({p \in Kept(b) : OnChain(b, p) = Content(r)})

(* Once the jobs of a delivered block are done, its rows in the order the
   queries sort them by are its events in the order of the chain, with their
   members: none is missing, none is there that the chain does not have, none
   is displaced by another transaction's.  A reorganisation disturbs only the
   transactions it dropped, though nothing of the old blocks is taken back. *)
InChainOrder ==
    \A b \in delivered : (\A i \in jobs : i.block # b) =>
        \E place \in Bijection(RowsOf(b), Kept(b)) :
            /\ \A r \in RowsOf(b) : Content(r) = OnChain(b, place[r])
            /\ \A r, x \in RowsOf(b) :
                  r.eventIndex <= x.eventIndex <=> NotAfter(place[r], place[x])

(* Every job says what the contract said: it carries the members of an event
   of its block, under that event's transaction and key, whichever of the
   decoders took them from the words.                                      *)
JobsAreDecoded ==
    \A i \in jobs : i.tx \in dropped \/
        \E n \in DOMAIN chain[i.block] :
            LET e == chain[i.block][n] IN
            /\ e.tx = i.tx
            /\ \E k \in DOMAIN e.keys : e.keys[k] = i.name
            /\ e.members = i.data
=============================================================================
