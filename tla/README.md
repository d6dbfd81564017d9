# Verification of starkpill-api

starkpill-api indexes the events of an NFT contract on Starknet into Postgres,
copies token metadata from the contract, answers GraphQL queries derived from the
indexed events, and keeps a small social network (accounts, follows, posts) for
the holders. This directory holds TLA+ models of the parts that carry that logic,
TLC configurations that check them, and TLAPS proofs about the block pipeline, the
numbering and decoding of events, the event handlers and the queries over their tables, the social network and its paged
feed, and the metadata queues.

All paths are relative to the root of the repository; `src/src` is the
application's own `src`.

## 1. Inventory

| Component | State it keeps | Operations | Interacts with |
|---|---|---|---|
| Block pipeline (`queues/blocks/blocks.module.ts`, `blocks.processor.ts`, `queues/constants.ts`) | open streams, Bull queue in Redis, the metadata row `lastIndexedBlock` | `createStream`, `restartStream`, the interval, two kinds of `add`, worker loops, `markBlockAsIndexed` | AppIndexer (call), handlers (jobs), Redis, Postgres |
| AppIndexer (`indexing/AppIndexer.ts`, `indexing/utils.ts`) | none between calls; the numbering of a block's events | `handleData`, the `decode...` functions | called by every stream |
| Event handlers (`queues/blocks/blocks.service.ts`) | Event and its detail tables, KnownTraits, Backpack, PharmacyData, VotingBooth, VotingPowerIds, TraitRedemption | eleven `handle...` | both metadata services (un-awaited calls), accounts (profile picture) |
| Metadata services (`queues/metadata`, `queues/backpackMetadata`) | two Bull queues, TokenMetadata, BackpackMetadata | `queueIndexMetadata`, `indexMetadata`, the cron job, refresh mutations | contract (remote read), Mint and KnownTraits tables |
| Authentication, accounts (`auth`, `account`) | Account, Follow, Post, Image, Like, Comment | login, JWT validation, twelve REST operations | the same Account row as the handlers of transfers |
| Token and trait queries (`graphql/token`, `graphql/user`, `graphql/traitToken`) | none | derived owner, attributes, holdings, totals of fame and votes; `getVotingPower` also deletes | Event tables, Backpack, VotingPowerIds |
| Social queries (`graphql/user`, `post.service.ts`) | the client's position in a paged list | `getPostsForUser` with `getPostById`; counts | Account, Follow, Post |
| Transaction queries (`graphql/transaction`) | none | `fameAmount`, `defameAmount`; reshaping of single rows | Event tables |
| Resolvers, modules, pharmacy | none | single reads | — |

What is hard in this code:

* **Concurrency without transactions.** A handler or a request is a chain of
  awaited statements. Between two of them any other handler or request runs.
  Three worker loops serve the blocks queue (one per `@Process`), and the only
  guards are unique keys, restricting foreign keys and checks that read first and
  write later.
* **Repeated delivery.** Jobs are retried three times, stalled jobs are taken
  again, a restarted stream delivers blocks a second time and the old stream is
  never closed.
* **Restart.** After a crash the program trusts one number, the marked block.
* **Order.** Priorities order the hand-out of jobs, not their ends. Owners are
  derived from the order of rows. After a reorganisation the new blocks are indexed
  next to the old ones.
* **Answers made of several reads.** A list, a page or a total is put together from
  rows that change between the reads, by rules that differ from service to service.

`PROJECT.json` lists each hazard at its line, with the properties that address it.

What makes each component correct, in a sentence: *pipeline* — nothing below the
restart point is lost, and indexing resumes; *AppIndexer* — a key always stands for
the same event, and numbers follow the chain; *handlers* — no event is dropped by an
early return, nothing exists without the row that explains it, replays leave the
state of the chain; *metadata* — a requested refresh is never swallowed, a missing
row is filled in the end; *accounts* — tokens open accounts, only owners delete,
nothing dangles; *queries* — the differently derived answers agree, totals count
nothing twice, and who pages to the end misses only what writers hid from him.

## 2. Modules

| Module | Models | Notes |
|---|---|---|
| `BullQueue` | the Bull library as it is used here | external; jobs, attempts, backoff, stalls, loss of workers; instantiated by three modules |
| `Indexer` | abstract promise of the pipeline | accepted, applied, acknowledged |
| `BlocksPipeline` | streams, queue, mark, crashes | composes `BullQueue`; refines `Indexer` |
| `BlocksPipelineProofs` | TLAPS proofs | |
| `BlockHandlers` | the eleven handlers, statement by statement; the profile picture and vote-deleting requests | composes `BullQueue` |
| `BlockHandlersProofs` | TLAPS proofs | |
| `SettledProofs` | TLAPS proofs | extends `BlockHandlersProofs`: the order of the rows, the tables of one worker |
| `TokenViews` | the queries derived from the handlers' tables | extends `BlockHandlers` |
| `TokenViewsProofs` | TLAPS proofs | extends `TokenViews` and `SettledProofs` |
| `Decoders` | the layout of an event's words and the decoders | used by `AppIndexer` |
| `AppIndexer` | `handleData` and its repeated, overlapping calls; reorganisations | |
| `AppIndexerProofs` | TLAPS proofs | extends `AppIndexer` |
| `MetadataQueue` | both metadata services | composes `BullQueue` |
| `MetadataQueueProofs` | TLAPS proofs | |
| `Social` | login and the REST operations | |
| `SocialProofs` | TLAPS proofs | |
| `SocialFeed` | a client that pages through `getPostsForUser` | extends `Social`: the pages run among its requests |
| `SocialFeedProofs` | TLAPS proofs | extends `SocialFeed` and `SocialProofs` |
| `MC...` | instances for TLC | |

### How state and actions correspond to the code

*BullQueue.* `state` is the list or set of Redis a job is in (`wait`, `front`: put
back at the head of the list, `active`, `delayed`, `stalled`, `failed`, `done`),
`attempts` the failed attempts, `stalls` Bull's stall counter, `running` the job of
each worker loop. `removeOnComplete` makes `done` mean "gone".

*BlocksPipeline.* `at` and `todo` are the position of each stream's for-await loop
within its block; one action per `add` (the calls are not awaited, but one Redis
connection keeps their order). A handler is one write (`IndexBlock`), refined in
`BlockHandlers`. `lastIndexed` is the metadata row, 0 without one; block numbers are
counted from the seeded 503000. Whether the server delivers the cursor's own block
again is left open. `Crash` ends streams, unsent adds and workers; Redis and
Postgres stay.

*BlockHandlers.* `pc[w]` names the statement the worker's handler awaits next, `db`
is a record of the tables. The event's position in the feed stands for its key and
for its priority. `Inserts` and `Changes` give a statement its unique key or its
missing row: it throws, `Reject` counts an attempt, the earlier statements stay.
`HandlerThrows` may hit any statement. `asked` collects the un-awaited calls of the
other queues. Detail rows (Mint, ChangeAttribute, ...) are created in the same nested
create as their event and are its type here. Fame, votes and stocks keep a number.

What a behaviour may meet is its `scenario`, chosen at the start: the feed, how many
streams deliver it, how many worker loops run, and how many faults and requests there
may be.

*TokenViews* has the queries as operators over the same state: the latest row of a
set, by block and number, decides. The three derivations of an owner, the two lists of
a wallet's traits, the page of a worn trait (the owner is the pill's), the totals of
fame and of votes, and the amounts of single fame events are separate operators, as
they are separate queries. Each is evaluated at one moment: a query of several reads may, in the
program, mix the states before and after a handler's step, which the model does not show.

*Decoders.* An event's payload is a sequence of words, laid out by `Words` as the
contract's ABI has it; each decoder picks words by position. Of the ABI's Uint256 the
low word and 0 are modelled, which is what the ids and prices in use are. The ABI file lacks some
kinds (fame, stock, votes, redemptions); their layout is read off the decoders, so for these kinds
`JobsAreDecoded` holds by construction. `Members` are the
types of an event's members.

*AppIndexer.* `Pairs` are the iterations of the two nested loops that are counted, as
<<event, key>>, and `EventIndex` is the counter: how many pairs the loops have come to. A stream (`first`, `next`) hands blocks to `HandleData`, which adds the
items of the block; `IndexBlock` handles them in any order and skips a key that has
a row. An item that is already waiting is not queued a second time: its second
handling would find the row. `Reorganise` replaces the chain from a block on, and sets
streams that are past it back; nothing is taken out of the table, as
`queueInvalidateBlocks` is called by nothing. `dropped` remembers the transactions of
all blocks given up, by however many reorganisations.

*MetadataQueue.* A call of `queueIndexMetadata` is in one of its phases (`exists`,
`waiting`, `adding`), its awaits; `version` is what the contract would answer, `wanted`
the version somebody asked for (0 again once the last attempt of a job failed or a crash
took the call), `stored` that of the row. `known` is the table the cron job compares
with: the mints or the known traits, in the order of their insertion. A refresh may name
a token whose mint is not indexed yet, or not even on the chain, where the contract call
reverts. A job's number is used again after its removal. `scenario` chooses service and
bounds at the start. The two concurrent reads of the cron job are one step.

*Social.* `pc[r]` is the statement request r awaits. The read of the requester's own
account, which nothing ever deletes, is one step with the read after it. A request may
end at any statement (`StatementFails`); what it wrote stays. `use` chooses which
operations the clients mix, so that accounts and posts are explored side by side and
not multiplied.

*SocialFeed.* A page is three awaits: the followed accounts (`FindAuthors`), the ids by
skip and take (`ListPosts`), and one `GetPostById` for each id; one of a post that is gone
fails the page, and the client asks for it again. `stayed`, `left` and `entered` are
history: the posts that were in the feed all the time, and how many left or entered it.

## 3. Runs

Passing runs:

| Run | Question | Bounds and why they are enough |
|---|---|---|
| `pipeline_safety` | is anything lost behind the mark, does the mark start last, does the pipeline refine `Indexer` | two blocks of one event, two streams, two workers, one crash, one failed attempt, two attempts (1.3 million states). Two overlapping streams and a restart are the least that let a mark pass another stream's events; three attempts only lengthen the wait. The proofs remove every bound |
| `pipeline_live` | does indexing resume | an empty block and a block with an event, one crash, one silent end, a stream left for each fault |
| `handlers` | do early returns, races, errors and crashes drop events or leave orphans; do replays end in the state of the chain; do the queries agree with it and with each other | three kinds of scenario. *Raced*: feeds of one or two events that share tables, each delivered twice, two loops, and one fault anywhere or one request (both, for a single delivery). A race needs two handlers of one key or of one table. *Overtaking*: three events of one token, two loops, a fault. *Lives*: nine lives of five events, two interleaved copies, one loop |
| `metadata` | is a refresh swallowed, is a row missing for ever, does the newer version arrive | two tokens with a slice of one, or one token with two versions, two failures and a crash; two jobs of a token at a time: a running one and the one that must follow it |
| `social` | are tokens, deletes, follows and likes sound; what does a reader of the feed miss or see twice | two wallets, two requests, two hashes, one post, three likes (more than requests), one comment for the operations; for the feed one writer, two posts with pages of one and follows, or three posts with pages of two, and three changes of the feed. Wallets, requests and salts are symmetric |
| `app_indexer` | is the numbering a key, is it in order, are the members those of the chain | all 400 blocks of up to three events from seven (two transactions, a second unknown key, a mint's transfer, an event without transaction), then a fixed block, two streams; reorganisations from the second block or from the first, for chains whose first block has at most one event, and blocks with the other kinds of event |

Deadlock is checked in `social`. The other runs switch the check off because their
behaviours really end: the feed or the chain is finite and the queue runs empty.

Runs that TLC finds violated, each a disagreement of the code with its own comment:

| Run | What the counterexample shows |
|---|---|
| `mark_early` | two workers: the mark is written while an event of its block is still running (`blocks.service.ts:608`) |
| `minted_first` | two workers: the change of a token is stored as its mint, or both are mints (`blocks.service.ts:50`) |
| `known_traits` | one failed statement after the row: the retry returns early and the traits are lost (`blocks.service.ts:118`) |
| `picture` | owner checked, pill transferred, picture set (`blocks.service.ts:285`) |
| `superset` | a token is refreshed between its mint and the handler of the mint: it has metadata and no mint (`metadata.service.ts:28`) |
| `double_like` | two requests see no like, both insert (`account.service.ts:422`) |

They bound what the passing runs may say. `SettledIsChain`, `PillIsChain`,
`TraitListsAgree`, `TraitsFollowPill` and `CountedOnce` speak of **one** worker without
faults once the queue is empty: with several workers `minted_first` already refutes the
first. `NoOrphans`, `AcknowledgedIsIndexed`, `RowsLostToErrors`, `OneRefusal`, `OneOwner` and
`AmountsAddUp` hold with two workers and a fault. `AcknowledgedIsIndexed` leaves scalar transfers
out, because `handleScalarTransfer` swallows the error of its insert (`blocks.service.ts:423`) and
the job completes without its row; `RowsLostToErrors` says that nothing else does: there are never
more such jobs than errors. `OneOwner` says what the owner queries answer while
events are missing: one wallet more for each event that was overtaken, and no other.

Each property of a passing run has a mutant: a variant of one mapped definition, kept
beside it and commented as such, under which TLC finds the property violated.

## 4. Fairness

`pipeline_live`: the process is restarted after a crash (an assumption about the
deployment: `docker-compose.yml` supervises only Postgres and Redis, its entry for the API
is commented out), an open stream delivers its next block, the interval fires (the metadata
row does get old once nothing is marked), a free worker takes a job and a handler ends,
Bull's timers fire. No fairness is assumed of faults, nor that a stream ends.
`EventuallySettled` starts at the first mark: before it the interval returns early
(`blocks.module.ts:160`), and a stream that ends then is never replaced.

`metadata`: the cron job fires again and again, open calls go on, a handler ends, the
timers fire. Taking a job is strongly fair for each token, because Bull hands out jobs
without priority in the order they were added: others that keep coming do not overtake.
Events, refreshes, failures and crashes are not fair. `scenario` bounds failures, as a
contract that fails for ever would leave the row missing for ever. `EventuallyCurrent`
excuses what the program gives up: after the last attempt, or when a crash took a call
that had not added its job, nothing asks again for a token that has a row.

No other run needs fairness: `social`, `handlers` and `app_indexer` check safety only.

## 5. Proofs

`BlocksPipelineProofs` proves, for every chain, every number of streams and workers and
every bound on faults, from the assumptions named in `BlocksPipeline` (the chain maps
blocks to sets of positive numbers; at least one attempt; `NoJob` is no job; bounds are
natural numbers):

* `TypeCorrect`: `TypeOK`. It needs the queue's own invariant: a running job is active, no
  job has two workers, a job with attempts left is not failed.
* `NothingLost`: `NothingLostBehindMark`. The claim about the row is not inductive. The row
  takes its number from a mark job, the job from the stream that queued it, the stream from
  where it was told to start. So the invariant carries the same claim at all three places:
  everything below an open stream's block, and what it has sent of the block, is accepted;
  everything up to a live mark job's block is accepted; everything up to the row is. The key
  lemma is that acceptance is never withdrawn: a job leaves the queue only after its write.
* `MarkLast`: `MarkStartsLast`, when each block's events rank below the mark
  (`ShortBlocks`; more than 900 counted keys in a block break it). The invariant: a mark that
  is in the queue was added after the events of its block, and the order of the wait list hands
  the lower rank out first.
* `Refinement`: `KeepsPromise`, each step is a step of `Indexer` or a stutter, by the invariant
  of `NothingLost`.

`BlockHandlersProofs` proves for every chain, every number of streams and worker loops, and
every bound on failed statements, crashes and requests. It assumes what `BlockHandlers` names:
the feed consists of well-formed events (`ChainEvent`; amounts left and timestamps are counted
from 1, for 0 stands for a missing row), `NoJob` is no job, `None` no token, address or row type,
at least one attempt, natural bounds.

* `HandlersInvariant`: the types and the queue's own invariant; every handler is `Sound`, that is,
  what it has left in the tables and what it has read still stands when it comes to its next
  statement, however long ago that was; it has attempts for the refusals it may yet meet
  (`Tries`, `Bound`); a completed job's event is `Kept`; and `NoOrphans`. `NoOrphans` alone is
  not inductive: that `createBackpack` of a redemption finds its trait known is a
  matter of what the handler did three statements earlier.
* `Grows` says what no statement of any handler takes back (rows of events, known traits,
  redemptions, voting powers, a stock once counted), so `Sound` of the other handlers
  is stable under every step, one lemma for all. `GetVotingPower` is the only step that takes
  anything back; it deletes votes, and `Bound` pays for it with two more attempts.
* `TypeCorrect`, `NothingOrphaned`, `NothingDropped` and `OneRefusalAtMost` follow: `TypeOK`,
  `NoOrphans`, `AcknowledgedIsIndexed`, `OneRefusal`.

`SettledProofs` and `TokenViewsProofs` prove what the tables say once the
handlers are done, and what the queries make of them. Beside the assumptions above they use
`ChainAssumption`, what the contracts guarantee of a chain and the source only relies on:
`PillsHeld` (a pill is prescribed before any other event that leaves a row, and each event names
the holder the ones before it leave), and, in scenarios of one worker, `TraitsHeld` (a trait comes
with one pill or is redeemed once, before it moves) and `WornOnce` (at the end of the chain two
pills wear no common trait). TLC evaluates it on every feed of the run, the lives among them.

* `FeedOrderInvariant`: each row has the type its event calls for, nothing is queued that was not
  sent, and with one worker and no fault a row is there only after the rows before it, in every
  copy. It needs Bull's hand-out order: the priority of a job is its place in the chain.
* `RowsOnlyLostToErrors`: `RowsLostToErrors`, with any workers and faults. The invariant counts the jobs
  of scalar transfers that are past their row (complete, or in a later statement) while it is missing:
  `SkippedNext` shows that only a swallowed error adds a job, and one at a time, because no step takes
  a row back (`MissingBefore`) and a handler passes its row only with the row (`StatementSkips`).
* `CalmInvariant`: with one worker and no fault the tables are a function of how far each event's
  handler has come (`stage`), in whichever copy came first: `Consistent` says of each table what the
  executed statements leave in it. `Served` orders the jobs of a copy, `Serving` says that what the
  running handler read last still holds and that a second copy returns early or repeats a write of a
  value, and `Newest` that stocks and votes are the last ones when all copies have written them. The
  claim about the settled queue says nothing of the states before it, so none of this follows from it.
* `SettledAsTheChain`: `SettledIsChain` is `CalmInv` at the last stage of every event.
* `OneOwnerAlways`: `OneOwner`, with any workers and faults, from the types of the rows and
  `PillsHeld` alone. `PillsAreChain`, `TraitListsAreOne`, `TraitsAreWithPill`: `PillIsChain`,
  `TraitListsAgree`, `TraitsFollowPill`, from `CalmInv` and the chain.
* `AmountsAlwaysAddUp`: `AmountsAddUp`, with any workers and faults: what each row is shown to add
  is its difference to the row before it, so the sum telescopes to the last row (`IncrementsAddUp`).
  Sums over a set are a recursive function here (`MapThenSumSet` unfolds to one); that any member may
  be taken first is proved by the smallest subset for which it fails, not by induction.
* `EachCountedOnce`: `CountedOnce`. The sum over wallets of the sums over their pills is the sum over
  all pills, because each pill is in one wallet's list (`SumFibres`); a worn trait is counted with one
  pill by `WornOnce`. Votes need an invariant of their own, `PowerIsGiven`: a voting power is there
  only for a token that was given one. Wallets are finitely many (`AddressAssumption`).

`AppIndexerProofs` proves for any set of chains and reorganisations, any number of streams and blocks of
any length. It assumes what `AppIndexer` names: bounds are natural numbers, and `ChainAssumption`: the
contract lays out an event's words by its key and the ABI, a transaction is in one block of a chain (so
the network guarantees), and a reorganisation keeps the blocks before its first.

* `Decoded`, a lemma: each decoder returns the members whose words it is given, for every kind of
  event and all numbers below 2^128. It says something of the kinds the ABI has; see section 2 for the rest.
* `IndexOrder`, a lemma: the counter orders the pairs of a block as the loops walk them, and gives no
  number twice.
* `IndexerInvariant`: a job or row whose transaction was not dropped is what `handleData` makes of a
  pair of a delivered block of the present chain, and each pair of a delivered block has its job or
  row. `EachOnce` and `InChainOrder` speak of the table alone, but a row is inserted from a job that was
  made long before, perhaps of a chain that was given up since. `KeyOfOne` carries the argument: a job
  that finds its key in the table finds its own row, so the early return of the handler loses nothing.
* `TypeCorrect`, `AlwaysDecoded`, `NothingTwice`, `AlwaysInChainOrder`: `TypeOK`, `JobsAreDecoded`,
  `EachOnce`, `InChainOrder`. The row of a kept pair is a bijection that keeps the order.

`SocialProofs` proves for every set of wallets, salts and requests, every choice of
operations and every bound (`None` is no wallet; bounds are natural numbers):

* `SocialInvariant`: `TypeOK`, the numbers of rows are keys, and every request is `Sound`:
  what it carries was read of rows that cannot have gone since. The lemma `TablesMove` says
  what any statement may do to the tables, once for all operations.
* `TypeCorrect`, `TokensAlwaysOpen`, `FollowsAlwaysSound`, `NothingDangles` follow from it:
  accounts never go, so an id read long ago is still one; `NoDangling` needs that the last
  statement of `deletePost` succeeds only when nothing refers to the post.
* `OnlyOwnersDelete`: the step property `OwnersOnly`. A request that waits for its delete has
  found the owner, and nobody changes the owner of a row.
* `LikesAlwaysBounded`: likes of an account for a post plus the requests about to insert one
  never exceed the number of requests. `LikesBounded` alone is not inductive; the proof counts
  the pending inserts.

`SocialFeedProofs` proves for every page size above 0 (`PageAssumption`: an empty page ends the
reading), and all that `SocialProofs` quantifies over:

* `FeedKeepsSocial`: `FeedSpec => Spec`, so the invariants of `Social` hold among the reader's pages.
* `FeedInvariant`: what the client has shown, and with the page that is being fetched, always `Fits`
  the list it would be cut from now: no more repeats than posts entered; a shown post has no more
  posts above it than were shown and entered; no more unseen posts among the first ranks than left.
  `NothingMissed` speaks of one moment, the end, and `NothingRepeated` says nothing of positions;
  ranks in the list are what ties both to skip and take. `Shift` says that a change of the list
  moves ranks by at most what enters or leaves, `AppendPage` that a page keeps all three.
* `FeedTypeCorrect`, `RepeatsAreBounded`, `MissesAreBounded`: `FeedTypeOK`, `NothingRepeated`,
  `NothingMissed`.

`MetadataQueueProofs` proves for any tokens, versions, jobs, slices, attempts, failures and
crashes, assuming the named assumptions of `MetadataQueue`, one of them that each service has
one worker loop (each processor has a single `@Process`, of concurrency one):

* `MetadataInvariant`: the types, with open calls bounded by free job numbers; no row and no wish
  is newer than the contract; the worker that is about to write holds a version not older than
  the row; jobs with attempts left have not failed; and `NoUpdateLost` itself.
* `TypeCorrect` and `NeverLost` follow. The step that carries the argument is the one where a call
  finds a waiting job and ends: that job has not asked the contract yet. With two loops the
  statement about the row fails, since an older read could be written last.

Only model-checked: the liveness properties `EventuallySettled`, `EventuallyPresent` and
`EventuallyCurrent` (liveness under fairness and ENABLED are out of this prover's reach). Every
invariant and every step property of the passing runs is a theorem.

## 6. Not modelled

* `queueInvalidateBlocks` and `invalidateBlocks`: nothing calls them, the stream's invalidate
  message is ignored. What that leaves behind is in `AppIndexer`.
* Loss of Redis data (`--save 20 1`): Redis and Postgres are durable in the models.
* Formatting, image uploads (one step that may fail), text fields of accounts and posts
  (the rest of `updateAccount`), the hour after which a token expires.
* Steps of handlers between the reads of one query: `CountedOnce` and the other properties of
  queries speak of queries evaluated at one moment.
* Single reads and their reshaping: counts of the social network, the pharmacy, most transaction
  queries, the sorted and paged lists of all tokens, which only order rows of the metadata table,
  the report `getTokensIdsThatImageIsWrong`.
* The change of the stream's filter from one version of the program to the next, which would
  renumber events.

## 7. Plan

Written, in this order: `BullQueue`, `Indexer`, `BlocksPipeline` with its proofs,
`BlockHandlers`, `TokenViews`, `MetadataQueue`, `Social`, `AppIndexer`; then `Decoders` and
reorganisations, unminted tokens and the newer versions of metadata, `SocialFeed`, the totals and
amounts of `TokenViews`, and the proofs of `Social`, `MetadataQueue` and `BlockHandlers`.

After that the proofs of the settled tables, of the queries over them, of the paged feed and of the
numbering of events.

Next:

1. An abstract account service that `Social` implements, and an abstract table of events that
   `AppIndexer` implements.
2. `MetadataQueue`: the safety half of `EventuallyCurrent`, that a row which is the last version stays.
