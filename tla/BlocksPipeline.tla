---------------------------- MODULE BlocksPipeline ----------------------------
(***************************************************************************)
(* The block pipeline (src/src/queues/blocks): a stream of decoded blocks  *)
(* puts one INDEX_BLOCK job per event and then one MARK_BLOCK_AS_INDEXED   *)
(* job into the blocks queue; worker loops run the jobs against Postgres;  *)
(* the metadata row tells a new stream where to start.                     *)
(*                                                                         *)
(* Block numbers are counted from the seeded block (503000 is 0 here).     *)
(* The handlers of the events are one write here; BlockHandlers has their  *)
(* steps.                                                                  *)
(***************************************************************************)
EXTENDS Naturals

CONSTANTS
    LastBlock,      \* length of the chain: blocks 1..LastBlock
    Events,         \* [Block -> set of eventIndex], what handleData returns
    MaxStreams,     \* bound on the streams that are created
    Worker,         \* the worker loops, one per @Process of BlocksProcessor
    NoJob,
    Attempts,       \* JOB_SETTINGS.attempts
    MaxStalls,      \* Bull's maxStalledCount
    MaxThrows,      \* bound on the attempts that fail
    MaxCrashes,     \* bound on the crashes of the process
    MaxEnds         \* bound on the streams that end or hang

Block == 1..LastBlock
Stream == 1..MaxStreams

(* Multiplier of the block number and rank of the mark job in a priority.  *)
Stride == 1000
MarkRank_BeforeEvents == 0      \* mutant: the mark sorts first in its block
MarkRank == 900

EventJob == [kind : {"indexBlock"}, stream : Stream, block : Block,
             rank : UNION {Events[b] : b \in Block}]
MarkJob == [kind : {"markBlockAsIndexed"}, stream : Stream, block : Block,
            rank : {MarkRank}]

(* Every job a stream can add: its events of a block and the mark.         *)
Job == {j \in EventJob : j.rank \in Events[j.block]} \cup MarkJob

EventJobOf(s, b, i) ==
    [kind |-> "indexBlock", stream |-> s, block |-> b, rank |-> i]
MarkJobOf(s, b) ==
    [kind |-> "markBlockAsIndexed", stream |-> s, block |-> b, rank |-> MarkRank]

IsEvent(j) == j.kind = "indexBlock"
IsMark(j) == j.kind = "markBlockAsIndexed"

Priority == [j \in Job |-> j.block * Stride + j.rank]

ASSUME ChainAssumption ==
    /\ LastBlock \in Nat
    /\ Events \in [Block -> SUBSET (Nat \ {0})]
ASSUME QueueAssumption ==
    /\ Attempts \in Nat \ {0}
    /\ MaxStalls \in Nat
    /\ NoJob \notin Job
ASSUME BoundAssumption ==
    /\ MaxStreams \in Nat
    /\ MaxThrows \in Nat /\ MaxCrashes \in Nat /\ MaxEnds \in Nat

VARIABLES
    up,             \* the process runs
    opened,         \* number of streams created so far
    at,             \* [Stream -> the block being queued, 0 if not open]
    todo,           \* [Stream -> the events of that block not yet added]
    state, attempts, stalls, running,    \* the blocks queue, in Redis
    returned,       \* workers whose handler has done its write
    indexed,        \* events applied to Postgres
    lastIndexed,    \* metadata.lastIndexedBlock, 0 without the row
    throws, crashes, ends   \* faults so far

INSTANCE BullQueue

blocksQueue == <<state, attempts, stalls, running>>
streamVars == <<opened, at, todo>>
dbVars == <<indexed, lastIndexed>>
faultVars == <<throws, crashes, ends>>
vars == <<up, streamVars, blocksQueue, returned, dbVars, faultVars>>

EventsAt(b) == IF b \in Block THEN Events[b] ELSE {}

TypeOK ==
    /\ up \in BOOLEAN
    /\ opened \in Nat
    /\ at \in [Stream -> 0..LastBlock + 1]
    /\ todo \in [Stream -> SUBSET Nat]
    /\ QueueTypeOK
    /\ returned \in SUBSET Worker
    /\ indexed \in SUBSET (Block \X Nat)
    /\ lastIndexed \in 0..LastBlock
    /\ throws \in 0..MaxThrows
    /\ crashes \in 0..MaxCrashes
    /\ ends \in 0..MaxEnds

Init ==
    /\ up = FALSE
    /\ opened = 0
    /\ at = [s \in Stream |-> 0]
    /\ todo = [s \in Stream |-> {}]
    /\ QueueInit
    /\ returned = {}
    /\ indexed = {}
    /\ lastIndexed = 0
    /\ throws = 0
    /\ crashes = 0
    /\ ends = 0
-------------------------------------------------------------------------------
(* The producer: BlocksModule                                              *)

(* Mutant: the new stream skips a block.                                   *)
CreateStream_SkipsBlock(s) ==
    /\ s = opened + 1
    /\ opened' = s
    /\ at' = [at EXCEPT ![s] = IF lastIndexed < LastBlock
                               THEN lastIndexed + 2 ELSE lastIndexed + 1]
    /\ todo' = [todo EXCEPT ![s] = EventsAt(at'[s])]

(* createStream(getLastIndexedBlock()).  Whether the cursor's own block is
   delivered again is the server's choice.                                 *)
CreateStream(s) ==
    /\ s = opened + 1
    /\ opened' = s
    /\ \E b \in {lastIndexed, lastIndexed + 1} \ {0} :
         /\ at' = [at EXCEPT ![s] = b]
         /\ todo' = [todo EXCEPT ![s] = EventsAt(b)]

OnModuleInit(s) ==
    /\ ~up
    /\ up' = TRUE
    /\ CreateStream(s)
    /\ UNCHANGED <<blocksQueue, returned, dbVars, faultVars>>

(* Mutant: the interval's early return the wrong way round.                *)
RestartStream_OnlyWithoutRow(s) ==
    /\ up
    /\ lastIndexed = 0
    /\ s + (MaxCrashes - crashes) + (MaxEnds - ends) \in Stream
    /\ CreateStream(s)
    /\ UNCHANGED <<up, blocksQueue, returned, dbVars, faultVars>>

(* The interval found a metadata row that is too old: one more stream, and
   nothing ends the ones before it.  The bound on streams leaves one for
   every fault to come.                                                    *)
RestartStream(s) ==
    /\ up
    /\ lastIndexed # 0
    /\ s + (MaxCrashes - crashes) + (MaxEnds - ends) \in Stream
    /\ CreateStream(s)
    /\ UNCHANGED <<up, blocksQueue, returned, dbVars, faultVars>>

(* The adds of a block are not awaited, but go out in order over one
   connection: Redis accepts the stream's next one.                        *)
QueueIndexBlockData(s) ==
    /\ at[s] \in Block
    /\ \E i \in todo[s] :
         /\ \A k \in todo[s] : i <= k
         /\ Add(EventJobOf(s, at[s], i))
         /\ todo' = [todo EXCEPT ![s] = @ \ {i}]
    /\ UNCHANGED <<up, opened, at, returned, dbVars, faultVars>>

(* Mutant: the mark is added without regard to the adds before it.         *)
QueueMarkBlockAsIndexed_AnyOrder(s) ==
    /\ at[s] \in Block
    /\ Add(MarkJobOf(s, at[s]))
    /\ at' = [at EXCEPT ![s] = @ + 1]
    /\ todo' = [todo EXCEPT ![s] = EventsAt(at[s] + 1)]
    /\ UNCHANGED <<up, opened, returned, dbVars, faultVars>>

QueueMarkBlockAsIndexed(s) ==
    /\ at[s] \in Block
    /\ todo[s] = {}
    /\ Add(MarkJobOf(s, at[s]))
    /\ at' = [at EXCEPT ![s] = @ + 1]
    /\ todo' = [todo EXCEPT ![s] = EventsAt(at[s] + 1)]
    /\ UNCHANGED <<up, opened, returned, dbVars, faultVars>>

(* The for-await loop ends without an error, or no message comes any more.  *)
StreamEnds(s) ==
    /\ at[s] # 0
    /\ ends < MaxEnds
    /\ ends' = ends + 1
    /\ at' = [at EXCEPT ![s] = 0]
    /\ todo' = [todo EXCEPT ![s] = {}]
    /\ UNCHANGED <<up, opened, blocksQueue, returned, dbVars, throws, crashes>>
-------------------------------------------------------------------------------
(* The consumer: BlocksProcessor                                           *)

TakeJob(w) ==
    /\ up
    /\ \E j \in Job : Take(w, j)
    /\ UNCHANGED <<up, streamVars, returned, dbVars, faultVars>>

(* Any of the INDEX_BLOCK handlers, as one write.                          *)
IndexBlock(w) ==
    /\ running[w] # NoJob
    /\ IsEvent(running[w])
    /\ w \notin returned
    /\ indexed' = indexed \cup {<<running[w].block, running[w].rank>>}
    /\ returned' = returned \cup {w}
    /\ UNCHANGED <<up, streamVars, blocksQueue, lastIndexed, faultVars>>

(* Mutant: the row names the block after the one that was marked.          *)
MarkBlockAsIndexed_Next(w) ==
    /\ running[w] # NoJob
    /\ IsMark(running[w])
    /\ w \notin returned
    /\ lastIndexed' = running[w].block + 1
    /\ returned' = returned \cup {w}
    /\ UNCHANGED <<up, streamVars, blocksQueue, indexed, faultVars>>

(* The upsert of the metadata row: it does not look at the old number.     *)
MarkBlockAsIndexed(w) ==
    /\ running[w] # NoJob
    /\ IsMark(running[w])
    /\ w \notin returned
    /\ lastIndexed' = running[w].block
    /\ returned' = returned \cup {w}
    /\ UNCHANGED <<up, streamVars, blocksQueue, indexed, faultVars>>

CompleteJob(w) ==
    /\ w \in returned
    /\ Complete(w)
    /\ returned' = returned \ {w}
    /\ UNCHANGED <<up, streamVars, dbVars, faultVars>>

(* The handler throws, before its write or (in a later step of it) after.  *)
HandlerThrows(w) ==
    /\ throws < MaxThrows
    /\ throws' = throws + 1
    /\ Reject(w)
    /\ returned' = returned \ {w}
    /\ UNCHANGED <<up, streamVars, dbVars, crashes, ends>>

PromoteDelayed ==
    /\ up
    /\ \E j \in Job : Promote(j)
    /\ UNCHANGED <<up, streamVars, returned, dbVars, faultVars>>

CheckStalled ==
    /\ up
    /\ \E j \in Job : RecoverStalled(j)
    /\ UNCHANGED <<up, streamVars, returned, dbVars, faultVars>>
-------------------------------------------------------------------------------
(* The process dies: streams, adds not yet sent and workers are gone; Redis
   and Postgres stay.                                                      *)
Crash ==
    /\ up
    /\ crashes < MaxCrashes
    /\ crashes' = crashes + 1
    /\ up' = FALSE
    /\ at' = [s \in Stream |-> 0]
    /\ todo' = [s \in Stream |-> {}]
    /\ LoseWorkers
    /\ returned' = {}
    /\ UNCHANGED <<opened, dbVars, throws, ends>>

StreamStep(s) == QueueIndexBlockData(s) \/ QueueMarkBlockAsIndexed(s)
HandlerStep(w) == IndexBlock(w) \/ MarkBlockAsIndexed(w) \/ CompleteJob(w)

Next ==
    \/ \E s \in Stream : \/ OnModuleInit(s) \/ RestartStream(s)
                         \/ StreamStep(s) \/ StreamEnds(s)
    \/ \E w \in Worker : TakeJob(w) \/ HandlerStep(w) \/ HandlerThrows(w)
    \/ PromoteDelayed \/ CheckStalled \/ Crash

Spec == Init /\ [][Next]_vars

(* The process is restarted after a crash; a stream that has not ended
   delivers its blocks; the interval fires (when the chain is read to its
   end the metadata row does get old); a worker that is free takes a job, and
   a handler ends; the queue's timers fire.                                *)
Fairness ==
    /\ \A s \in Stream : /\ WF_vars(OnModuleInit(s))
                         /\ WF_vars(RestartStream(s))
                         /\ WF_vars(StreamStep(s))
    /\ \A w \in Worker : /\ WF_vars(TakeJob(w))
                         /\ WF_vars(HandlerStep(w))
    /\ WF_vars(PromoteDelayed)
    /\ WF_vars(CheckStalled)

FairSpec == Spec /\ Fairness
-------------------------------------------------------------------------------
(* Somebody is responsible for event i of block b: its handler has run, or
   one of its jobs is in the queue, with a worker, or kept as failed.      *)
Accepted(b, i) ==
    \/ <<b, i>> \in indexed
    \/ \E s \in Stream : state[EventJobOf(s, b, i)] \notin {"new", "done"}

AcceptedUpTo(n) ==
    \A b \in Block : b <= n => \A i \in Events[b] : Accepted(b, i)

(* No event falls behind the restart point: whatever crashed, threw, ended
   or was started twice, every event of every block up to the one that
   getLastIndexedBlock returns is applied, or still held by the queue.  An
   event without a job below that point would never be streamed again.     *)
NothingLostBehindMark == AcceptedUpTo(lastIndexed)

Started(j) ==
    state[j] \notin {"new", "wait"} \/ attempts[j] > 0 \/ stalls[j] > 0

(* The mark of a block is handed to a worker only after each of the events
   its stream queued for the block has been handed out at least once
   ("higher than other blocks and lower than mark as indexed", the comment
   on queueIndexBlockData's priority), however many retries and crashes
   there were in between.                                                  *)
MarkStartsLast ==
    \A s \in Stream, b \in Block :
        Started(MarkJobOf(s, b)) =>
            \A i \in Events[b] : Started(EventJobOf(s, b, i))

Settled(b, i) ==
    \/ <<b, i>> \in indexed
    \/ \E s \in Stream : state[EventJobOf(s, b, i)] = "failed"

(* The marking of a block as indexed runs after the events for the block
   (the comment that ends blocks.service.ts): when the metadata row moves to
   a block, its events have been applied or given up.                      *)
MarkAfterEvents ==
    [][\A b \in Block : lastIndexed # b /\ lastIndexed' = b =>
         \A i \in Events[b] : Settled(b, i)]_vars

(* Once the metadata row exists, every event of the chain is in the end
   applied, or in the failed set where an operator sees it: neither a crash
   nor a stream that ends silently stops the indexing for good.            *)
EventuallySettled ==
    \A b \in Block : \A i \in Events[b] : lastIndexed # 0 ~> Settled(b, i)

(* The abstract promise: an event is accepted before its block is
   acknowledged, and applied only when accepted.                           *)
acceptedEvents == {e \in Block \X UNION {Events[b] : b \in Block} :
                     e[2] \in Events[e[1]] /\ Accepted(e[1], e[2])}

Promise == INSTANCE Indexer WITH
    accepted <- acceptedEvents, applied <- indexed, ack <- lastIndexed

KeepsPromise == Promise!Spec
=============================================================================
