------------------------- MODULE BlocksPipelineProofs -------------------------
(***************************************************************************)
(* Proofs about BlocksPipeline, for every chain, every number of streams,  *)
(* workers, attempts and faults.                                           *)
(***************************************************************************)
EXTENDS BlocksPipeline, TLAPS

USE DEF Block, Stream

(* An event's job and a mark are jobs, and their fields are what the names
   say.                                                                    *)
LEMMA JobFacts ==
    ASSUME NEW s \in Stream, NEW b \in Block
    PROVE  /\ MarkJobOf(s, b) \in Job
           /\ IsMark(MarkJobOf(s, b)) /\ ~IsEvent(MarkJobOf(s, b))
           /\ MarkJobOf(s, b).block = b
           /\ MarkJobOf(s, b).rank = MarkRank
           /\ \A i \in Events[b] :
                /\ EventJobOf(s, b, i) \in Job
                /\ IsEvent(EventJobOf(s, b, i)) /\ ~IsMark(EventJobOf(s, b, i))
                /\ EventJobOf(s, b, i).block = b
                /\ EventJobOf(s, b, i).rank = i
<1>1. MarkJobOf(s, b) \in MarkJob
  BY DEF MarkJobOf, MarkJob
<1>2. \A i \in Events[b] : EventJobOf(s, b, i) \in EventJob
  BY DEF EventJobOf, EventJob
<1>3. QED
  BY <1>1, <1>2 DEF Job, MarkJobOf, EventJobOf, IsMark, IsEvent

(* Every job is one of the two kinds.                                      *)
LEMMA JobKinds ==
    ASSUME NEW j \in Job
    PROVE  /\ j.stream \in Stream /\ j.block \in Block
           /\ \/ IsEvent(j) /\ j.rank \in Events[j.block]
                            /\ j = EventJobOf(j.stream, j.block, j.rank)
              \/ IsMark(j) /\ j = MarkJobOf(j.stream, j.block)
BY DEF Job, EventJob, MarkJob, IsEvent, IsMark, EventJobOf, MarkJobOf
-------------------------------------------------------------------------------
(* The type invariant: no step leaves the declared ranges; in particular a
   failed attempt never pushes attemptsMade beyond JOB_SETTINGS.attempts.  It
   needs that a job that is not finished has an attempt left, that a worker's
   job is active and its own, and that a stream only has events of its block
   left to queue.                                                          *)
AttemptsLeft ==
    \A j \in Job : state[j] \notin {"failed", "done"} => attempts[j] < Attempts

RunningActive ==
    \A w \in Worker : running[w] # NoJob => state[running[w]] = "active"

OneWorkerPerJob ==
    \A v, w \in Worker : running[v] # NoJob /\ running[v] = running[w] => v = w

QueueInv == QueueTypeOK /\ AttemptsLeft /\ RunningActive /\ OneWorkerPerJob

StreamInv ==
    /\ opened \in Nat
    /\ at \in [Stream -> 0..LastBlock + 1]
    /\ todo \in [Stream -> SUBSET Nat]
    /\ \A s \in Stream : todo[s] \subseteq EventsAt(at[s])

DbTypeOK == indexed \in SUBSET (Block \X Nat) /\ lastIndexed \in 0..LastBlock

FaultTypeOK ==
    throws \in 0..MaxThrows /\ crashes \in 0..MaxCrashes /\ ends \in 0..MaxEnds

ProcessTypeOK == up \in BOOLEAN /\ returned \in SUBSET Worker

TypeInv == StreamInv /\ DbTypeOK /\ FaultTypeOK /\ ProcessTypeOK /\ QueueInv

LEMMA TypeInvImplies == TypeInv => TypeOK
BY DEF TypeInv, TypeOK, QueueInv, StreamInv, DbTypeOK, FaultTypeOK, ProcessTypeOK

LEMMA Constants ==
    /\ LastBlock \in Nat /\ MaxThrows \in Nat /\ MaxCrashes \in Nat /\ MaxEnds \in Nat
    /\ \A b \in Block : Events[b] \in SUBSET Nat
    /\ \A n \in Nat : EventsAt(n) \in SUBSET Nat
<1>1. LastBlock \in Nat /\ \A b \in Block : Events[b] \in SUBSET Nat
  BY ChainAssumption
<1>2. QED
  BY <1>1, BoundAssumption DEF EventsAt

LEMMA TypeInvInit == Init => TypeInv
<1> SUFFICES ASSUME Init PROVE TypeInv
  OBVIOUS
<1> USE DEF Init, QueueInit
<1>1. QueueInv
  BY QueueAssumption DEF QueueInv, QueueTypeOK, JobState, AttemptsLeft,
                         RunningActive, OneWorkerPerJob
<1>2. StreamInv
  BY Constants DEF StreamInv
<1>3. DbTypeOK
  BY Constants DEF DbTypeOK
<1>4. FaultTypeOK
  BY Constants DEF FaultTypeOK
<1>5. ProcessTypeOK
  BY DEF ProcessTypeOK
<1>6. QED
  BY <1>1, <1>2, <1>3, <1>4, <1>5 DEF TypeInv

(* What any operation of the queue does to it.                             *)
QueueOp ==
    \/ \E j \in Job : Add(j) \/ Promote(j) \/ RecoverStalled(j)
    \/ \E w \in Worker : Complete(w) \/ Reject(w) \/ \E j \in Job : Take(w, j)
    \/ LoseWorkers
    \/ UNCHANGED blocksQueue

LEMMA QueueInvStep == QueueInv /\ QueueOp => QueueInv'
<1> SUFFICES ASSUME QueueInv, QueueOp PROVE QueueInv'
  OBVIOUS
<1> USE QueueAssumption
        DEF QueueInv, QueueTypeOK, AttemptsLeft, RunningActive, OneWorkerPerJob,
            JobState
<1>1. ASSUME NEW j \in Job, Add(j) PROVE QueueInv'
  BY <1>1 DEF Add
<1>2. ASSUME NEW w \in Worker, NEW j \in Job, Take(w, j) PROVE QueueInv'
  BY <1>2 DEF Take, IsHead
<1>3. ASSUME NEW w \in Worker, Complete(w) PROVE QueueInv'
  BY <1>3 DEF Complete
<1>4. ASSUME NEW w \in Worker, Reject(w) PROVE QueueInv'
  BY <1>4 DEF Reject
<1>5. ASSUME NEW j \in Job, Promote(j) PROVE QueueInv'
  BY <1>5 DEF Promote
<1>6. ASSUME NEW j \in Job, RecoverStalled(j) PROVE QueueInv'
  BY <1>6 DEF RecoverStalled
<1>7. CASE LoseWorkers
  BY <1>7 DEF LoseWorkers
<1>8. CASE UNCHANGED blocksQueue
  BY <1>8 DEF blocksQueue
<1>9. QED
  BY <1>1, <1>2, <1>3, <1>4, <1>5, <1>6, <1>7, <1>8 DEF QueueOp

(* What a stream adds is a job: the event or the mark of its block.        *)
LEMMA StreamsAddJobs ==
    ASSUME StreamInv, NEW s \in Stream, StreamStep(s)
    PROVE  \E j \in Job : Add(j)
<1>1. CASE QueueIndexBlockData(s)
  <2>1. PICK i \in todo[s] : Add(EventJobOf(s, at[s], i))
    BY <1>1 DEF QueueIndexBlockData
  <2>2. at[s] \in Block /\ i \in Events[at[s]]
    BY <1>1 DEF QueueIndexBlockData, StreamInv, EventsAt
  <2>3. QED
    BY <2>1, <2>2, JobFacts
<1>2. CASE QueueMarkBlockAsIndexed(s)
  BY <1>2, JobFacts DEF QueueMarkBlockAsIndexed
<1>3. QED
  BY <1>1, <1>2 DEF StreamStep

(* Every step of the pipeline is an operation of the queue, or leaves it.   *)
LEMMA StepsAreQueueOps == StreamInv /\ [Next]_vars => QueueOp
<1> SUFFICES ASSUME StreamInv, [Next]_vars PROVE QueueOp
  OBVIOUS
<1>1. ASSUME NEW s \in Stream, OnModuleInit(s) \/ RestartStream(s) \/ StreamEnds(s)
      PROVE  QueueOp
  BY <1>1 DEF OnModuleInit, RestartStream, StreamEnds, QueueOp
<1>2. ASSUME NEW s \in Stream, StreamStep(s) PROVE QueueOp
  BY <1>2, StreamsAddJobs DEF QueueOp
<1>3. ASSUME NEW w \in Worker, TakeJob(w) \/ HandlerStep(w) \/ HandlerThrows(w)
      PROVE  QueueOp
  BY <1>3 DEF TakeJob, HandlerStep, IndexBlock, MarkBlockAsIndexed, CompleteJob,
              HandlerThrows, QueueOp
<1>4. CASE PromoteDelayed \/ CheckStalled \/ Crash \/ UNCHANGED vars
  BY <1>4 DEF PromoteDelayed, CheckStalled, Crash, vars, QueueOp
<1>5. QED
  BY <1>1, <1>2, <1>3, <1>4 DEF Next

LEMMA StreamInvStep == TypeInv /\ [Next]_vars => StreamInv'
<1> SUFFICES ASSUME TypeInv, [Next]_vars PROVE StreamInv'
  OBVIOUS
<1>1. StreamInv /\ lastIndexed \in 0..LastBlock
  BY DEF TypeInv, DbTypeOK
<1>2. ASSUME NEW s \in Stream, CreateStream(s) PROVE StreamInv'
  <2>1. PICK b \in {lastIndexed, lastIndexed + 1} \ {0} :
            at' = [at EXCEPT ![s] = b] /\ todo' = [todo EXCEPT ![s] = EventsAt(b)]
    BY <1>2 DEF CreateStream
  <2>2. b \in 0..LastBlock + 1 /\ b \in Nat /\ opened' \in Nat
    BY <1>1, <1>2, Constants DEF CreateStream
  <2>3. QED
    BY <1>1, <2>1, <2>2, Constants DEF StreamInv
<1>3. ASSUME NEW s \in Stream, QueueIndexBlockData(s) PROVE StreamInv'
  BY <1>1, <1>3 DEF QueueIndexBlockData, StreamInv
<1>4. ASSUME NEW s \in Stream, QueueMarkBlockAsIndexed(s) PROVE StreamInv'
  <2>1. at[s] + 1 \in 0..LastBlock + 1 /\ at[s] + 1 \in Nat
    BY <1>4, Constants DEF QueueMarkBlockAsIndexed
  <2>2. EventsAt(at[s] + 1) \in SUBSET Nat
    BY <2>1, Constants
  <2>3. QED
    BY <1>1, <1>4, <2>1, <2>2 DEF QueueMarkBlockAsIndexed, StreamInv
<1>5. ASSUME NEW s \in Stream, StreamEnds(s) PROVE StreamInv'
  BY <1>1, <1>5, Constants DEF StreamEnds, StreamInv
<1>6. CASE Crash
  BY <1>1, <1>6, Constants DEF Crash, StreamInv
<1>7. CASE UNCHANGED streamVars
  BY <1>1, <1>7 DEF streamVars, StreamInv
<1>8. QED
  BY <1>2, <1>3, <1>4, <1>5, <1>6, <1>7
  DEF Next, StreamStep, OnModuleInit, RestartStream, TakeJob, HandlerStep,
      IndexBlock, MarkBlockAsIndexed, CompleteJob, HandlerThrows, PromoteDelayed,
      CheckStalled, vars

LEMMA DbTypeStep == TypeInv /\ [Next]_vars => DbTypeOK'
<1> SUFFICES ASSUME TypeInv, [Next]_vars PROVE DbTypeOK'
  OBVIOUS
<1>1. ASSUME NEW w \in Worker, IndexBlock(w) PROVE DbTypeOK'
  <2>1. running[w] \in Job /\ IsEvent(running[w])
    BY <1>1 DEF TypeInv, QueueInv, QueueTypeOK, IndexBlock
  <2>2. <<running[w].block, running[w].rank>> \in Block \X Nat
    BY <2>1, JobKinds, Constants DEF IsEvent, IsMark
  <2>3. QED
    BY <1>1, <2>2 DEF IndexBlock, TypeInv, DbTypeOK
<1>2. ASSUME NEW w \in Worker, MarkBlockAsIndexed(w) PROVE DbTypeOK'
  <2>1. running[w] \in Job
    BY <1>2 DEF TypeInv, QueueInv, QueueTypeOK, MarkBlockAsIndexed
  <2>2. running[w].block \in 0..LastBlock
    BY <2>1, JobKinds, Constants
  <2>3. QED
    BY <1>2, <2>2 DEF MarkBlockAsIndexed, TypeInv, DbTypeOK
<1>3. CASE UNCHANGED dbVars
  BY <1>3 DEF dbVars, TypeInv, DbTypeOK
<1>4. QED
  BY <1>1, <1>2, <1>3
  DEF Next, StreamStep, QueueIndexBlockData, QueueMarkBlockAsIndexed, OnModuleInit,
      RestartStream, StreamEnds, TakeJob, HandlerStep, CompleteJob, HandlerThrows,
      PromoteDelayed, CheckStalled, Crash, vars

LEMMA FaultTypeStep == TypeInv /\ [Next]_vars => FaultTypeOK'
<1> SUFFICES ASSUME TypeInv, [Next]_vars PROVE FaultTypeOK'
  OBVIOUS
<1>0. FaultTypeOK
  BY DEF TypeInv
<1>b. MaxThrows \in Nat /\ MaxCrashes \in Nat /\ MaxEnds \in Nat
  BY BoundAssumption
<1> USE <1>0, <1>b DEF FaultTypeOK, faultVars
<1>1. ASSUME NEW s \in Stream, StreamStep(s) \/ StreamEnds(s) PROVE FaultTypeOK'
  BY <1>1 DEF StreamStep, QueueIndexBlockData, QueueMarkBlockAsIndexed, StreamEnds
<1>2. ASSUME NEW s \in Stream, OnModuleInit(s) \/ RestartStream(s) PROVE FaultTypeOK'
  BY <1>2 DEF OnModuleInit, RestartStream
<1>3. ASSUME NEW w \in Worker, TakeJob(w) \/ HandlerStep(w) PROVE FaultTypeOK'
  BY <1>3 DEF TakeJob, HandlerStep, IndexBlock, MarkBlockAsIndexed, CompleteJob
<1>4. ASSUME NEW w \in Worker, HandlerThrows(w) PROVE FaultTypeOK'
  BY <1>4 DEF HandlerThrows
<1>5. CASE PromoteDelayed \/ CheckStalled
  BY <1>5 DEF PromoteDelayed, CheckStalled
<1>6. CASE Crash
  BY <1>6 DEF Crash
<1>7. CASE UNCHANGED vars
  BY <1>7 DEF vars
<1>8. QED
  BY <1>1, <1>2, <1>3, <1>4, <1>5, <1>6, <1>7 DEF Next

LEMMA ProcessTypeStep == TypeInv /\ [Next]_vars => ProcessTypeOK'
<1> SUFFICES ASSUME TypeInv, [Next]_vars PROVE ProcessTypeOK'
  OBVIOUS
<1>0. ProcessTypeOK
  BY DEF TypeInv
<1> USE <1>0 DEF ProcessTypeOK
<1>1. ASSUME NEW s \in Stream, StreamStep(s) \/ StreamEnds(s) PROVE ProcessTypeOK'
  BY <1>1 DEF StreamStep, QueueIndexBlockData, QueueMarkBlockAsIndexed, StreamEnds
<1>2. ASSUME NEW s \in Stream, OnModuleInit(s) \/ RestartStream(s) PROVE ProcessTypeOK'
  BY <1>2 DEF OnModuleInit, RestartStream
<1>3. ASSUME NEW w \in Worker, TakeJob(w) \/ HandlerStep(w) PROVE ProcessTypeOK'
  BY <1>3 DEF TakeJob, HandlerStep, IndexBlock, MarkBlockAsIndexed, CompleteJob
<1>4. ASSUME NEW w \in Worker, HandlerThrows(w) PROVE ProcessTypeOK'
  BY <1>4 DEF HandlerThrows
<1>5. CASE PromoteDelayed \/ CheckStalled
  BY <1>5 DEF PromoteDelayed, CheckStalled
<1>6. CASE Crash
  BY <1>6 DEF Crash
<1>7. CASE UNCHANGED vars
  BY <1>7 DEF vars
<1>8. QED
  BY <1>1, <1>2, <1>3, <1>4, <1>5, <1>6, <1>7 DEF Next

LEMMA TypeInvStep == TypeInv /\ [Next]_vars => TypeInv'
BY StreamInvStep, DbTypeStep, FaultTypeStep, ProcessTypeStep, StepsAreQueueOps,
   QueueInvStep DEF TypeInv

(* Type correctness of the pipeline, for every chain and every bound.      *)
THEOREM TypeCorrect == Spec => []TypeOK
<1>1. Spec => []TypeInv
  BY TypeInvInit, TypeInvStep, PTL DEF Spec
<1>2. QED
  BY <1>1, TypeInvImplies, PTL
-------------------------------------------------------------------------------
(* Nothing is lost behind the mark.  The row alone is not inductive: it takes
   its number from a mark job, that from the stream that queued it, and that
   from where it was told to start.  So each of the three carries the claim
   for the blocks behind it; and a job is only completed after its write.   *)
Held(j) == state[j] \notin {"new", "done"}

StreamsCovered ==
    \A s \in Stream : at[s] # 0 =>
        /\ AcceptedUpTo(at[s] - 1)
        /\ at[s] \in Block => \A i \in Events[at[s]] \ todo[s] : Accepted(at[s], i)

MarksCovered ==
    \A s \in Stream, b \in Block :
        state[MarkJobOf(s, b)] # "new" => AcceptedUpTo(b)

ReturnedIndexed ==
    \A w \in returned :
        /\ running[w] # NoJob
        /\ IsEvent(running[w]) => <<running[w].block, running[w].rank>> \in indexed

CoverInv == /\ TypeInv /\ StreamsCovered /\ MarksCovered /\ ReturnedIndexed
            /\ NothingLostBehindMark

LEMMA CoverInit == Init => CoverInv
<1> SUFFICES ASSUME Init PROVE CoverInv
  OBVIOUS
<1>1. TypeInv
  BY TypeInvInit
<1>2. StreamsCovered /\ ReturnedIndexed
  BY DEF Init, StreamsCovered, ReturnedIndexed
<1>3. MarksCovered
  BY JobFacts DEF Init, QueueInit, MarksCovered
<1>4. NothingLostBehindMark
  BY Constants DEF Init, NothingLostBehindMark, AcceptedUpTo
<1>5. QED
  BY <1>1, <1>2, <1>3, <1>4 DEF CoverInv

(* A job that the queue holds stays there until its write is done.         *)
LEMMA HeldStays ==
    ASSUME CoverInv, [Next]_vars, NEW j \in Job, Held(j)
    PROVE  Held(j)' \/ (IsEvent(j) => <<j.block, j.rank>> \in indexed')
<1> USE DEF Held
<1>0. state \in [Job -> JobState] /\ running \in [Worker -> Job \cup {NoJob}]
  BY DEF CoverInv, TypeInv, QueueInv, QueueTypeOK
<1>1. ASSUME NEW s \in Stream, StreamStep(s) PROVE \E k \in Job : Add(k)
  BY <1>1, StreamsAddJobs DEF CoverInv, TypeInv
<1>2. ASSUME NEW w \in Worker, CompleteJob(w)
      PROVE  Held(j)' \/ (IsEvent(j) => <<j.block, j.rank>> \in indexed')
  <2>1. indexed' = indexed /\ (running[w] = j \/ state'[j] = state[j])
    BY <1>0, <1>2 DEF CompleteJob, Complete, dbVars
  <2>2. QED
    BY <1>2, <2>1 DEF CompleteJob, CoverInv, ReturnedIndexed
<1>3. ASSUME NEW k \in Job, Add(k) \/ Promote(k) \/ RecoverStalled(k)
      PROVE  Held(j)'
  BY <1>0, <1>3 DEF Add, Promote, RecoverStalled
<1>4. ASSUME NEW w \in Worker, Reject(w) \/ \E k \in Job : Take(w, k)
      PROVE  Held(j)'
  BY <1>0, <1>4, QueueAssumption DEF Reject, Take
<1>5. CASE LoseWorkers
  BY <1>0, <1>5 DEF LoseWorkers
<1>6. CASE UNCHANGED blocksQueue
  BY <1>6 DEF blocksQueue
<1>7. QED
  BY <1>1, <1>2, <1>3, <1>4, <1>5, <1>6
  DEF Next, OnModuleInit, RestartStream, StreamEnds, TakeJob, HandlerStep,
      IndexBlock, MarkBlockAsIndexed, HandlerThrows, PromoteDelayed, CheckStalled,
      Crash, vars

(* An event somebody is responsible for stays so.                          *)
LEMMA AcceptedStays ==
    ASSUME CoverInv, [Next]_vars
    PROVE  \A b \in Block : \A i \in Events[b] : Accepted(b, i) => Accepted(b, i)'
<1> SUFFICES ASSUME NEW b \in Block, NEW i \in Events[b], Accepted(b, i)
             PROVE  Accepted(b, i)'
  OBVIOUS
<1>1. indexed \subseteq indexed'
  BY DEF Next, StreamStep, QueueIndexBlockData, QueueMarkBlockAsIndexed,
         OnModuleInit, RestartStream, StreamEnds, TakeJob, HandlerStep, IndexBlock,
         MarkBlockAsIndexed, CompleteJob, HandlerThrows, PromoteDelayed,
         CheckStalled, Crash, vars, dbVars
<1>2. CASE <<b, i>> \in indexed
  BY <1>1, <1>2 DEF Accepted
<1>3. ASSUME NEW s \in Stream, Held(EventJobOf(s, b, i)) PROVE Accepted(b, i)'
  BY <1>3, HeldStays, JobFacts DEF Accepted, Held
<1>4. QED
  BY <1>2, <1>3 DEF Accepted, Held

LEMMA AcceptedUpToStays ==
    ASSUME CoverInv, [Next]_vars
    PROVE  \A n : AcceptedUpTo(n) => AcceptedUpTo(n)'
BY AcceptedStays DEF AcceptedUpTo

(* When a stream goes on to its next block the one before is covered.      *)
LEMMA BlockDone ==
    ASSUME CoverInv, NEW s \in Stream, at[s] \in Block, todo[s] = {}
    PROVE  AcceptedUpTo(at[s])
<1>1. at[s] # 0 /\ AcceptedUpTo(at[s] - 1) /\ \A i \in Events[at[s]] : Accepted(at[s], i)
  BY Constants DEF CoverInv, StreamsCovered
<1>2. \A b \in Block : b <= at[s] => b <= at[s] - 1 \/ b = at[s]
  BY Constants
<1>3. QED
  BY <1>1, <1>2 DEF AcceptedUpTo

StreamCovered(s) ==
    at[s] # 0 =>
        /\ AcceptedUpTo(at[s] - 1)
        /\ at[s] \in Block => \A i \in Events[at[s]] \ todo[s] : Accepted(at[s], i)

(* A stream that the step does not move stays covered.                     *)
LEMMA StreamStays ==
    ASSUME CoverInv, [Next]_vars, NEW s \in Stream,
           at'[s] = at[s], todo'[s] = todo[s]
    PROVE  StreamCovered(s)'
BY AcceptedStays, AcceptedUpToStays DEF CoverInv, StreamsCovered, StreamCovered

LEMMA StreamsCoveredStep == CoverInv /\ [Next]_vars => StreamsCovered'
<1> SUFFICES ASSUME CoverInv, [Next]_vars, NEW s \in Stream PROVE StreamCovered(s)'
  BY DEF StreamsCovered, StreamCovered
<1>0. StreamInv /\ lastIndexed \in 0..LastBlock /\ LastBlock \in Nat
  BY Constants DEF CoverInv, TypeInv, DbTypeOK
<1>1. ASSUME CreateStream(s) PROVE StreamCovered(s)'
  <2>1. PICK b \in {lastIndexed, lastIndexed + 1} \ {0} :
            at' = [at EXCEPT ![s] = b] /\ todo' = [todo EXCEPT ![s] = EventsAt(b)]
    BY <1>1 DEF CreateStream
  <2>2. at'[s] = b /\ todo'[s] = EventsAt(b)
    BY <1>0, <2>1 DEF StreamInv
  <2>3. \A c \in Block : c <= b - 1 => c <= lastIndexed
    BY <1>0, <2>1
  <2>4. AcceptedUpTo(b - 1)'
    BY <2>3, AcceptedUpToStays DEF CoverInv, NothingLostBehindMark, AcceptedUpTo
  <2>5. QED
    BY <2>2, <2>4 DEF StreamCovered, EventsAt
<1>2. ASSUME QueueIndexBlockData(s) PROVE StreamCovered(s)'
  <2>1. PICK i \in todo[s] : /\ Add(EventJobOf(s, at[s], i))
                             /\ todo' = [todo EXCEPT ![s] = @ \ {i}]
    BY <1>2 DEF QueueIndexBlockData
  <2>2. at' = at /\ at[s] \in Block /\ i \in Events[at[s]]
    BY <1>0, <1>2 DEF QueueIndexBlockData, StreamInv, EventsAt
  <2>3. Accepted(at[s], i)'
    BY <2>1, <2>2, JobFacts DEF Add, Accepted, CoverInv, TypeInv, QueueInv, QueueTypeOK
  <2>4. StreamCovered(s)
    BY DEF CoverInv, StreamsCovered, StreamCovered
  <2>5. todo'[s] = todo[s] \ {i}
    BY <1>0, <2>1 DEF StreamInv
  <2>6. AcceptedUpTo(at[s] - 1)'
    BY <2>2, <2>4, AcceptedUpToStays, <1>0 DEF StreamCovered
  <2>7. \A k \in Events[at[s]] \ todo'[s] : Accepted(at[s], k)'
    BY <2>2, <2>3, <2>4, <2>5, AcceptedStays, <1>0 DEF StreamCovered
  <2>8. QED
    BY <2>2, <2>6, <2>7 DEF StreamCovered
<1>3. ASSUME QueueMarkBlockAsIndexed(s) PROVE StreamCovered(s)'
  <2>1. at[s] \in Block /\ AcceptedUpTo(at[s])
    BY <1>3, BlockDone DEF QueueMarkBlockAsIndexed
  <2>2. at'[s] = at[s] + 1 /\ at'[s] - 1 = at[s] /\ todo'[s] = EventsAt(at[s] + 1)
    BY <1>0, <1>3 DEF QueueMarkBlockAsIndexed, StreamInv
  <2>3. \A n : n = at[s] => AcceptedUpTo(n)'
    BY <2>1, AcceptedUpToStays
  <2>4. AcceptedUpTo(at[s] - 1)'
    BY <2>2, <2>3
  <2>5. QED
    BY <2>2, <2>4 DEF StreamCovered, EventsAt
<1>4. ASSUME StreamEnds(s) \/ Crash PROVE StreamCovered(s)'
  BY <1>0, <1>4 DEF StreamEnds, Crash, StreamInv, StreamCovered
<1>5. ASSUME NEW t \in Stream, t # s,
             CreateStream(t) \/ StreamStep(t) \/ StreamEnds(t)
      PROVE  at'[s] = at[s] /\ todo'[s] = todo[s]
  BY <1>0, <1>5 DEF CreateStream, StreamStep, QueueIndexBlockData,
                    QueueMarkBlockAsIndexed, StreamEnds, StreamInv
<1>6. ASSUME UNCHANGED streamVars PROVE at'[s] = at[s] /\ todo'[s] = todo[s]
  BY <1>6 DEF streamVars
<1>7. QED
  BY <1>1, <1>2, <1>3, <1>4, <1>5, <1>6, StreamStays
  DEF Next, OnModuleInit, RestartStream, StreamStep, TakeJob, HandlerStep,
      IndexBlock, MarkBlockAsIndexed, CompleteJob, HandlerThrows, PromoteDelayed,
      CheckStalled, vars

(* Only the stream that is at a block adds its mark of the block.          *)
LEMMA MarkAdded ==
    ASSUME TypeInv, [Next]_vars, NEW s \in Stream, NEW b \in Block,
           state[MarkJobOf(s, b)] = "new", state'[MarkJobOf(s, b)] # "new"
    PROVE  QueueMarkBlockAsIndexed(s) /\ at[s] = b
<1> DEFINE m == MarkJobOf(s, b)
<1>0. /\ m \in Job /\ IsMark(m) /\ m.block = b /\ m.stream = s
      /\ state \in [Job -> JobState] /\ running \in [Worker -> Job \cup {NoJob}]
      /\ RunningActive
  BY JobFacts DEF MarkJobOf, TypeInv, QueueInv, QueueTypeOK
<1>1. ASSUME NEW t \in Stream, QueueMarkBlockAsIndexed(t) PROVE t = s /\ at[t] = b
  <2>1. MarkJobOf(t, at[t]) = m
    BY <1>0, <1>1, JobFacts DEF QueueMarkBlockAsIndexed, Add
  <2>2. QED
    BY <2>1, <1>1 DEF MarkJobOf, QueueMarkBlockAsIndexed
<1>2. ASSUME NEW t \in Stream, QueueIndexBlockData(t) PROVE FALSE
  <2>1. PICK i \in todo[t] : Add(EventJobOf(t, at[t], i))
    BY <1>2 DEF QueueIndexBlockData
  <2>2. EventJobOf(t, at[t], i) # m
    BY DEF EventJobOf, MarkJobOf
  <2>3. QED
    BY <1>0, <2>1, <2>2 DEF Add
<1>3. ASSUME NEW j \in Job, Promote(j) \/ RecoverStalled(j) PROVE FALSE
  BY <1>0, <1>3 DEF Promote, RecoverStalled
<1>4. ASSUME NEW w \in Worker, Complete(w) \/ Reject(w) PROVE FALSE
  BY <1>0, <1>4 DEF Complete, Reject, RunningActive
<1>5. ASSUME NEW w \in Worker, NEW j \in Job, Take(w, j) PROVE FALSE
  BY <1>0, <1>5 DEF Take, IsHead
<1>6. ASSUME LoseWorkers \/ UNCHANGED blocksQueue PROVE FALSE
  BY <1>0, <1>6 DEF LoseWorkers, blocksQueue
<1>7. PICK t \in Stream : QueueMarkBlockAsIndexed(t)
  BY <1>2, <1>3, <1>4, <1>5, <1>6
  DEF Next, OnModuleInit, RestartStream, StreamStep, StreamEnds, TakeJob,
      HandlerStep, IndexBlock, MarkBlockAsIndexed, CompleteJob, HandlerThrows,
      PromoteDelayed, CheckStalled, Crash, vars
<1>8. QED
  BY <1>1, <1>7

LEMMA MarksCoveredStep == CoverInv /\ [Next]_vars => MarksCovered'
<1> SUFFICES ASSUME CoverInv, [Next]_vars, NEW s \in Stream, NEW b \in Block,
                    state'[MarkJobOf(s, b)] # "new"
             PROVE  AcceptedUpTo(b)'
  BY DEF MarksCovered
<1>1. CASE state[MarkJobOf(s, b)] # "new"
  BY <1>1, AcceptedUpToStays DEF CoverInv, MarksCovered
<1>2. CASE state[MarkJobOf(s, b)] = "new"
  <2>1. QueueMarkBlockAsIndexed(s) /\ at[s] = b
    BY <1>2, MarkAdded DEF CoverInv
  <2>2. AcceptedUpTo(b)
    BY <2>1, BlockDone DEF QueueMarkBlockAsIndexed
  <2>3. QED
    BY <2>2, AcceptedUpToStays
<1>3. QED
  BY <1>1, <1>2

LEMMA RowCoveredStep == CoverInv /\ [Next]_vars => NothingLostBehindMark'
<1> SUFFICES ASSUME CoverInv, [Next]_vars PROVE NothingLostBehindMark'
  OBVIOUS
<1>1. ASSUME NEW w \in Worker, MarkBlockAsIndexed(w)
      PROVE  NothingLostBehindMark'
  <2>1. running[w] \in Job /\ IsMark(running[w]) /\ state[running[w]] = "active"
    BY <1>1 DEF MarkBlockAsIndexed, CoverInv, TypeInv, QueueInv, QueueTypeOK,
                RunningActive
  <2>2. AcceptedUpTo(running[w].block)
    BY <2>1, JobKinds DEF CoverInv, MarksCovered, IsMark, IsEvent
  <2>3. \A n : n = running[w].block => AcceptedUpTo(n)'
    BY <2>2, AcceptedUpToStays
  <2>4. lastIndexed' = running[w].block
    BY <1>1 DEF MarkBlockAsIndexed
  <2>5. QED
    BY <2>3, <2>4 DEF NothingLostBehindMark
<1>2. CASE lastIndexed' = lastIndexed
  <2>1. \A n : n = lastIndexed => AcceptedUpTo(n)'
    BY AcceptedUpToStays DEF CoverInv, NothingLostBehindMark
  <2>2. QED
    BY <1>2, <2>1 DEF NothingLostBehindMark
<1>3. QED
  BY <1>1, <1>2
  DEF Next, OnModuleInit, RestartStream, StreamStep, QueueIndexBlockData,
      QueueMarkBlockAsIndexed, StreamEnds, TakeJob, HandlerStep, IndexBlock,
      CompleteJob, HandlerThrows, PromoteDelayed, CheckStalled, Crash, vars, dbVars

LEMMA ReturnedStep == CoverInv /\ [Next]_vars => ReturnedIndexed'
<1> SUFFICES ASSUME CoverInv, [Next]_vars PROVE ReturnedIndexed'
  OBVIOUS
<1>0. /\ running \in [Worker -> Job \cup {NoJob}] /\ returned \in SUBSET Worker
      /\ ReturnedIndexed /\ OneWorkerPerJob
  BY DEF CoverInv, TypeInv, QueueInv, QueueTypeOK, ProcessTypeOK
<1> USE <1>0 DEF ReturnedIndexed
<1>1. ASSUME NEW w \in Worker, TakeJob(w) PROVE ReturnedIndexed'
  BY <1>1 DEF TakeJob, Take, dbVars
<1>2. ASSUME NEW w \in Worker, IndexBlock(w) PROVE ReturnedIndexed'
  BY <1>2 DEF IndexBlock, blocksQueue
<1>3. ASSUME NEW w \in Worker, MarkBlockAsIndexed(w) PROVE ReturnedIndexed'
  BY <1>3 DEF MarkBlockAsIndexed, blocksQueue, IsMark, IsEvent
<1>4. ASSUME NEW w \in Worker, CompleteJob(w) PROVE ReturnedIndexed'
  BY <1>4 DEF CompleteJob, Complete, dbVars
<1>5. ASSUME NEW w \in Worker, HandlerThrows(w) PROVE ReturnedIndexed'
  BY <1>5 DEF HandlerThrows, Reject, dbVars
<1>6. CASE Crash
  BY <1>6 DEF Crash
<1>7. CASE UNCHANGED <<running, returned, indexed>>
  BY <1>7
<1>8. QED
  BY <1>1, <1>2, <1>3, <1>4, <1>5, <1>6, <1>7
  DEF Next, OnModuleInit, RestartStream, StreamStep, QueueIndexBlockData,
      QueueMarkBlockAsIndexed, StreamEnds, HandlerStep, PromoteDelayed,
      CheckStalled, Add, Promote, RecoverStalled, vars, dbVars, blocksQueue

LEMMA CoverStep == CoverInv /\ [Next]_vars => CoverInv'
BY TypeInvStep, StreamsCoveredStep, MarksCoveredStep, RowCoveredStep, ReturnedStep
   DEF CoverInv

LEMMA Covered == Spec => []CoverInv
BY CoverInit, CoverStep, PTL DEF Spec

(* No event falls behind the block that getLastIndexedBlock returns.       *)
THEOREM NothingLost == Spec => []NothingLostBehindMark
<1>1. CoverInv => NothingLostBehindMark
  BY DEF CoverInv
<1>2. QED
  BY <1>1, Covered, PTL
-------------------------------------------------------------------------------
(* The mark of a block starts last.  A stream adds the mark after the events,
   so when the mark waits they have left "new"; among waiting jobs the list
   hands out the smaller priority first; and a job that is back in the list
   was counted as started by its attempts or stalls.  The priorities order a
   block only while its indices stay below the mark's rank.                *)
ShortBlocks == \A b \in Block : \A i \in Events[b] : i < MarkRank

AddedBefore ==
    \A s \in Stream :
        /\ at[s] \in Block => \A i \in Events[at[s]] \ todo[s] :
                                  state[EventJobOf(s, at[s], i)] # "new"
        /\ \A b \in Block : state[MarkJobOf(s, b)] # "new" =>
              \A i \in Events[b] : state[EventJobOf(s, b, i)] # "new"

ReturnsCounted ==
    \A j \in Job : /\ state[j] = "delayed" => attempts[j] > 0
                   /\ state[j] = "front" => stalls[j] > 0

OrderInv == TypeInv /\ AddedBefore /\ ReturnsCounted /\ MarkStartsLast

LEMMA OrderInit == Init => OrderInv
<1> SUFFICES ASSUME Init PROVE OrderInv
  OBVIOUS
<1>1. \A j \in Job : state[j] = "new" /\ attempts[j] = 0 /\ stalls[j] = 0
  BY DEF Init, QueueInit
<1>2. \A s \in Stream : at[s] \notin Block
  BY Constants DEF Init
<1>3. QED
  BY <1>1, <1>2, TypeInvInit, JobFacts
  DEF OrderInv, AddedBefore, ReturnsCounted, MarkStartsLast, Started

(* An added job never becomes new again, a started one never unstarted.    *)
LEMMA JobsMoveOn ==
    ASSUME OrderInv, [Next]_vars
    PROVE  /\ \A j \in Job : state[j] # "new" => state'[j] # "new"
           /\ \A j \in Job : Started(j) => Started(j)'
           /\ ReturnsCounted'
<1> DEFINE P == /\ \A j \in Job : state[j] # "new" => state'[j] # "new"
                /\ \A j \in Job : Started(j) => Started(j)'
                /\ ReturnsCounted'
<1>0. QueueTypeOK /\ RunningActive /\ ReturnsCounted
  BY DEF OrderInv, TypeInv, QueueInv
<1>1. QueueOp
  BY StepsAreQueueOps DEF OrderInv, TypeInv
<1> USE <1>0, QueueAssumption
        DEF QueueTypeOK, RunningActive, ReturnsCounted, Started
<1>2. ASSUME NEW k \in Job, Add(k) PROVE P
  BY <1>2 DEF Add
<1>3. ASSUME NEW k \in Job, Promote(k) PROVE P
  BY <1>3 DEF Promote
<1>4. ASSUME NEW k \in Job, RecoverStalled(k) PROVE P
  BY <1>4 DEF RecoverStalled
<1>5. ASSUME NEW w \in Worker, Complete(w) PROVE P
  BY <1>5 DEF Complete
<1>6. ASSUME NEW w \in Worker, Reject(w) PROVE P
  BY <1>6 DEF Reject
<1>7. ASSUME NEW w \in Worker, NEW k \in Job, Take(w, k) PROVE P
  BY <1>7 DEF Take
<1>8. CASE LoseWorkers
  BY <1>8 DEF LoseWorkers
<1>9. CASE UNCHANGED blocksQueue
  BY <1>9 DEF blocksQueue
<1>10. QED
  BY <1>1, <1>2, <1>3, <1>4, <1>5, <1>6, <1>7, <1>8, <1>9 DEF QueueOp

LEMMA AddedBeforeStep == OrderInv /\ [Next]_vars => AddedBefore'
<1> SUFFICES ASSUME OrderInv, [Next]_vars, NEW s \in Stream
             PROVE  /\ (at[s] \in Block => \A i \in Events[at[s]] \ todo[s] :
                                  state[EventJobOf(s, at[s], i)] # "new")'
                    /\ \A b \in Block : state'[MarkJobOf(s, b)] # "new" =>
                          \A i \in Events[b] : state'[EventJobOf(s, b, i)] # "new"
  BY DEF AddedBefore
<1>0. StreamInv /\ state \in [Job -> JobState]
  BY DEF OrderInv, TypeInv, QueueInv, QueueTypeOK
<1>1. \A b \in Block : \A i \in Events[b] :
        state[EventJobOf(s, b, i)] # "new" => state'[EventJobOf(s, b, i)] # "new"
  BY JobFacts, JobsMoveOn
<1>2. ASSUME NEW b \in Block, state'[MarkJobOf(s, b)] # "new", NEW i \in Events[b]
      PROVE  state'[EventJobOf(s, b, i)] # "new"
  <2>1. CASE state[MarkJobOf(s, b)] # "new"
    BY <1>1, <2>1 DEF OrderInv, AddedBefore
  <2>2. CASE state[MarkJobOf(s, b)] = "new"
    <3>1. at[s] = b /\ todo[s] = {}
      BY <1>2, <2>2, MarkAdded DEF OrderInv, QueueMarkBlockAsIndexed
    <3>2. QED
      BY <1>1, <3>1 DEF OrderInv, AddedBefore
  <2>3. QED
    BY <2>1, <2>2
<1> DEFINE Here == at'[s] \in Block => \A i \in Events[at'[s]] \ todo'[s] :
                                         state'[EventJobOf(s, at'[s], i)] # "new"
<1>3. ASSUME at'[s] = at[s], todo'[s] = todo[s] PROVE Here
  BY <1>1, <1>3 DEF OrderInv, AddedBefore
<1>4. ASSUME at'[s] \notin Block \/ todo'[s] = EventsAt(at'[s]) PROVE Here
  BY <1>4 DEF EventsAt
<1>5. ASSUME QueueIndexBlockData(s) PROVE Here
  <2>1. PICK i \in todo[s] : /\ Add(EventJobOf(s, at[s], i))
                             /\ todo' = [todo EXCEPT ![s] = @ \ {i}]
    BY <1>5 DEF QueueIndexBlockData
  <2>2. at' = at /\ at[s] \in Block /\ i \in Events[at[s]]
    BY <1>0, <1>5 DEF QueueIndexBlockData, StreamInv, EventsAt
  <2>3. todo'[s] = todo[s] \ {i} /\ state'[EventJobOf(s, at[s], i)] # "new"
    BY <1>0, <2>1, <2>2, JobFacts DEF Add, StreamInv
  <2>4. QED
    BY <1>1, <2>2, <2>3 DEF OrderInv, AddedBefore
<1>6. ASSUME CreateStream(s) \/ QueueMarkBlockAsIndexed(s) \/ StreamEnds(s) \/ Crash
      PROVE  at'[s] \notin Block \/ todo'[s] = EventsAt(at'[s])
  <2>1. CASE CreateStream(s)
    BY <1>0, <2>1 DEF CreateStream, StreamInv
  <2>2. CASE QueueMarkBlockAsIndexed(s)
    BY <1>0, <2>2 DEF QueueMarkBlockAsIndexed, StreamInv
  <2>3. CASE StreamEnds(s) \/ Crash
    <3>1. at'[s] = 0
      BY <1>0, <2>3 DEF StreamEnds, Crash, StreamInv
    <3>2. QED
      BY <3>1, Constants
  <2>4. QED
    BY <1>6, <2>1, <2>2, <2>3
<1>7. ASSUME NEW t \in Stream, t # s,
             CreateStream(t) \/ StreamStep(t) \/ StreamEnds(t)
      PROVE  at'[s] = at[s] /\ todo'[s] = todo[s]
  BY <1>0, <1>7 DEF CreateStream, StreamStep, QueueIndexBlockData,
                    QueueMarkBlockAsIndexed, StreamEnds, StreamInv
<1>8. ASSUME UNCHANGED streamVars PROVE at'[s] = at[s] /\ todo'[s] = todo[s]
  BY <1>8 DEF streamVars
<1>9. Here
  BY <1>3, <1>4, <1>5, <1>6, <1>7, <1>8
  DEF Next, OnModuleInit, RestartStream, StreamStep, TakeJob, HandlerStep,
      IndexBlock, MarkBlockAsIndexed, CompleteJob, HandlerThrows, PromoteDelayed,
      CheckStalled, vars
<1>10. QED
  BY <1>2, <1>9

(* A job starts when a worker takes it from the list, and then only if no
   waiting job has a smaller priority.                                     *)
LEMMA StartIsTake ==
    ASSUME OrderInv, [Next]_vars, NEW j \in Job, ~Started(j), Started(j)'
    PROVE  /\ state[j] = "wait"
           /\ \A k \in Job : state[k] = "wait" => Priority[j] <= Priority[k]
<1>0. QueueTypeOK /\ RunningActive /\ state[j] \in {"new", "wait"}
      /\ attempts[j] = 0 /\ stalls[j] = 0
  BY QueueAssumption DEF OrderInv, TypeInv, QueueInv, QueueTypeOK, Started
<1>1. QueueOp
  BY StepsAreQueueOps DEF OrderInv, TypeInv
<1> USE <1>0, QueueAssumption DEF QueueTypeOK, Started
<1>2. ASSUME NEW k \in Job, Add(k) \/ Promote(k) \/ RecoverStalled(k) PROVE FALSE
  BY <1>2 DEF Add, Promote, RecoverStalled
<1>3. ASSUME NEW w \in Worker, Complete(w) \/ Reject(w) PROVE FALSE
  BY <1>3 DEF Complete, Reject, RunningActive
<1>4. ASSUME LoseWorkers \/ UNCHANGED blocksQueue PROVE FALSE
  BY <1>4 DEF LoseWorkers, blocksQueue
<1>5. PICK w \in Worker, k \in Job : Take(w, k)
  BY <1>1, <1>2, <1>3, <1>4 DEF QueueOp
<1>6. k = j
  BY <1>5 DEF Take
<1>7. QED
  BY <1>5, <1>6 DEF Take, IsHead

LEMMA MarkStartsLastStep ==
    ASSUME ShortBlocks
    PROVE  OrderInv /\ [Next]_vars => MarkStartsLast'
<1> SUFFICES ASSUME OrderInv, [Next]_vars, NEW s \in Stream, NEW b \in Block,
                    Started(MarkJobOf(s, b))', NEW i \in Events[b]
             PROVE  Started(EventJobOf(s, b, i))'
  BY DEF MarkStartsLast
<1> DEFINE m == MarkJobOf(s, b)
           e == EventJobOf(s, b, i)
<1>1. m \in Job /\ e \in Job /\ m.block = b /\ e.block = b
      /\ m.rank = MarkRank /\ e.rank = i
  BY JobFacts
<1>2. CASE Started(m)
  BY <1>1, <1>2, JobsMoveOn DEF OrderInv, MarkStartsLast
<1>3. CASE ~Started(m)
  <2>1. SUFFICES ASSUME ~Started(e) PROVE FALSE
    BY <1>1, JobsMoveOn
  <2>2. state[m] = "wait" /\ (state[e] = "wait" => Priority[m] <= Priority[e])
    BY <1>1, <1>3, StartIsTake
  <2>3. state[e] = "wait"
    BY <2>1, <2>2 DEF OrderInv, AddedBefore, Started
  <2>4. Priority[m] = b * Stride + MarkRank /\ Priority[e] = b * Stride + i
    BY <1>1 DEF Priority
  <2>5. b \in Nat /\ i \in Nat /\ i < MarkRank
    BY Constants DEF ShortBlocks
  <2>6. QED
    BY <2>2, <2>3, <2>4, <2>5 DEF Stride, MarkRank
<1>4. QED
  BY <1>2, <1>3

(* In a chain whose blocks have fewer matched events than the mark's rank,
   every event of a block is handed to a worker before the block's mark.    *)
THEOREM MarkLast == ShortBlocks => (Spec => []MarkStartsLast)
<1> SUFFICES ASSUME ShortBlocks PROVE Spec => []MarkStartsLast
  OBVIOUS
<1>1. OrderInv /\ [Next]_vars => OrderInv'
  BY TypeInvStep, AddedBeforeStep, JobsMoveOn, MarkStartsLastStep DEF OrderInv
<1>2. OrderInv => MarkStartsLast
  BY DEF OrderInv
<1>3. QED
  BY OrderInit, <1>1, <1>2, PTL DEF Spec
-------------------------------------------------------------------------------
(* The pipeline keeps the promise of Indexer.  Each step accepts the event
   whose job it adds, applies the event whose handler writes, acknowledges
   the block it marks, or changes nothing a reader of the promise sees; the
   guard of Acknowledge is the coverage of the mark's block.               *)
LEMMA AcceptedEvents ==
    \A b \in Block : \A i \in Events[b] :
        Accepted(b, i) <=> <<b, i>> \in acceptedEvents
BY DEF acceptedEvents

LEMMA OnlyChainEvents ==
    \A e \in acceptedEvents :
        \E b \in Block : \E i \in Events[b] : e = <<b, i>> /\ Accepted(b, i)
BY DEF acceptedEvents

(* A completed job stays completed: its id is never added again.           *)
LEMMA DoneStays ==
    ASSUME TypeInv, [Next]_vars, NEW j \in Job, state[j] = "done"
    PROVE  state'[j] = "done"
<1>0. QueueTypeOK /\ RunningActive
  BY DEF TypeInv, QueueInv
<1>1. QueueOp
  BY StepsAreQueueOps DEF TypeInv
<1> USE <1>0 DEF QueueTypeOK, RunningActive
<1>2. ASSUME NEW k \in Job, Add(k) \/ Promote(k) \/ RecoverStalled(k)
      PROVE  state'[j] = "done"
  BY <1>2 DEF Add, Promote, RecoverStalled
<1>3. ASSUME NEW w \in Worker, Complete(w) \/ Reject(w) \/ \E k \in Job : Take(w, k)
      PROVE  state'[j] = "done"
  BY <1>3 DEF Complete, Reject, Take, IsHead
<1>4. ASSUME LoseWorkers \/ UNCHANGED blocksQueue PROVE state'[j] = "done"
  BY <1>4 DEF LoseWorkers, blocksQueue
<1>5. QED
  BY <1>1, <1>2, <1>3, <1>4 DEF QueueOp

(* An event becomes accepted only by a write or by an added job.           *)
LEMMA NewlyAccepted ==
    ASSUME CoverInv, [Next]_vars, NEW b \in Block, NEW i \in Events[b],
           Accepted(b, i)'
    PROVE  \/ Accepted(b, i)
           \/ <<b, i>> \in indexed'
           \/ \E s \in Stream : /\ state[EventJobOf(s, b, i)] = "new"
                               /\ state'[EventJobOf(s, b, i)] # "new"
<1>1. ASSUME NEW s \in Stream, state'[EventJobOf(s, b, i)] \notin {"new", "done"}
      PROVE  \/ state[EventJobOf(s, b, i)] = "new"
             \/ Accepted(b, i)
  BY <1>1, JobFacts, DoneStays DEF CoverInv, Accepted
<1>2. QED
  BY <1>1 DEF Accepted

NoEventAdded == \A j \in Job : IsEvent(j) /\ state[j] = "new" => state'[j] = "new"

(* A step that adds no event job makes no event accepted.                  *)
LEMMA AcceptedUnchanged ==
    ASSUME CoverInv, [Next]_vars, indexed' = indexed, NoEventAdded
    PROVE  acceptedEvents' = acceptedEvents
<1>1. ASSUME NEW b \in Block, NEW i \in Events[b]
      PROVE  Accepted(b, i)' <=> Accepted(b, i)
  <2>1. Accepted(b, i)' => Accepted(b, i)
    BY NewlyAccepted, JobFacts DEF NoEventAdded, Accepted
  <2>2. QED
    BY <2>1, AcceptedStays
<1>2. QED
  BY <1>1 DEF acceptedEvents

LEMMA WriteAcceptsNothing ==
    ASSUME CoverInv, [Next]_vars, NEW w \in Worker, IndexBlock(w)
    PROVE  /\ acceptedEvents' = acceptedEvents
           /\ <<running[w].block, running[w].rank>> \in acceptedEvents
<1> DEFINE j == running[w]
<1>0. /\ j \in Job /\ IsEvent(j) /\ state[j] = "active" /\ state' = state
      /\ indexed' = indexed \cup {<<j.block, j.rank>>}
  BY DEF IndexBlock, CoverInv, TypeInv, QueueInv, QueueTypeOK, RunningActive,
         blocksQueue
<1>1. /\ j.block \in Block /\ j.rank \in Events[j.block]
      /\ j.stream \in Stream /\ j = EventJobOf(j.stream, j.block, j.rank)
  BY <1>0, JobKinds DEF IsEvent, IsMark
<1>2. Accepted(j.block, j.rank)
  BY <1>0, <1>1 DEF Accepted
<1>3. ASSUME NEW b \in Block, NEW i \in Events[b]
      PROVE  Accepted(b, i)' <=> Accepted(b, i)
  BY <1>0, <1>2 DEF Accepted
<1>4. QED
  BY <1>1, <1>2, <1>3 DEF acceptedEvents

LEMMA AddAcceptsOne ==
    ASSUME CoverInv, [Next]_vars, NEW s \in Stream, QueueIndexBlockData(s)
    PROVE  \E b \in Block : \E i \in Events[b] :
             acceptedEvents' = acceptedEvents \cup {<<b, i>>}
<1>1. PICK i \in todo[s] : Add(EventJobOf(s, at[s], i))
  BY DEF QueueIndexBlockData
<1>2. /\ at[s] \in Block /\ i \in Events[at[s]] /\ indexed' = indexed
      /\ at' = at /\ state \in [Job -> JobState]
  BY DEF QueueIndexBlockData, CoverInv, TypeInv, StreamInv, EventsAt, dbVars,
         QueueInv, QueueTypeOK
<1> DEFINE e == EventJobOf(s, at[s], i)
<1>3. e \in Job /\ state' = [state EXCEPT ![e] = "wait"]
  BY <1>1, <1>2, JobFacts DEF Add
<1>4. Accepted(at[s], i)'
  <2>1. state'[e] = "wait"
    BY <1>2, <1>3
  <2>2. QED
    BY <2>1, <1>2 DEF Accepted, QueueIndexBlockData
<1>5. ASSUME NEW b \in Block, NEW k \in Events[b]
      PROVE  Accepted(b, k)' <=> Accepted(b, k) \/ (b = at[s] /\ k = i)
  <2>1. ASSUME NEW t \in Stream, state[EventJobOf(t, b, k)] = "new",
               state'[EventJobOf(t, b, k)] # "new"
        PROVE  b = at[s] /\ k = i
    <3>1. EventJobOf(t, b, k) = e
      BY <1>2, <1>3, <2>1, JobFacts
    <3>2. QED
      BY <3>1 DEF EventJobOf
  <2>2. Accepted(b, k)' => Accepted(b, k) \/ (b = at[s] /\ k = i)
    BY <1>2, <2>1, NewlyAccepted DEF Accepted
  <2>3. QED
    <3>1. b = at[s] /\ k = i => Accepted(b, k)'
      BY <1>2, <1>4
    <3>2. QED
      BY <2>2, <3>1, AcceptedStays
<1>6. QED
  BY <1>2, <1>5 DEF acceptedEvents

LEMMA MarkAcknowledges ==
    ASSUME CoverInv, NEW w \in Worker, MarkBlockAsIndexed(w)
    PROVE  /\ running[w].block \in Block
           /\ AcceptedUpTo(running[w].block)
<1>1. running[w] \in Job /\ IsMark(running[w]) /\ state[running[w]] = "active"
  BY DEF MarkBlockAsIndexed, CoverInv, TypeInv, QueueInv, QueueTypeOK, RunningActive
<1>2. QED
  BY <1>1, JobKinds DEF CoverInv, MarksCovered, IsMark, IsEvent

PromiseStep == [Promise!Next]_<<acceptedEvents, indexed, lastIndexed>>

LEMMA StepKeepsPromise == CoverInv /\ [Next]_vars => PromiseStep
<1> SUFFICES ASSUME CoverInv, [Next]_vars PROVE PromiseStep
  OBVIOUS
<1>0. QueueTypeOK /\ RunningActive
  BY DEF CoverInv, TypeInv, QueueInv
<1>1. ASSUME NEW s \in Stream, QueueIndexBlockData(s) PROVE PromiseStep
  <2>1. PICK b \in Block : \E i \in Events[b] :
            acceptedEvents' = acceptedEvents \cup {<<b, i>>}
    BY <1>1, AddAcceptsOne
  <2>2. indexed' = indexed /\ lastIndexed' = lastIndexed
    BY <1>1 DEF QueueIndexBlockData, dbVars
  <2>3. Promise!Accept(b)
    BY <2>1, <2>2 DEF Promise!Accept
  <2>4. QED
    BY <2>3 DEF PromiseStep, Promise!Next
<1>2. ASSUME NEW w \in Worker, IndexBlock(w) PROVE PromiseStep
  <2>1. Promise!Apply
    BY <1>2, WriteAcceptsNothing DEF Promise!Apply, IndexBlock
  <2>2. QED
    BY <2>1 DEF PromiseStep, Promise!Next
<1>3. ASSUME NEW w \in Worker, MarkBlockAsIndexed(w) PROVE PromiseStep
  <2>1. acceptedEvents' = acceptedEvents
    BY <1>3, AcceptedUnchanged DEF MarkBlockAsIndexed, NoEventAdded, blocksQueue
  <2>2. Promise!AllAcceptedUpTo(running[w].block)
    BY <1>3, MarkAcknowledges, AcceptedEvents
    DEF Promise!AllAcceptedUpTo, AcceptedUpTo
  <2>3. Promise!Acknowledge(running[w].block)
    BY <1>3, <2>1, <2>2 DEF Promise!Acknowledge, MarkBlockAsIndexed
  <2>4. QED
    BY <1>3, <2>3, MarkAcknowledges DEF PromiseStep, Promise!Next
<1>4. ASSUME NoEventAdded, UNCHANGED dbVars PROVE PromiseStep
  BY <1>4, AcceptedUnchanged DEF dbVars, PromiseStep
<1>5. ASSUME NEW s \in Stream, QueueMarkBlockAsIndexed(s) PROVE NoEventAdded
  BY <1>0, <1>5, JobFacts
  DEF QueueMarkBlockAsIndexed, Add, NoEventAdded, QueueTypeOK
<1>6. ASSUME NEW w \in Worker, Complete(w) \/ Reject(w) \/ \E j \in Job : Take(w, j)
      PROVE  NoEventAdded
  BY <1>0, <1>6
  DEF Complete, Reject, Take, IsHead, NoEventAdded, QueueTypeOK, RunningActive
<1>7. ASSUME NEW j \in Job, Promote(j) \/ RecoverStalled(j) PROVE NoEventAdded
  BY <1>0, <1>7 DEF Promote, RecoverStalled, NoEventAdded, QueueTypeOK
<1>8. ASSUME LoseWorkers \/ UNCHANGED blocksQueue PROVE NoEventAdded
  BY <1>0, <1>8 DEF LoseWorkers, blocksQueue, NoEventAdded, QueueTypeOK
<1>9. QED
  BY <1>1, <1>2, <1>3, <1>4, <1>5, <1>6, <1>7, <1>8
  DEF Next, StreamStep, OnModuleInit, RestartStream, StreamEnds, TakeJob,
      HandlerStep, CompleteJob, HandlerThrows, PromoteDelayed, CheckStalled, Crash,
      QueueMarkBlockAsIndexed, vars

(* The pipeline implements the abstract promise.                           *)
THEOREM Refinement == Spec => KeepsPromise
<1>1. Init => Promise!Init
  <2>1. Init => acceptedEvents = {}
    BY JobFacts DEF Init, QueueInit, acceptedEvents, Accepted
  <2>2. QED
    BY <2>1 DEF Init, Promise!Init
<1>2. QED
  BY <1>1, StepKeepsPromise, Covered, PTL
  DEF Spec, KeepsPromise, Promise!Spec, PromiseStep
=============================================================================
