------------------------------ MODULE BullQueue ------------------------------
(***************************************************************************)
(* The Redis queue library (Bull 4) that the API's three queues use.  The  *)
(* library is not part of the repository: it is modelled from the way      *)
(* src/src/queues uses it (named processors, JOB_SETTINGS, priorities).    *)
(*                                                                         *)
(* A queue delivers each added job to at most one worker loop at a time.   *)
(* A failed attempt is retried after a backoff until the job's attempts    *)
(* are used up.  When the process dies its active jobs lose their lock;    *)
(* the stalled check of the next process puts such a job at the front of   *)
(* the queue once, and moves it to the failed set the second time.         *)
(***************************************************************************)
EXTENDS Naturals

CONSTANTS
    Job,        \* the jobs that may ever be added; each is added at most once
    Worker,     \* the worker loops of the process, one per @Process handler
    NoJob,      \* a worker without a job
    Priority,   \* [Job -> Nat], the smallest number is served first
    Attempts,   \* the "attempts" of JOB_SETTINGS
    MaxStalls   \* Bull's default maxStalledCount, 1

VARIABLES
    state,      \* [Job -> JobState], where Redis holds the job
    attempts,   \* [Job -> Nat], Bull's attemptsMade
    stalls,     \* [Job -> Nat], Bull's stalledCounter
    running     \* [Worker -> Job \cup {NoJob}]

(* new: not added yet; wait: in the priority list; front: put back at its
   head by the stalled check; delayed: waiting for its backoff; stalled: in
   the active list of a process that died; done: completed and removed.    *)
JobState == {"new", "wait", "front", "active", "delayed", "stalled",
             "failed", "done"}

QueueTypeOK ==
    /\ state \in [Job -> JobState]
    /\ attempts \in [Job -> 0..Attempts]
    /\ stalls \in [Job -> 0..MaxStalls]
    /\ running \in [Worker -> Job \cup {NoJob}]

QueueInit ==
    /\ state = [j \in Job |-> "new"]
    /\ attempts = [j \in Job |-> 0]
    /\ stalls = [j \in Job |-> 0]
    /\ running = [w \in Worker |-> NoJob]

(* queue.add: the job enters the list at the place its priority gives it.  *)
Add(j) ==
    /\ state[j] = "new"
    /\ state' = [state EXCEPT ![j] = "wait"]
    /\ UNCHANGED <<attempts, stalls, running>>

(* The job a free worker gets: the head of the list.                       *)
IsHead(j) ==
    \/ state[j] = "front"
    \/ /\ state[j] = "wait"
       /\ \A k \in Job : /\ state[k] # "front"
                         /\ state[k] = "wait" => Priority[j] <= Priority[k]

Take(w, j) ==
    /\ running[w] = NoJob
    /\ IsHead(j)
    /\ state' = [state EXCEPT ![j] = "active"]
    /\ running' = [running EXCEPT ![w] = j]
    /\ UNCHANGED <<attempts, stalls>>

(* The handler returned: the job is complete, removeOnComplete drops it.   *)
Complete(w) ==
    /\ running[w] # NoJob
    /\ state' = [state EXCEPT ![running[w]] = "done"]
    /\ running' = [running EXCEPT ![w] = NoJob]
    /\ UNCHANGED <<attempts, stalls>>

(* The handler threw: a retry after the backoff, or the failed set, where
   the job stays (removedOnFailed is not an option of Bull).               *)
Reject(w) ==
    LET j == running[w] IN
    /\ j # NoJob
    /\ attempts' = [attempts EXCEPT ![j] = @ + 1]
    /\ state' = [state EXCEPT
                   ![j] = IF attempts'[j] < Attempts THEN "delayed" ELSE "failed"]
    /\ running' = [running EXCEPT ![w] = NoJob]
    /\ UNCHANGED stalls

(* The backoff is over: back into the list, with the job's own priority.   *)
Promote(j) ==
    /\ state[j] = "delayed"
    /\ state' = [state EXCEPT ![j] = "wait"]
    /\ UNCHANGED <<attempts, stalls, running>>

(* The stalled check of a running process.                                 *)
RecoverStalled(j) ==
    /\ state[j] = "stalled"
    /\ IF stalls[j] < MaxStalls
         THEN /\ state' = [state EXCEPT ![j] = "front"]
              /\ stalls' = [stalls EXCEPT ![j] = @ + 1]
         ELSE /\ state' = [state EXCEPT ![j] = "failed"]
              /\ UNCHANGED stalls
    /\ UNCHANGED <<attempts, running>>

(* The process dies: its workers are gone, their jobs keep a lock that will
   expire.                                                                 *)
LoseWorkers ==
    /\ state' = [j \in Job |->
                   IF state[j] = "active" THEN "stalled" ELSE state[j]]
    /\ running' = [w \in Worker |-> NoJob]
    /\ UNCHANGED <<attempts, stalls>>
=============================================================================
