----------------------------- MODULE MetadataQueue -----------------------------
(***************************************************************************)
(* The two queues that copy token metadata from the contract into          *)
(* Postgres: MetadataService (pills; their metadata changes with every     *)
(* event) and BackpackMetadataService (traits; theirs never changes).      *)
(* Whoever wants a token's metadata calls queueIndexMetadata, which looks  *)
(* for a waiting job of the token and adds one if there is none, without   *)
(* any lock; a cron job asks again for the tokens that have no row.        *)
(***************************************************************************)
EXTENDS Naturals, FiniteSets, Sequences, SequencesExt

CONSTANTS
    Scenario,       \* the services and bounds considered: a set of records
                    \* [kind, versions, jobs, throws, crashes]
    Token,
    Slice,          \* how many missing tokens one cron run asks for (100)
    MaxJobs,        \* bound on the "jobs" of the scenarios
    Worker, NoJob, Attempts, MaxStalls      \* of the queue

Job == [token : Token, n : 1..MaxJobs]
Priority == [j \in Job |-> 0]       \* the jobs are added without one
Phase == {"exists", "waiting", "adding"}

ASSUME ScenarioAssumption ==
    \A x \in Scenario : /\ DOMAIN x.versions \subseteq Token
                        /\ \A t \in DOMAIN x.versions : x.versions[t] \in Nat
                        /\ x.jobs \in 0..MaxJobs /\ x.throws \in Nat /\ x.crashes \in Nat
ASSUME BoundsAssumption == MaxJobs \in Nat /\ Slice \in Nat
ASSUME QueueAssumption == NoJob \notin Job /\ Attempts \in Nat \ {0} /\ MaxStalls \in Nat

(* Each of the two processors has one @Process, for one job at a time.     *)
ASSUME WorkerAssumption == \A v, w \in Worker : v = w

VARIABLES
    scenario,       \* kind: the service, "metadata" or "backpack"; versions: the
                    \* tokens somebody asks for, with a bound on the changes of
                    \* each; jobs: bound on the jobs and open calls of a token
                    \* at a time; throws, crashes: on failures and crashes
    known,          \* the tokens of the Mint or KnownTraits table, as inserted
    version,        \* [Token -> Nat], its state in the contract, 0 before its mint
    wanted,         \* [Token -> Nat], the version somebody asked for last, 0
                    \* once a call or a job of the token was given up
    stored,         \* [Token -> Nat], the version of its metadata row, 0 without
    calls,          \* [Token -> [Phase -> Nat]], open queueIndexMetadata calls
    state, attempts, stalls, running,       \* the queue
    pc,             \* [Worker -> what indexMetadata does next]
    read,           \* [Worker -> the version its contract call returned]
    throws, crashes

INSTANCE BullQueue

queue == <<state, attempts, stalls, running>>
chain == <<scenario, known, version>>
handler == <<pc, read>>
faults == <<throws, crashes>>
vars == <<chain, wanted, stored, calls, queue, handler, faults>>

TypeOK ==
    /\ scenario \in Scenario
    /\ known \in Seq(Token) /\ \A m, n \in DOMAIN known : known[m] = known[n] => m = n
    /\ \A t \in Token : /\ version[t] # 0 => version[t] <= scenario.versions[t]
                        /\ wanted[t] \in 0..version[t]
                        /\ stored[t] \in 0..version[t]
    /\ calls \in [Token -> [Phase -> 0..MaxJobs]]
    /\ QueueTypeOK
    /\ pc \in [Worker -> {"idle", "call", "upsert", "return"}]
    /\ read \in [Worker -> Nat]
    /\ throws \in 0..scenario.throws /\ crashes \in 0..scenario.crashes

Init ==
    /\ scenario \in Scenario
    /\ known = <<>>
    /\ version = [t \in Token |-> 0]
    /\ wanted = [t \in Token |-> 0]
    /\ stored = [t \in Token |-> 0]
    /\ calls = [t \in Token |-> [p \in Phase |-> 0]]
    /\ QueueInit
    /\ pc = [w \in Worker |-> "idle"]
    /\ read = [w \in Worker |-> 0]
    /\ throws = 0 /\ crashes = 0
-------------------------------------------------------------------------------
(* queueIndexMetadata, from await to await                                 *)

JobsOf(t) == {j \in Job : j.token = t /\ j.n <= scenario.jobs}
Unused(t) == {j \in JobsOf(t) : state[j] = "new"}

(* A job that is removed leaves its number to another one.                 *)
RemoveJobs(jobs) ==
    /\ state' = [j \in Job |-> IF j \in jobs THEN "new" ELSE state[j]]
    /\ attempts' = [j \in Job |-> IF j \in jobs THEN 0 ELSE attempts[j]]
    /\ stalls' = [j \in Job |-> IF j \in jobs THEN 0 ELSE stalls[j]]

GiveUp(S) == wanted' = [t \in Token |-> IF t \in S THEN 0 ELSE wanted[t]]

(* Room for one more call within the bound: each may add a job.            *)
HasRoom(t) ==
    calls[t]["exists"] + calls[t]["waiting"] + calls[t]["adding"]
        < Cardinality(Unused(t))

(* The first statement: only the service of the traits looks for a row.    *)
IsBackpack == scenario.kind = "backpack"
FirstPhase == IF IsBackpack THEN "exists" ELSE "waiting"

(* The tokens S ask, those that have room.                                 *)
StartCalls(S) ==
    calls' = [t \in Token |->
                IF t \in S /\ HasRoom(t)
                THEN [calls[t] EXCEPT ![FirstPhase] = @ + 1] ELSE calls[t]]

(* A call leaves phase p, for phase q or for good.                         *)
Leave(t, p) == /\ calls[t][p] > 0
               /\ calls' = [calls EXCEPT ![t][p] = @ - 1]
MoveOn(t, p, q) == /\ calls[t][p] > 0
                   /\ calls' = [calls EXCEPT ![t][p] = @ - 1, ![t][q] = @ + 1]

CheckPresent(t) ==
    /\ IF stored[t] # 0 THEN Leave(t, "exists") ELSE MoveOn(t, "exists", "waiting")
    /\ UNCHANGED <<chain, wanted, stored, queue, handler, faults>>

(* Mutant: a job that is running counts as waiting.                        *)
IsWaiting_OrActive(j) == state[j] \in {"wait", "front", "active"}

(* getWaiting: neither the running job nor one in its backoff.             *)
IsWaiting(j) == state[j] \in {"wait", "front"}

CheckWaiting(t) ==
    /\ IF \E j \in JobsOf(t) : IsWaiting(j)
         THEN Leave(t, "waiting") ELSE MoveOn(t, "waiting", "adding")
    /\ UNCHANGED <<chain, wanted, stored, queue, handler, faults>>

AddJob(t) ==
    /\ Leave(t, "adding")
    /\ \E j \in Unused(t) : /\ \A k \in Unused(t) : j.n <= k.n
                            /\ Add(j)
    /\ UNCHANGED <<chain, wanted, stored, handler, faults>>
-------------------------------------------------------------------------------
(* Who asks                                                                *)

(* The token is minted or, if it is a pill, changes.                        *)
ContractChanges(t) ==
    /\ version[t] < scenario.versions[t]
    /\ IsBackpack => version[t] = 0
    /\ version' = [version EXCEPT ![t] = @ + 1]
    /\ UNCHANGED <<scenario, known, wanted, stored, calls, queue, handler, faults>>

(* The tokens S are asked for: what the contract has now, if there is room.  *)
Ask(S) ==
    /\ wanted' = [t \in Token |-> IF t \in S /\ HasRoom(t) THEN version[t] ELSE wanted[t]]
    /\ StartCalls(S)

(* The handler of an event, some time later: the token of its first event
   becomes known, and its metadata is asked for unless the handler failed in
   between.                                                                *)
EventIndexed(t, asks) ==
    /\ version[t] # 0
    /\ t \in ToSet(known) => asks
    /\ known' = IF t \in ToSet(known) THEN known ELSE Append(known, t)
    /\ Ask(IF asks THEN {t} ELSE {})
    /\ UNCHANGED <<scenario, version, stored, queue, handler, faults>>

(* Mutant: the cron job looks at the first tokens, missing or not.         *)
QueueGetMissingMetadata_SliceFirst ==
    LET first == SubSeq(known, 1, IF Len(known) < Slice THEN Len(known) ELSE Slice)
        missing == SelectSeq(first, LAMBDA t : stored[t] = 0)
    IN  /\ RemoveJobs({j \in Job : state[j] = "failed"})
        /\ StartCalls(ToSet(missing))
        /\ UNCHANGED <<chain, wanted, stored, running, handler, faults>>

(* getTokenIdsWithNoMetaData, getMissingMetadata.                           *)
MissingMetadata == SelectSeq(known, LAMBDA t : stored[t] = 0)

(* Mutant: the failed jobs are put back, with the attempts they have made,
   instead of being cleaned.                                                *)
QueueGetMissingMetadata_Retry ==
    LET first == IF Len(MissingMetadata) < Slice THEN Len(MissingMetadata) ELSE Slice
    IN  /\ state' = [j \in Job |-> IF state[j] = "failed" THEN "wait" ELSE state[j]]
        /\ StartCalls(ToSet(SubSeq(MissingMetadata, 1, first)))
        /\ UNCHANGED <<chain, wanted, stored, attempts, stalls, running, handler, faults>>

(* The cron job, which also runs in onModuleInit: it cleans the failed jobs
   and asks for the first tokens that have no row.                         *)
QueueGetMissingMetadata ==
    LET first == IF Len(MissingMetadata) < Slice THEN Len(MissingMetadata) ELSE Slice
    IN  /\ RemoveJobs({j \in Job : state[j] = "failed"})
        /\ StartCalls(ToSet(SubSeq(MissingMetadata, 1, first)))
        /\ UNCHANGED <<chain, wanted, stored, running, handler, faults>>

(* refreshMetadataForOneToken of the resolvers: whatever id it is given.    *)
RefreshMetadata(t) ==
    /\ Ask({t})
    /\ UNCHANGED <<chain, stored, queue, handler, faults>>

(* refreshMetadataForAllTokens: nothing for traits; for pills the tokens that
   have a row, unless one of them has no event: findTokensById then throws. *)
QueueGetAllMetadata ==
    LET all == {t \in Token : stored[t] # 0} IN
    /\ ~IsBackpack /\ all \subseteq ToSet(known)
    /\ Ask(all)
    /\ UNCHANGED <<chain, stored, queue, handler, faults>>
-------------------------------------------------------------------------------
(* indexMetadata, the worker                                               *)

TakeJob(w, t) ==
    /\ \E j \in JobsOf(t) : Take(w, j)
    /\ pc' = [pc EXCEPT ![w] = "call"]
    /\ UNCHANGED <<chain, wanted, stored, calls, read, faults>>

(* tokenURI of a token that exists; of any other it reverts, and the handler
   throws.                                                                 *)
GetFromContract(w) ==
    /\ pc[w] = "call"
    /\ version[running[w].token] # 0
    /\ pc' = [pc EXCEPT ![w] = "upsert"]
    /\ read' = [read EXCEPT ![w] = version[running[w].token]]
    /\ UNCHANGED <<chain, wanted, stored, calls, queue, faults>>

Throws(w) ==
    /\ Reject(w)
    /\ GiveUp({t \in Token : state'[running[w]] = "failed" /\ running[w].token = t})
    /\ pc' = [pc EXCEPT ![w] = "idle"]
    /\ UNCHANGED <<chain, stored, calls, read, crashes>>

CallReverts(w) ==
    /\ pc[w] = "call"
    /\ version[running[w].token] = 0
    /\ Throws(w)
    /\ UNCHANGED throws

(* Mutant: a row that exists stays as it is.                               *)
Upsert_CreateOnly(w) ==
    /\ pc[w] = "upsert"
    /\ stored' = [stored EXCEPT ![running[w].token] = IF @ = 0 THEN read[w] ELSE @]
    /\ pc' = [pc EXCEPT ![w] = "return"]
    /\ UNCHANGED <<chain, wanted, calls, queue, read, faults>>

Upsert(w) ==
    /\ pc[w] = "upsert"
    /\ stored' = [stored EXCEPT ![running[w].token] = read[w]]
    /\ pc' = [pc EXCEPT ![w] = "return"]
    /\ UNCHANGED <<chain, wanted, calls, queue, read, faults>>

CompleteJob(w) ==
    /\ pc[w] = "return"
    /\ RemoveJobs({running[w]})
    /\ running' = [running EXCEPT ![w] = NoJob]
    /\ pc' = [pc EXCEPT ![w] = "idle"]
    /\ UNCHANGED <<chain, wanted, stored, calls, read, faults>>

(* The contract call or the upsert fails.                                  *)
HandlerThrows(w) ==
    /\ throws < scenario.throws
    /\ pc[w] # "idle"
    /\ throws' = throws + 1
    /\ Throws(w)

PromoteDelayed(t) ==
    /\ \E j \in JobsOf(t) : Promote(j)
    /\ UNCHANGED <<chain, wanted, stored, calls, handler, faults>>

CheckStalled(t) ==
    /\ \E j \in JobsOf(t) : /\ RecoverStalled(j)
                            /\ GiveUp(IF state'[j] = "failed" THEN {t} ELSE {})
    /\ UNCHANGED <<chain, stored, calls, handler, faults>>

(* The process dies, with its open calls, and is started again.            *)
Crash ==
    /\ crashes < scenario.crashes
    /\ crashes' = crashes + 1
    /\ LoseWorkers
    /\ GiveUp({t \in Token : \E p \in Phase : calls[t][p] > 0})
    /\ calls' = [t \in Token |-> [p \in Phase |-> 0]]
    /\ pc' = [w \in Worker |-> "idle"]
    /\ read' = [w \in Worker |-> 0]
    /\ UNCHANGED <<chain, stored, throws>>
-------------------------------------------------------------------------------
CallStep(t) == CheckPresent(t) \/ CheckWaiting(t) \/ AddJob(t)
IndexMetadata(w) ==
    GetFromContract(w) \/ CallReverts(w) \/ Upsert(w) \/ CompleteJob(w)

Next ==
    \/ \E t \in DOMAIN scenario.versions :
                        \/ \E asks \in BOOLEAN : EventIndexed(t, asks)
                        \/ ContractChanges(t) \/ RefreshMetadata(t) \/ CallStep(t)
                        \/ PromoteDelayed(t) \/ CheckStalled(t)
    \/ QueueGetMissingMetadata \/ QueueGetAllMetadata
    \/ \E w \in Worker : \/ \E t \in Token : TakeJob(w, t)
                        \/ IndexMetadata(w) \/ HandlerThrows(w)
    \/ Crash

Spec == Init /\ [][Next]_vars

(* The cron job fires, a call that was made goes on, a handler ends, the
   queue's timers fire. The workers take the waiting jobs in the order they
   were added, so that a job is taken although others keep coming.         *)
Fairness ==
    /\ WF_vars(QueueGetMissingMetadata)
    /\ \A t \in Token : /\ WF_vars(CallStep(t))
                        /\ SF_vars(\E w \in Worker : TakeJob(w, t))
                        /\ WF_vars(PromoteDelayed(t)) /\ WF_vars(CheckStalled(t))
    /\ \A w \in Worker : WF_vars(IndexMetadata(w))

FairSpec == Spec /\ Fairness
-------------------------------------------------------------------------------
(* Somebody will still store version v of the token: an open call, a job
   that has not asked the contract yet, or one that got this version.      *)
Handled(t, v) ==
    \/ \E p \in Phase : calls[t][p] > 0
    \/ \E j \in JobsOf(t) : state[j] \in {"wait", "front", "delayed", "stalled"}
    \/ \E w \in Worker : /\ running[w] \in JobsOf(t)
                         /\ \/ pc[w] = "call"
                            \/ pc[w] = "upsert" /\ read[w] >= v

(* No update is lost to the search for a waiting job: whoever asked for a
   token's metadata and found a job waiting can rely on that job, although
   nothing is locked between the search, the add and the contract call; and
   so he can after a crash, unless it took a call that was still open.     *)
NoUpdateLost ==
    \A t \in Token : \/ stored[t] >= wanted[t]
                     \/ IsBackpack /\ stored[t] # 0
                     \/ Handled(t, wanted[t])

(* A token that was minted gets its metadata row, whatever crashed, failed
   or was cut off by the slice: the cron job asks until it is there.       *)
EventuallyPresent == \A t \in Token : t \in ToSet(known) ~> stored[t] # 0

(* Who asked for a newer version gets it, unless all attempts of a job failed
   or a crash took the call (wanted is 0 then): a job that is found waiting,
   runs or waits for its retry is as good as a new one, in the end and not
   only for now.                                                           *)
EventuallyCurrent ==
    \A t \in Token : (stored[t] < wanted[t]) ~>
                        (stored[t] >= wanted[t] \/ (IsBackpack /\ stored[t] # 0))

(* metadata.service.ts:28, the Mint table "is a superset of presentTokenIds as
   it is the source of truth of all tokens".                                *)
SourceOfTruth == \A t \in Token : stored[t] # 0 => t \in ToSet(known)
=============================================================================
