-------------------------- MODULE MetadataQueueProofs --------------------------
(***************************************************************************)
(* Types and NoUpdateLost for any tokens, changes, jobs, failures and      *)
(* crashes.                                                                *)
(***************************************************************************)
EXTENDS MetadataQueue, FiniteSetTheorems, TLAPS

Types ==
    /\ scenario \in Scenario
    /\ known \in Seq(Token) /\ \A m, n \in DOMAIN known : known[m] = known[n] => m = n
    /\ version \in [Token -> Nat] /\ wanted \in [Token -> Nat] /\ stored \in [Token -> Nat]
    /\ calls \in [Token -> [Phase -> Nat]]
    /\ QueueTypeOK
    /\ pc \in [Worker -> {"idle", "call", "upsert", "return"}]
    /\ read \in [Worker -> Nat]
    /\ throws \in 0..scenario.throws /\ crashes \in 0..scenario.crashes

(* Nothing is asked for or stored that the contract has not had.           *)
VersionsInv ==
    \A t \in Token :
        /\ version[t] # 0 => /\ t \in DOMAIN scenario.versions
                             /\ version[t] <= scenario.versions[t]
        /\ wanted[t] <= version[t] /\ stored[t] <= version[t]

(* A worker has a job while its handler runs, the job is active, and what the
   handler read is not older than the row it is going to overwrite.        *)
WorkerInv ==
    \A w \in Worker :
        /\ pc[w] = "idle" <=> running[w] = NoJob
        /\ running[w] # NoJob =>
              running[w].n <= scenario.jobs /\ state[running[w]] = "active"
        /\ pc[w] = "upsert" =>
              /\ stored[running[w].token] <= read[w]
              /\ read[w] <= version[running[w].token]

(* A job that did not fail has attempts left.                              *)
JobsInv == \A j \in Job : state[j] # "failed" => attempts[j] < Attempts

(* Only the service of the traits looks for rows, and each open call finds a
   number for its job.                                                     *)
Open(t) == calls[t]["exists"] + calls[t]["waiting"] + calls[t]["adding"]
CallsInv ==
    \A t \in Token : /\ ~IsBackpack => calls[t]["exists"] = 0
                     /\ Open(t) <= Cardinality(Unused(t))

MetadataInv ==
    Types /\ VersionsInv /\ WorkerInv /\ JobsInv /\ CallsInv /\ NoUpdateLost
-------------------------------------------------------------------------------
(* The numbers of a token's jobs bound its unused jobs.                    *)
Slots(t) == {[token |-> t, n |-> k] : k \in 1..MaxJobs}

LEMMA SlotsFinite ==
    ASSUME NEW t \in Token
    PROVE  IsFiniteSet(Slots(t)) /\ Cardinality(Slots(t)) <= MaxJobs
<1> DEFINE slot == [k \in 1..MaxJobs |-> [token |-> t, n |-> k]]
<1>1. slot \in Surjection(1..MaxJobs, Slots(t))
  BY DEF Surjection, Slots
<1>2. IsFiniteSet(1..MaxJobs) /\ Cardinality(1..MaxJobs) = MaxJobs
  BY BoundsAssumption, FS_Interval
<1>. QED BY <1>1, <1>2, FS_Surjection

LEMMA UnusedFinite ==
    ASSUME NEW t \in Token, NEW S \in SUBSET Slots(t)
    PROVE  IsFiniteSet(S) /\ Cardinality(S) \in 0..MaxJobs
<1>1. IsFiniteSet(S) /\ Cardinality(S) <= Cardinality(Slots(t))
  BY SlotsFinite, FS_Subset
<1>2. Cardinality(S) \in Nat /\ Cardinality(Slots(t)) \in Nat
  BY <1>1, SlotsFinite, FS_CardinalityType
<1>. QED BY <1>1, <1>2, SlotsFinite, BoundsAssumption

LEMMA UnusedSlots ==
    ASSUME NEW t \in Token
    PROVE  Unused(t) \subseteq Slots(t) /\ Unused(t)' \subseteq Slots(t)
BY DEF Unused, JobsOf, Job, Slots

LEMMA OpenIsNat ==
    ASSUME NEW t \in Token, NEW c \in [Token -> [Phase -> Nat]]
    PROVE  c[t]["exists"] \in Nat /\ c[t]["waiting"] \in Nat /\ c[t]["adding"] \in Nat
BY DEF Phase

LEMMA OpenNat ==
    ASSUME Types, Types', NEW t \in Token
    PROVE  Open(t) \in Nat /\ Open(t)' \in Nat
<1>1. calls \in [Token -> [Phase -> Nat]] /\ calls' \in [Token -> [Phase -> Nat]]
  BY DEF Types
<1>2. /\ calls[t]["exists"] \in Nat /\ calls[t]["waiting"] \in Nat
      /\ calls[t]["adding"] \in Nat
  BY <1>1, OpenIsNat
<1>3. /\ calls'[t]["exists"] \in Nat /\ calls'[t]["waiting"] \in Nat
      /\ calls'[t]["adding"] \in Nat
  BY <1>1, OpenIsNat
<1>. QED BY <1>2, <1>3 DEF Open

(* More numbers and no more calls.                                         *)
LEMMA StillRoom ==
    ASSUME Types, Types', NEW t \in Token, Unused(t) \subseteq Unused(t)',
           Open(t) <= Cardinality(Unused(t)), Open(t)' <= Open(t)
    PROVE  Open(t)' <= Cardinality(Unused(t)')
<1>1. /\ Cardinality(Unused(t)) \in 0..MaxJobs
      /\ IsFiniteSet(Unused(t)') /\ Cardinality(Unused(t)') \in 0..MaxJobs
  BY UnusedFinite, UnusedSlots
<1>2. Cardinality(Unused(t)) <= Cardinality(Unused(t)')
  BY <1>1, FS_Subset
<1>3. Open(t) \in Nat /\ Open(t)' \in Nat
  BY OpenNat
<1>. QED BY <1>1, <1>2, <1>3, BoundsAssumption
-------------------------------------------------------------------------------
(* What a step leaves alone.                                               *)
LEMMA QuietWorkers ==
    ASSUME MetadataInv, UNCHANGED <<scenario, stored, queue, handler>>,
           \A t \in Token : version[t] <= version'[t], Types'
    PROVE  WorkerInv' /\ JobsInv'
<1>1. UNCHANGED <<state, attempts, running, pc, read>>
  BY DEF queue, handler
<1>2. \A w \in Worker : pc[w] = "upsert" => running[w].token \in Token
  BY DEF MetadataInv, WorkerInv, Types, QueueTypeOK, Job
<1>3. WorkerInv'
  BY <1>1, <1>2 DEF MetadataInv, WorkerInv, Types
<1>. QED BY <1>1, <1>3 DEF MetadataInv, JobsInv

LEMMA QuietVersions ==
    ASSUME MetadataInv, UNCHANGED <<scenario, version, stored>>,
           \A t \in Token : wanted'[t] \in {0, wanted[t]}
    PROVE  VersionsInv'
<1>1. \A t \in Token : version[t] \in Nat /\ wanted[t] <= version[t]
  BY DEF MetadataInv, VersionsInv, Types
<1>2. \A t \in Token : wanted'[t] <= version[t]
  BY <1>1
<1>. QED BY <1>2 DEF MetadataInv, VersionsInv

LEMMA QuietCalls ==
    ASSUME MetadataInv, Types', UNCHANGED <<scenario, calls>>,
           \A t \in Token : Unused(t) \subseteq Unused(t)'
    PROVE  CallsInv'
<1>1. \A t \in Token : Open(t)' = Open(t) /\ Open(t) \in Nat
  BY OpenNat DEF MetadataInv, Open
<1>. QED BY <1>1, StillRoom DEF MetadataInv, CallsInv, IsBackpack

LEMMA StillHandled ==
    ASSUME MetadataInv, UNCHANGED <<scenario, stored>>, Types',
           \A t \in Token : \/ wanted'[t] = 0
                            \/ /\ wanted'[t] = wanted[t]
                               /\ Handled(t, wanted[t]) => Handled(t, wanted[t])'
    PROVE  NoUpdateLost'
<1> SUFFICES ASSUME NEW t \in Token
             PROVE  \/ stored'[t] >= wanted'[t]
                    \/ IsBackpack' /\ stored'[t] # 0
                    \/ Handled(t, wanted[t])' /\ wanted'[t] = wanted[t]
  BY DEF NoUpdateLost, Handled
<1>1. stored'[t] \in Nat /\ stored'[t] = stored[t] /\ (IsBackpack' <=> IsBackpack)
  BY DEF Types, IsBackpack
<1>2. CASE wanted'[t] = 0
  BY <1>1, <1>2
<1>3. CASE wanted'[t] = wanted[t] /\ (Handled(t, wanted[t]) => Handled(t, wanted[t])')
  BY <1>1, <1>3 DEF MetadataInv, NoUpdateLost
<1>. QED BY <1>2, <1>3
-------------------------------------------------------------------------------
(* queueIndexMetadata                                                      *)
LEMMA LeaveIs ==
    ASSUME Types, NEW t \in Token, NEW p \in Phase, Leave(t, p)
    PROVE  /\ calls' \in [Token -> [Phase -> Nat]]
           /\ \A u \in Token \ {t} : calls'[u] = calls[u]
           /\ \A q \in Phase \ {p} : calls'[t][q] = calls[t][q]
           /\ calls[t][p] > 0 /\ calls'[t][p] = calls[t][p] - 1
BY DEF Types, Leave

LEMMA MoveOnIs ==
    ASSUME Types, NEW t \in Token, NEW p \in Phase, NEW q \in Phase \ {p}, MoveOn(t, p, q)
    PROVE  /\ calls' \in [Token -> [Phase -> Nat]]
           /\ \A u \in Token \ {t} : calls'[u] = calls[u]
           /\ \A x \in Phase \ {p, q} : calls'[t][x] = calls[t][x]
           /\ calls[t][p] > 0 /\ calls'[t][p] = calls[t][p] - 1
           /\ calls'[t][q] = calls[t][q] + 1
BY DEF Types, MoveOn

(* A step of a call changes nothing but the calls of its token.             *)
LEMMA CallOnly ==
    ASSUME MetadataInv, NEW t \in Token, calls' \in [Token -> [Phase -> Nat]],
           \A u \in Token \ {t} : calls'[u] = calls[u],
           calls'[t]["exists"] <= calls[t]["exists"], Open(t)' <= Open(t),
           UNCHANGED <<chain, wanted, stored, queue, handler, faults>>,
           \/ \E p \in Phase : calls'[t][p] > 0
           \/ \E j \in JobsOf(t) : IsWaiting(j)
           \/ IsBackpack /\ stored[t] # 0
    PROVE  MetadataInv'
<1>1. /\ UNCHANGED <<scenario, known, version, wanted, stored, state, attempts, stalls>>
      /\ UNCHANGED <<running, pc, read, throws, crashes>>
  BY DEF chain, queue, handler, faults
<1>2. Types'
  BY <1>1 DEF MetadataInv, Types, QueueTypeOK
<1>3. VersionsInv' /\ WorkerInv' /\ JobsInv'
  <2>1. \A u \in Token : version[u] <= version'[u] /\ wanted'[u] \in {0, wanted[u]}
    BY <1>1 DEF MetadataInv, Types
  <2>. QED BY <1>1, <1>2, <2>1, QuietWorkers, QuietVersions
<1>4. \A u \in Token : Unused(u)' = Unused(u)
  BY <1>1 DEF Unused, JobsOf
<1>5. CallsInv'
  <2>1. \A u \in Token \ {t} : Open(u)' = Open(u) /\ Open(u) \in Nat
    BY <1>2, OpenNat DEF MetadataInv, Open
  <2>2. \A u \in Token : Open(u)' <= Open(u)
    BY <2>1
  <2>3. \A u \in Token : Open(u)' <= Cardinality(Unused(u)')
    BY <1>2, <1>4, <2>2, StillRoom DEF MetadataInv, CallsInv
  <2>4. \A u \in Token : ~IsBackpack => calls'[u]["exists"] = 0
    BY OpenIsNat DEF MetadataInv, CallsInv
  <2>. QED BY <1>1, <2>3, <2>4 DEF CallsInv, IsBackpack
<1>6. NoUpdateLost'
  <2>1. ASSUME NEW u \in Token \ {t}
        PROVE  Handled(u, wanted[u]) => Handled(u, wanted[u])'
    BY <1>1, <2>1 DEF Handled, JobsOf
  <2>2. \/ IsBackpack /\ stored[t] # 0
        \/ Handled(t, wanted[t])'
    BY <1>1 DEF Handled, JobsOf, IsWaiting
  <2>3. \A u \in Token \ {t} : \/ stored[u] >= wanted[u]
                               \/ IsBackpack /\ stored[u] # 0
                               \/ Handled(u, wanted[u])'
    BY <2>1 DEF MetadataInv, NoUpdateLost
  <2>. QED BY <1>1, <2>2, <2>3 DEF NoUpdateLost, IsBackpack, Handled, JobsOf
<1>. QED BY <1>2, <1>3, <1>5, <1>6 DEF MetadataInv

LEMMA CheckPresentStep ==
    ASSUME MetadataInv, NEW t \in Token, CheckPresent(t)
    PROVE  MetadataInv'
<1>1. Types /\ UNCHANGED <<chain, wanted, stored, queue, handler, faults>>
  BY DEF MetadataInv, CheckPresent
<1>2. "exists" \in Phase /\ "waiting" \in Phase \ {"exists"} /\ "adding" \in Phase
  BY DEF Phase
<1>3. calls[t]["exists"] \in Nat /\ calls[t]["waiting"] \in Nat /\ calls[t]["adding"] \in Nat
  BY <1>1, OpenIsNat DEF Types
<1>4. CASE stored[t] # 0
  <2>1. Leave(t, "exists")
    BY <1>4 DEF CheckPresent
  <2>2. /\ calls' \in [Token -> [Phase -> Nat]]
        /\ \A u \in Token \ {t} : calls'[u] = calls[u]
        /\ \A q \in Phase \ {"exists"} : calls'[t][q] = calls[t][q]
        /\ calls[t]["exists"] > 0 /\ calls'[t]["exists"] = calls[t]["exists"] - 1
    BY <1>1, <1>2, <2>1, LeaveIs
  <2>3. IsBackpack
    BY <1>3, <2>2 DEF MetadataInv, CallsInv
  <2>4. Open(t)' <= Open(t)
    BY <1>3, <2>2 DEF Open, Phase
  <2>. QED BY <1>1, <1>3, <1>4, <2>2, <2>3, <2>4, CallOnly
<1>5. CASE stored[t] = 0
  <2>1. MoveOn(t, "exists", "waiting")
    BY <1>5 DEF CheckPresent
  <2>2. /\ calls' \in [Token -> [Phase -> Nat]]
        /\ \A u \in Token \ {t} : calls'[u] = calls[u]
        /\ \A q \in Phase \ {"exists", "waiting"} : calls'[t][q] = calls[t][q]
        /\ calls[t]["exists"] > 0 /\ calls'[t]["exists"] = calls[t]["exists"] - 1
        /\ calls'[t]["waiting"] = calls[t]["waiting"] + 1
    BY <1>1, <1>2, <2>1, MoveOnIs
  <2>3. Open(t)' <= Open(t)
    BY <1>3, <2>2 DEF Open, Phase
  <2>4. \E p \in Phase : calls'[t][p] > 0
    BY <1>2, <1>3, <2>2
  <2>. QED BY <1>1, <1>3, <2>2, <2>3, <2>4, CallOnly
<1>. QED BY <1>4, <1>5

LEMMA CheckWaitingStep ==
    ASSUME MetadataInv, NEW t \in Token, CheckWaiting(t)
    PROVE  MetadataInv'
<1>1. Types /\ UNCHANGED <<chain, wanted, stored, queue, handler, faults>>
  BY DEF MetadataInv, CheckWaiting
<1>2. "exists" \in Phase /\ "waiting" \in Phase /\ "adding" \in Phase \ {"waiting"}
  BY DEF Phase
<1>3. calls[t]["exists"] \in Nat /\ calls[t]["waiting"] \in Nat /\ calls[t]["adding"] \in Nat
  BY <1>1, OpenIsNat DEF Types
<1>4. CASE \E j \in JobsOf(t) : IsWaiting(j)
  <2>1. Leave(t, "waiting")
    BY <1>4 DEF CheckWaiting
  <2>2. /\ calls' \in [Token -> [Phase -> Nat]]
        /\ \A u \in Token \ {t} : calls'[u] = calls[u]
        /\ \A q \in Phase \ {"waiting"} : calls'[t][q] = calls[t][q]
        /\ calls'[t]["waiting"] = calls[t]["waiting"] - 1
    BY <1>1, <1>2, <2>1, LeaveIs
  <2>3. Open(t)' <= Open(t)
    BY <1>3, <2>2 DEF Open, Phase
  <2>4. calls'[t]["exists"] <= calls[t]["exists"]
    BY <1>2, <1>3, <2>2
  <2>. QED BY <1>1, <1>4, <2>2, <2>3, <2>4, CallOnly
<1>5. CASE ~\E j \in JobsOf(t) : IsWaiting(j)
  <2>1. MoveOn(t, "waiting", "adding")
    BY <1>5 DEF CheckWaiting
  <2>2. /\ calls' \in [Token -> [Phase -> Nat]]
        /\ \A u \in Token \ {t} : calls'[u] = calls[u]
        /\ \A q \in Phase \ {"waiting", "adding"} : calls'[t][q] = calls[t][q]
        /\ calls'[t]["waiting"] = calls[t]["waiting"] - 1
        /\ calls'[t]["adding"] = calls[t]["adding"] + 1
    BY <1>1, <1>2, <2>1, MoveOnIs
  <2>3. Open(t)' <= Open(t)
    BY <1>3, <2>2 DEF Open, Phase
  <2>4. \E p \in Phase : calls'[t][p] > 0
    BY <1>2, <1>3, <2>2
  <2>5. calls'[t]["exists"] <= calls[t]["exists"]
    BY <1>2, <1>3, <2>2 DEF Phase
  <2>. QED BY <1>1, <2>2, <2>3, <2>4, <2>5, CallOnly
<1>. QED BY <1>4, <1>5

LEMMA AddJobStep ==
    ASSUME MetadataInv, NEW t \in Token, AddJob(t)
    PROVE  MetadataInv'
<1>1. Types /\ UNCHANGED <<chain, wanted, stored, handler, faults>>
  BY DEF MetadataInv, AddJob
<1>2. PICK j \in Unused(t) : Add(j)
  BY DEF AddJob
<1>3. j \in Job /\ j.token = t /\ j \in JobsOf(t) /\ state[j] = "new"
  BY DEF Unused, JobsOf
<1>4. /\ state' = [state EXCEPT ![j] = "wait"]
      /\ UNCHANGED <<attempts, stalls, running>>
  BY <1>2 DEF Add
<1>5. /\ UNCHANGED <<scenario, known, version, wanted, stored>>
      /\ UNCHANGED <<pc, read, throws, crashes>>
  BY <1>1 DEF chain, handler, faults
<1>6. /\ calls' \in [Token -> [Phase -> Nat]]
      /\ \A u \in Token \ {t} : calls'[u] = calls[u]
      /\ \A q \in Phase \ {"adding"} : calls'[t][q] = calls[t][q]
      /\ calls'[t]["adding"] = calls[t]["adding"] - 1
  BY <1>1, LeaveIs DEF AddJob, Phase
<1>7. Types'
  BY <1>1, <1>3, <1>4, <1>5, <1>6 DEF Types, QueueTypeOK, JobState
<1>8. VersionsInv'
  BY <1>5 DEF MetadataInv, VersionsInv
<1>9. WorkerInv' /\ JobsInv'
  <2>1. \A k \in Job \ {j} : state'[k] = state[k]
    BY <1>1, <1>4 DEF Types, QueueTypeOK
  <2>2. \A w \in Worker : running[w] # NoJob => running[w] \in Job \ {j}
    BY <1>1, <1>3 DEF MetadataInv, WorkerInv, Types, QueueTypeOK
  <2>3. WorkerInv'
    BY <1>4, <1>5, <2>1, <2>2 DEF MetadataInv, WorkerInv
  <2>4. JobsInv'
    BY <1>3, <1>4, <2>1 DEF MetadataInv, JobsInv
  <2>. QED BY <2>3, <2>4
<1>10. CallsInv'
  <2>1. \A u \in Token \ {t} : Unused(u)' = Unused(u) /\ Open(u)' = Open(u)
    BY <1>1, <1>3, <1>4, <1>5, <1>6 DEF Unused, JobsOf, Types, QueueTypeOK, Open
  <2>2. Unused(t)' = Unused(t) \ {j}
    BY <1>1, <1>3, <1>4, <1>5 DEF Unused, JobsOf, Types, QueueTypeOK
  <2>3. IsFiniteSet(Unused(t)) /\ Cardinality(Unused(t)) \in 0..MaxJobs
    BY UnusedFinite, UnusedSlots
  <2>4. Cardinality(Unused(t)') = Cardinality(Unused(t)) - 1
    BY <1>2, <2>2, <2>3, FS_RemoveElement
  <2>5. Open(t)' = Open(t) - 1
    <3>1. /\ calls[t]["exists"] \in Nat /\ calls[t]["waiting"] \in Nat
          /\ calls[t]["adding"] \in Nat
      BY <1>1, OpenIsNat DEF Types
    <3>. QED BY <1>6, <3>1 DEF Open, Phase
  <2>6. Open(t) \in Nat
    BY <1>1, <1>7, OpenNat
  <2>7. Open(t)' <= Cardinality(Unused(t)')
    BY <2>3, <2>4, <2>5, <2>6, BoundsAssumption DEF MetadataInv, CallsInv
  <2>8. \A u \in Token : calls'[u]["exists"] = calls[u]["exists"]
    BY <1>6 DEF Phase
  <2>. QED BY <1>5, <2>1, <2>7, <2>8 DEF MetadataInv, CallsInv, IsBackpack
<1>11. NoUpdateLost'
  <2>1. ASSUME NEW u \in Token
        PROVE  Handled(u, wanted[u]) => Handled(u, wanted[u])'
    <3>1. CASE u = t
      <4>1. j \in JobsOf(t)' /\ state'[j] = "wait"
        BY <1>1, <1>3, <1>4, <1>5 DEF JobsOf, Types, QueueTypeOK
      <4>. QED BY <3>1, <4>1 DEF Handled
    <3>2. CASE u # t
      BY <1>1, <1>3, <1>4, <1>5, <1>6, <3>2 DEF Handled, JobsOf, Types, QueueTypeOK
    <3>. QED BY <3>1, <3>2
  <2>. QED BY <1>5, <1>7, <2>1, StillHandled
<1>. QED BY <1>7, <1>8, <1>9, <1>10, <1>11 DEF MetadataInv
-------------------------------------------------------------------------------
(* Who asks                                                                *)
LEMMA ContractChangesStep ==
    ASSUME MetadataInv, NEW t \in DOMAIN scenario.versions, ContractChanges(t)
    PROVE  MetadataInv'
<1>1. /\ UNCHANGED <<scenario, known, wanted, stored, calls, state, attempts, stalls>>
      /\ UNCHANGED <<running, pc, read, throws, crashes>>
  BY DEF ContractChanges, queue, handler, faults
<1>2. Types /\ t \in Token /\ scenario.versions[t] \in Nat
  BY ScenarioAssumption DEF MetadataInv, Types
<1>3. /\ version' = [version EXCEPT ![t] = @ + 1] /\ version[t] < scenario.versions[t]
      /\ version[t] \in Nat
  BY <1>2 DEF ContractChanges, Types
<1>4. Types'
  BY <1>1, <1>2, <1>3 DEF Types, QueueTypeOK
<1>5. \A u \in Token : version[u] <= version'[u] /\ version[u] \in Nat /\ version'[u] \in Nat
                       /\ (u # t => version'[u] = version[u]) /\ wanted[u] \in Nat
                       /\ stored[u] \in Nat
  BY <1>2, <1>3 DEF Types
<1>6. VersionsInv'
  <2>1. version'[t] = version[t] + 1
    BY <1>2, <1>3 DEF Types
  <2>. QED BY <1>1, <1>2, <1>3, <1>5, <2>1 DEF MetadataInv, VersionsInv
<1>7. WorkerInv' /\ JobsInv'
  BY <1>1, <1>4, <1>5, QuietWorkers DEF queue, handler
<1>8. CallsInv'
  BY <1>1, <1>4, QuietCalls DEF Unused, JobsOf
<1>9. NoUpdateLost'
  BY <1>1 DEF MetadataInv, NoUpdateLost, IsBackpack, Handled, JobsOf
<1>. QED BY <1>4, <1>6, <1>7, <1>8, <1>9 DEF MetadataInv

LEMMA StartCallsIs ==
    ASSUME Types, NEW S, StartCalls(S)
    PROVE  /\ FirstPhase \in Phase
           /\ calls' \in [Token -> [Phase -> Nat]]
           /\ \A t \in Token :
                 \/ /\ t \in S /\ HasRoom(t)
                    /\ calls'[t][FirstPhase] = calls[t][FirstPhase] + 1
                    /\ \A q \in Phase \ {FirstPhase} : calls'[t][q] = calls[t][q]
                 \/ ~(t \in S /\ HasRoom(t)) /\ calls'[t] = calls[t]
<1>1. FirstPhase \in Phase
  BY DEF FirstPhase, Phase
<1>2. calls \in [Token -> [Phase -> Nat]]
  BY DEF Types
<1>3. calls' = [t \in Token |-> IF t \in S /\ HasRoom(t)
                                THEN [calls[t] EXCEPT ![FirstPhase] = @ + 1] ELSE calls[t]]
  BY DEF StartCalls
<1>4. \A t \in Token : [calls[t] EXCEPT ![FirstPhase] = @ + 1] \in [Phase -> Nat]
  BY <1>1, <1>2
<1>. QED BY <1>1, <1>2, <1>3, <1>4

(* The calls that were started had room.                                   *)
LEMMA StartedFit ==
    ASSUME MetadataInv, Types', NEW S, StartCalls(S), UNCHANGED scenario,
           \A t \in Token : Unused(t) \subseteq Unused(t)'
    PROVE  CallsInv'
<1>1. Types /\ FirstPhase \in Phase
  BY StartCallsIs DEF MetadataInv
<1> SUFFICES ASSUME NEW t \in Token
             PROVE  /\ ~IsBackpack => calls'[t]["exists"] = 0
                    /\ Open(t)' <= Cardinality(Unused(t)')
  BY DEF CallsInv, IsBackpack
<1>2. CASE calls'[t] = calls[t]
  <2>1. Open(t)' <= Open(t)
    BY <1>1, <1>2, OpenNat DEF Open
  <2>. QED BY <1>1, <1>2, <2>1, StillRoom DEF MetadataInv, CallsInv
<1>3. CASE /\ HasRoom(t)
           /\ calls'[t][FirstPhase] = calls[t][FirstPhase] + 1
           /\ \A q \in Phase \ {FirstPhase} : calls'[t][q] = calls[t][q]
  <2>1. /\ calls[t]["exists"] \in Nat /\ calls[t]["waiting"] \in Nat
        /\ calls[t]["adding"] \in Nat
    BY <1>1, OpenIsNat DEF Types
  <2>2. Open(t)' = Open(t) + 1
    BY <1>3, <2>1 DEF Open, FirstPhase, Phase
  <2>3. Open(t) < Cardinality(Unused(t))
    BY <1>3 DEF HasRoom, Open
  <2>4. /\ Cardinality(Unused(t)) \in 0..MaxJobs
        /\ IsFiniteSet(Unused(t)') /\ Cardinality(Unused(t)') \in 0..MaxJobs
    BY UnusedFinite, UnusedSlots
  <2>5. Cardinality(Unused(t)) <= Cardinality(Unused(t)')
    BY <2>4, FS_Subset
  <2>6. Open(t) \in Nat
    BY <1>1, OpenNat
  <2>7. ~IsBackpack => calls'[t]["exists"] = 0
    BY <1>3 DEF MetadataInv, CallsInv, FirstPhase, Phase
  <2>. QED BY <2>2, <2>3, <2>4, <2>5, <2>6, <2>7, BoundsAssumption
<1>. QED BY <1>1, <1>2, <1>3, StartCallsIs

LEMMA AskStep ==
    ASSUME MetadataInv, NEW S, Ask(S),
           UNCHANGED <<scenario, version, stored, queue, handler, faults>>,
           known' \in Seq(Token), \A m, n \in DOMAIN known' : known'[m] = known'[n] => m = n
    PROVE  MetadataInv'
<1>1. /\ UNCHANGED <<scenario, version, stored, state, attempts, stalls>>
      /\ UNCHANGED <<running, pc, read, throws, crashes>>
  BY DEF queue, handler, faults
<1>2. Types /\ StartCalls(S)
      /\ wanted' = [t \in Token |-> IF t \in S /\ HasRoom(t) THEN version[t] ELSE wanted[t]]
  BY DEF MetadataInv, Ask
<1>3. FirstPhase \in Phase /\ calls' \in [Token -> [Phase -> Nat]]
  BY <1>2, StartCallsIs
<1>4. Types'
  BY <1>1, <1>2, <1>3 DEF Types, QueueTypeOK
<1>5. VersionsInv'
  <2>1. \A t \in Token : wanted'[t] \in {version[t], wanted[t]} /\ version[t] \in Nat
    BY <1>2 DEF Types
  <2>. QED BY <1>1, <2>1 DEF MetadataInv, VersionsInv
<1>6. WorkerInv' /\ JobsInv'
  BY <1>1, <1>2, <1>4, QuietWorkers DEF queue, handler, Types
<1>7. \A t \in Token : Unused(t) \subseteq Unused(t)'
  BY <1>1 DEF Unused, JobsOf
<1>8. CallsInv'
  BY <1>1, <1>2, <1>4, <1>7, StartedFit
<1>9. NoUpdateLost'
  <2> SUFFICES ASSUME NEW t \in Token
               PROVE  \/ stored'[t] >= wanted'[t]
                      \/ IsBackpack' /\ stored'[t] # 0
                      \/ Handled(t, wanted[t])'
    BY DEF NoUpdateLost, Handled
  <2>1. CASE t \in S /\ HasRoom(t)
    <3>1. calls'[t][FirstPhase] = calls[t][FirstPhase] + 1 /\ calls[t][FirstPhase] \in Nat
      BY <1>2, <1>3, <2>1, StartCallsIs DEF Types
    <3>. QED BY <1>3, <3>1 DEF Handled
  <2>2. CASE ~(t \in S /\ HasRoom(t))
    <3>1. wanted'[t] = wanted[t] /\ calls'[t] = calls[t]
      BY <1>2, <2>2, StartCallsIs
    <3>. QED BY <1>1, <3>1 DEF MetadataInv, NoUpdateLost, Handled, JobsOf, IsBackpack
  <2>. QED BY <2>1, <2>2
<1>. QED BY <1>4, <1>5, <1>6, <1>8, <1>9 DEF MetadataInv

LEMMA EventIndexedStep ==
    ASSUME MetadataInv, NEW t \in Token, NEW asks \in BOOLEAN, EventIndexed(t, asks)
    PROVE  MetadataInv'
<1>1. known \in Seq(Token) /\ \A m, n \in DOMAIN known : known[m] = known[n] => m = n
  BY DEF MetadataInv, Types
<1>2. /\ known' \in Seq(Token)
      /\ \A m, n \in DOMAIN known' : known'[m] = known'[n] => m = n
  <2>1. CASE t \in ToSet(known)
    BY <1>1, <2>1 DEF EventIndexed
  <2>2. CASE t \notin ToSet(known)
    <3>1. known' = Append(known, t)
      BY <2>2 DEF EventIndexed
    <3>2. \A n \in 1..Len(known) : known[n] # t
      BY <1>1, <2>2 DEF ToSet
    <3>. QED BY <1>1, <3>1, <3>2
  <2>. QED BY <2>1, <2>2
<1>. QED BY <1>2, AskStep DEF EventIndexed, chain

LEMMA RefreshStep ==
    ASSUME MetadataInv,
           QueueGetAllMetadata \/ \E t \in Token : RefreshMetadata(t)
    PROVE  MetadataInv'
<1>1. PICK S : Ask(S) /\ UNCHANGED <<chain, stored, queue, handler, faults>>
  BY DEF QueueGetAllMetadata, RefreshMetadata
<1>2. /\ known' \in Seq(Token)
      /\ \A m, n \in DOMAIN known' : known'[m] = known'[n] => m = n
  BY <1>1 DEF chain, MetadataInv, Types
<1>. QED BY <1>1, <1>2, AskStep DEF chain

(* A job is removed when it failed or when its handler has returned.       *)
LEMMA RemoveJobsIs ==
    ASSUME Types, JobsInv, NEW gone, RemoveJobs(gone), running' \in [Worker -> Job \cup {NoJob}]
    PROVE  /\ QueueTypeOK' /\ JobsInv'
           /\ \A j \in Job \ gone : state'[j] = state[j]
           /\ UNCHANGED scenario => \A t \in Token : Unused(t) \subseteq Unused(t)'
<1>1. /\ state' = [j \in Job |-> IF j \in gone THEN "new" ELSE state[j]]
      /\ attempts' = [j \in Job |-> IF j \in gone THEN 0 ELSE attempts[j]]
      /\ stalls' = [j \in Job |-> IF j \in gone THEN 0 ELSE stalls[j]]
  BY DEF RemoveJobs
<1>2. QueueTypeOK'
  <2>1. state \in [Job -> JobState] /\ attempts \in [Job -> 0..Attempts]
        /\ stalls \in [Job -> 0..MaxStalls]
    BY DEF Types, QueueTypeOK
  <2>2. state' \in [Job -> JobState]
    BY <1>1, <2>1 DEF JobState
  <2>3. attempts' \in [Job -> 0..Attempts] /\ stalls' \in [Job -> 0..MaxStalls]
    BY <1>1, <2>1, QueueAssumption
  <2>. QED BY <2>2, <2>3 DEF QueueTypeOK
<1>3. JobsInv'
  BY <1>1, QueueAssumption DEF JobsInv
<1>. QED BY <1>1, <1>2, <1>3 DEF Unused, JobsOf

LEMMA CronStep ==
    ASSUME MetadataInv, QueueGetMissingMetadata
    PROVE  MetadataInv'
<1> DEFINE failed == {j \in Job : state[j] = "failed"}
<1>1. /\ UNCHANGED <<scenario, known, version, wanted, stored>>
      /\ UNCHANGED <<running, pc, read, throws, crashes>>
      /\ RemoveJobs(failed)
  BY DEF QueueGetMissingMetadata, chain, handler, faults
<1>2. PICK S : StartCalls(S)
  BY DEF QueueGetMissingMetadata
<1>3. Types /\ JobsInv /\ running' \in [Worker -> Job \cup {NoJob}]
  BY <1>1 DEF MetadataInv, Types, QueueTypeOK
<1>4. /\ QueueTypeOK' /\ JobsInv'
      /\ \A j \in Job \ failed : state'[j] = state[j]
      /\ \A t \in Token : Unused(t) \subseteq Unused(t)'
  BY <1>1, <1>3, RemoveJobsIs
<1>5. FirstPhase \in Phase /\ calls' \in [Token -> [Phase -> Nat]]
  BY <1>2, <1>3, StartCallsIs
<1>6. Types'
  BY <1>1, <1>3, <1>4, <1>5 DEF Types
<1>7. VersionsInv'
  BY <1>1 DEF MetadataInv, VersionsInv
<1>8. WorkerInv'
  <2>1. \A w \in Worker : running[w] # NoJob => running[w] \in Job \ failed
    BY <1>3 DEF MetadataInv, WorkerInv, Types, QueueTypeOK
  <2>. QED BY <1>1, <1>4, <2>1 DEF MetadataInv, WorkerInv
<1>9. CallsInv'
  BY <1>1, <1>2, <1>4, <1>6, StartedFit
<1>10. NoUpdateLost'
  <2>1. ASSUME NEW t \in Token, Handled(t, wanted[t])
        PROVE  Handled(t, wanted[t])'
    <3>1. ASSUME NEW p \in Phase, calls[t][p] > 0
          PROVE  calls'[t][p] > 0
      <4>1. calls[t][p] \in Nat
        BY <1>3 DEF Types
      <4>. QED BY <1>2, <1>3, <3>1, <4>1, StartCallsIs
    <3>2. JobsOf(t)' = JobsOf(t)
      BY <1>1 DEF JobsOf
    <3>3. \A j \in JobsOf(t) : state[j] # "failed" => state'[j] = state[j]
      BY <1>4 DEF JobsOf
    <3>. QED BY <1>1, <2>1, <3>1, <3>2, <3>3 DEF Handled
  <2>. QED BY <1>1, <1>6, <2>1, StillHandled
<1>. QED BY <1>4, <1>6, <1>7, <1>8, <1>9, <1>10 DEF MetadataInv
-------------------------------------------------------------------------------
(* indexMetadata                                                           *)
LEMMA TakeJobStep ==
    ASSUME MetadataInv, NEW w \in Worker, NEW t \in Token, TakeJob(w, t)
    PROVE  MetadataInv'
<1>1. Types
  BY DEF MetadataInv
<1>2. PICK j \in JobsOf(t) : Take(w, j)
  BY DEF TakeJob
<1>3. /\ j \in Job /\ j.token = t /\ j.n <= scenario.jobs /\ j # NoJob
      /\ running[w] = NoJob /\ state[j] \in {"wait", "front"}
      /\ state' = [state EXCEPT ![j] = "active"]
      /\ running' = [running EXCEPT ![w] = j]
      /\ UNCHANGED <<attempts, stalls>>
  BY <1>2, QueueAssumption DEF JobsOf, Take, IsHead
<1>4. /\ UNCHANGED <<scenario, known, version, wanted, stored, calls>>
      /\ UNCHANGED <<read, throws, crashes>>
      /\ pc' = [pc EXCEPT ![w] = "call"]
  BY DEF TakeJob, chain, faults
<1>5. /\ pc'[w] = "call" /\ running'[w] = j /\ state'[j] = "active"
      /\ \A v \in Worker \ {w} : pc'[v] = pc[v] /\ running'[v] = running[v]
      /\ \A k \in Job \ {j} : state'[k] = state[k]
  BY <1>1, <1>3, <1>4 DEF Types, QueueTypeOK
<1>6. Types'
  BY <1>1, <1>3, <1>4 DEF Types, QueueTypeOK, JobState
<1>7. VersionsInv'
  BY <1>4 DEF MetadataInv, VersionsInv
<1>8. WorkerInv'
  <2>1. \A v \in Worker : running[v] # NoJob => running[v] \in Job \ {j}
    BY <1>1, <1>3 DEF MetadataInv, WorkerInv, Types, QueueTypeOK
  <2>. QED BY <1>3, <1>4, <1>5, <2>1 DEF MetadataInv, WorkerInv
<1>9. JobsInv'
  BY <1>3, <1>5 DEF MetadataInv, JobsInv
<1>10. CallsInv'
  BY <1>3, <1>4, <1>5, <1>6, QuietCalls DEF Unused, JobsOf
<1>11. NoUpdateLost'
  <2>1. ASSUME NEW u \in Token, Handled(u, wanted[u])
        PROVE  Handled(u, wanted[u])'
    <3>1. JobsOf(u)' = JobsOf(u)
      BY <1>4 DEF JobsOf
    <3>2. CASE u = t
      <4>1. running'[w] \in JobsOf(u)' /\ pc'[w] = "call"
        BY <1>5, <3>1, <3>2
      <4>. QED BY <4>1 DEF Handled
    <3>3. CASE u # t
      <4>1. \A k \in JobsOf(u) : state'[k] = state[k]
        BY <1>3, <1>5, <3>3 DEF JobsOf
      <4>2. \A v \in Worker : running[v] \in JobsOf(u) => v # w
        BY <1>3, QueueAssumption DEF JobsOf
      <4>. QED BY <1>4, <1>5, <2>1, <3>1, <4>1, <4>2 DEF Handled
    <3>. QED BY <3>2, <3>3
  <2>. QED BY <1>4, <1>6, <2>1, StillHandled
<1>. QED BY <1>6, <1>7, <1>8, <1>9, <1>10, <1>11 DEF MetadataInv

LEMMA GetFromContractStep ==
    ASSUME MetadataInv, NEW w \in Worker, GetFromContract(w)
    PROVE  MetadataInv'
<1> DEFINE t == running[w].token
<1>1. /\ UNCHANGED <<scenario, known, version, wanted, stored, calls>>
      /\ UNCHANGED <<state, attempts, stalls, running, throws, crashes>>
      /\ pc[w] = "call" /\ pc' = [pc EXCEPT ![w] = "upsert"]
      /\ read' = [read EXCEPT ![w] = version[t]]
  BY DEF GetFromContract, chain, queue, faults
<1>2. Types
  BY DEF MetadataInv
<1>3. running[w] \in Job /\ t \in Token
  BY <1>1, <1>2 DEF MetadataInv, WorkerInv, Types, QueueTypeOK, Job
<1>4. /\ pc'[w] = "upsert" /\ read'[w] = version[t] /\ version[t] \in Nat
      /\ \A v \in Worker \ {w} : pc'[v] = pc[v] /\ read'[v] = read[v]
  BY <1>1, <1>2, <1>3 DEF Types
<1>5. Types'
  BY <1>1, <1>2, <1>4 DEF Types, QueueTypeOK
<1>6. VersionsInv' /\ JobsInv'
  BY <1>1 DEF MetadataInv, VersionsInv, JobsInv
<1>7. WorkerInv'
  <2>1. stored[t] <= version[t]
    BY <1>3 DEF MetadataInv, VersionsInv
  <2>2. version[t] <= version[t]
    BY <1>4
  <2>. QED BY <1>1, <1>4, <2>1, <2>2 DEF MetadataInv, WorkerInv
<1>8. CallsInv'
  BY <1>1, <1>5, QuietCalls DEF Unused, JobsOf
<1>9. NoUpdateLost'
  <2>1. ASSUME NEW u \in Token, Handled(u, wanted[u])
        PROVE  Handled(u, wanted[u])'
    <3>1. JobsOf(u)' = JobsOf(u)
      BY <1>1 DEF JobsOf
    <3>2. CASE running[w] \in JobsOf(u)
      <4>1. read'[w] >= wanted'[u]
        BY <1>1, <1>4, <3>2 DEF JobsOf, MetadataInv, VersionsInv, Types
      <4>. QED BY <1>1, <1>4, <3>1, <3>2, <4>1 DEF Handled
    <3>3. CASE running[w] \notin JobsOf(u)
      BY <1>1, <1>4, <2>1, <3>1, <3>3 DEF Handled
    <3>. QED BY <3>2, <3>3
  <2>. QED BY <1>1, <1>5, <2>1, StillHandled
<1>. QED BY <1>5, <1>6, <1>7, <1>8, <1>9 DEF MetadataInv

(* What the one worker read is as new as the row it overwrites.            *)
LEMMA UpsertStep ==
    ASSUME MetadataInv, NEW w \in Worker, Upsert(w)
    PROVE  MetadataInv'
<1> DEFINE t == running[w].token
<1>1. /\ UNCHANGED <<scenario, known, version, wanted, calls>>
      /\ UNCHANGED <<state, attempts, stalls, running, read, throws, crashes>>
      /\ pc[w] = "upsert" /\ pc' = [pc EXCEPT ![w] = "return"]
      /\ stored' = [stored EXCEPT ![t] = read[w]]
  BY DEF Upsert, chain, queue, faults
<1>2. Types
  BY DEF MetadataInv
<1>3. running[w] \in Job /\ t \in Token
  BY <1>1, <1>2 DEF MetadataInv, WorkerInv, Types, QueueTypeOK, Job
<1>4. /\ stored[t] <= read[w] /\ read[w] <= version[t]
      /\ stored[t] \in Nat /\ read[w] \in Nat /\ version[t] \in Nat /\ wanted[t] \in Nat
  BY <1>1, <1>2, <1>3 DEF MetadataInv, WorkerInv, Types
<1>5. /\ stored'[t] = read[w] /\ \A u \in Token \ {t} : stored'[u] = stored[u]
      /\ pc'[w] = "return"
  BY <1>1, <1>2, <1>3 DEF Types
<1>6. \A v \in Worker : v = w
  BY WorkerAssumption
<1>7. Types'
  BY <1>1, <1>2, <1>4, <1>5 DEF Types, QueueTypeOK
<1>8. VersionsInv'
  BY <1>1, <1>4, <1>5 DEF MetadataInv, VersionsInv
<1>9. WorkerInv' /\ JobsInv'
  BY <1>1, <1>5, <1>6 DEF MetadataInv, WorkerInv, JobsInv
<1>10. CallsInv'
  BY <1>1, <1>7, QuietCalls DEF Unused, JobsOf
<1>11. NoUpdateLost'
  <2> SUFFICES ASSUME NEW u \in Token
               PROVE  \/ stored'[u] >= wanted'[u]
                      \/ IsBackpack' /\ stored'[u] # 0
                      \/ Handled(u, wanted[u])'
    BY DEF NoUpdateLost
  <2>1. CASE u = t /\ read[w] >= wanted[t]
    BY <1>1, <1>5, <2>1
  <2>2. CASE u = t /\ ~(read[w] >= wanted[t])
    <3>1. ~(stored[t] >= wanted[t]) /\ (stored[t] # 0 => stored'[t] # 0)
      BY <1>4, <1>5, <2>2
    <3>2. Handled(t, wanted[t]) => Handled(t, wanted[t])'
      BY <1>1, <1>6, <2>2 DEF Handled, JobsOf
    <3>3. (IsBackpack /\ stored[t] # 0) \/ Handled(t, wanted[t])
      BY <1>3, <3>1 DEF MetadataInv, NoUpdateLost
    <3>. QED BY <1>1, <2>2, <3>1, <3>2, <3>3 DEF IsBackpack
  <2>3. CASE u # t
    <3>1. Handled(u, wanted[u]) => Handled(u, wanted[u])'
      BY <1>1, <1>6, <2>3 DEF Handled, JobsOf
    <3>. QED BY <1>1, <1>5, <2>3, <3>1 DEF MetadataInv, NoUpdateLost, IsBackpack
  <2>. QED BY <2>1, <2>2, <2>3
<1>. QED BY <1>7, <1>8, <1>9, <1>10, <1>11 DEF MetadataInv

LEMMA CompleteJobStep ==
    ASSUME MetadataInv, NEW w \in Worker, CompleteJob(w)
    PROVE  MetadataInv'
<1>1. /\ UNCHANGED <<scenario, known, version, wanted, stored, calls>>
      /\ UNCHANGED <<read, throws, crashes>>
      /\ pc[w] = "return" /\ pc' = [pc EXCEPT ![w] = "idle"]
      /\ RemoveJobs({running[w]})
      /\ running' = [running EXCEPT ![w] = NoJob]
  BY DEF CompleteJob, chain, faults
<1>2. Types /\ JobsInv
  BY DEF MetadataInv
<1>3. \A v \in Worker : v = w
  BY WorkerAssumption
<1>4. running[w] \in Job /\ state[running[w]] = "active"
  BY <1>1, <1>2 DEF MetadataInv, WorkerInv, Types, QueueTypeOK
<1>5. running' \in [Worker -> Job \cup {NoJob}] /\ running'[w] = NoJob /\ pc'[w] = "idle"
  BY <1>1, <1>2 DEF Types, QueueTypeOK
<1>6. /\ QueueTypeOK' /\ JobsInv'
      /\ \A j \in Job \ {running[w]} : state'[j] = state[j]
      /\ \A t \in Token : Unused(t) \subseteq Unused(t)'
  BY <1>1, <1>2, <1>5, RemoveJobsIs
<1>7. Types'
  BY <1>1, <1>2, <1>6 DEF Types
<1>8. VersionsInv' /\ WorkerInv'
  BY <1>1, <1>3, <1>5 DEF MetadataInv, VersionsInv, WorkerInv
<1>9. CallsInv'
  BY <1>1, <1>6, <1>7, QuietCalls
<1>10. NoUpdateLost'
  <2>1. ASSUME NEW t \in Token, Handled(t, wanted[t])
        PROVE  Handled(t, wanted[t])'
    <3>1. JobsOf(t)' = JobsOf(t)
      BY <1>1 DEF JobsOf
    <3>2. \A j \in JobsOf(t) : state[j] # "active" => state'[j] = state[j]
      BY <1>4, <1>6 DEF JobsOf
    <3>. QED BY <1>1, <1>3, <2>1, <3>1, <3>2 DEF Handled
  <2>. QED BY <1>1, <1>7, <2>1, StillHandled
<1>. QED BY <1>6, <1>7, <1>8, <1>9, <1>10 DEF MetadataInv

(* A job that is given up takes the wish with it, any other one stays.     *)
LEMMA ThrowsStep ==
    ASSUME MetadataInv, NEW w \in Worker, Throws(w), throws' \in 0..scenario.throws
    PROVE  MetadataInv'
<1> DEFINE j == running[w]
<1>1. /\ UNCHANGED <<scenario, known, version, stored, calls, read, crashes, stalls>>
      /\ pc' = [pc EXCEPT ![w] = "idle"]
      /\ j # NoJob
      /\ attempts' = [attempts EXCEPT ![j] = @ + 1]
      /\ state' = [state EXCEPT ![j] = IF attempts'[j] < Attempts THEN "delayed"
                                       ELSE "failed"]
      /\ running' = [running EXCEPT ![w] = NoJob]
      /\ wanted' = [t \in Token |-> IF state'[j] = "failed" /\ j.token = t
                                    THEN 0 ELSE wanted[t]]
  BY DEF Throws, Reject, GiveUp, chain
<1>2. Types
  BY DEF MetadataInv
<1>3. /\ j \in Job /\ state[j] = "active" /\ attempts[j] < Attempts /\ attempts[j] \in Nat
      /\ j.n <= scenario.jobs /\ j.token \in Token
  <2>1. j \in Job /\ state[j] = "active" /\ j.n <= scenario.jobs
    BY <1>1, <1>2 DEF MetadataInv, WorkerInv, Types, QueueTypeOK
  <2>2. attempts[j] < Attempts
    BY <2>1 DEF MetadataInv, JobsInv
  <2>3. attempts[j] \in Nat
    BY <1>2, <2>1 DEF Types, QueueTypeOK
  <2>. QED BY <2>1, <2>2, <2>3 DEF Job
<1>4. /\ attempts'[j] = attempts[j] + 1
      /\ \/ state'[j] = "delayed" /\ attempts'[j] < Attempts
         \/ state'[j] = "failed"
      /\ \A k \in Job \ {j} : state'[k] = state[k] /\ attempts'[k] = attempts[k]
      /\ running'[w] = NoJob /\ pc'[w] = "idle"
  BY <1>1, <1>2, <1>3 DEF Types, QueueTypeOK
<1>5. \A v \in Worker : v = w
  BY WorkerAssumption
<1>6. Types'
  <2>1. attempts' \in [Job -> 0..Attempts]
    <3>1. attempts \in [Job -> 0..Attempts] /\ attempts[j] + 1 \in 0..Attempts
      BY <1>2, <1>3, QueueAssumption DEF Types, QueueTypeOK
    <3>. QED BY <1>1, <3>1
  <2>2. state' \in [Job -> JobState] /\ running' \in [Worker -> Job \cup {NoJob}]
    BY <1>1, <1>2 DEF Types, QueueTypeOK, JobState
  <2>3. wanted' \in [Token -> Nat]
    BY <1>1, <1>2 DEF Types
  <2>. QED BY <1>1, <1>2, <2>1, <2>2, <2>3 DEF Types, QueueTypeOK
<1>7. VersionsInv'
  BY <1>1, QuietVersions
<1>8. WorkerInv' /\ JobsInv'
  <2>1. WorkerInv'
    BY <1>4, <1>5 DEF WorkerInv
  <2>2. JobsInv'
    BY <1>4 DEF MetadataInv, JobsInv
  <2>. QED BY <2>1, <2>2
<1>9. CallsInv'
  <2>1. \A t \in Token : Unused(t) \subseteq Unused(t)'
    BY <1>1, <1>3, <1>4 DEF Unused, JobsOf
  <2>. QED BY <1>1, <1>6, <2>1, QuietCalls
<1>10. NoUpdateLost'
  <2> SUFFICES ASSUME NEW t \in Token
               PROVE  \/ wanted'[t] = 0
                      \/ /\ wanted'[t] = wanted[t]
                         /\ Handled(t, wanted[t]) => Handled(t, wanted[t])'
    BY <1>1, <1>6, StillHandled
  <2>1. JobsOf(t)' = JobsOf(t)
    BY <1>1 DEF JobsOf
  <2>2. CASE state'[j] = "failed" /\ j.token = t
    BY <1>1, <2>2
  <2>3. CASE state'[j] # "failed" /\ j.token = t
    <3>1. j \in JobsOf(t)' /\ state'[j] = "delayed" /\ wanted'[t] = wanted[t]
      BY <1>1, <1>3, <1>4, <2>1, <2>3 DEF JobsOf
    <3>. QED BY <3>1 DEF Handled
  <2>4. CASE j.token # t
    <3>1. j \notin JobsOf(t) /\ wanted'[t] = wanted[t]
      BY <1>1, <2>4 DEF JobsOf
    <3>2. \A k \in JobsOf(t) : state'[k] = state[k]
      BY <1>4, <2>4 DEF JobsOf
    <3>. QED BY <1>1, <1>5, <2>1, <3>1, <3>2 DEF Handled
  <2>. QED BY <2>2, <2>3, <2>4
<1>. QED BY <1>6, <1>7, <1>8, <1>9, <1>10 DEF MetadataInv

LEMMA IndexMetadataStep ==
    ASSUME MetadataInv, NEW w \in Worker, IndexMetadata(w) \/ HandlerThrows(w)
    PROVE  MetadataInv'
<1>1. CASE GetFromContract(w)
  BY <1>1, GetFromContractStep
<1>2. CASE Upsert(w)
  BY <1>2, UpsertStep
<1>3. CASE CompleteJob(w)
  BY <1>3, CompleteJobStep
<1>4. CASE CallReverts(w)
  <2>1. Throws(w) /\ throws' = throws /\ scenario' = scenario
    BY <1>4 DEF CallReverts, Throws, chain
  <2>2. throws' \in 0..scenario.throws
    BY <2>1 DEF MetadataInv, Types
  <2>. QED BY <2>1, <2>2, ThrowsStep
<1>5. CASE HandlerThrows(w)
  <2>1. Throws(w) /\ throws < scenario.throws /\ throws' = throws + 1
    BY <1>5 DEF HandlerThrows
  <2>2. throws \in 0..scenario.throws /\ scenario.throws \in Nat
    BY ScenarioAssumption DEF MetadataInv, Types
  <2>. QED BY <2>1, <2>2, ThrowsStep
<1>. QED BY <1>1, <1>2, <1>3, <1>4, <1>5 DEF IndexMetadata
-------------------------------------------------------------------------------
(* The timers of the queue, and the crash                                  *)

(* A job that is not running goes back into the list, or is given up.      *)
LEMMA BackInList ==
    ASSUME MetadataInv, NEW j \in Job, state[j] \in {"delayed", "stalled"},
           j.n <= scenario.jobs,
           UNCHANGED <<chain, stored, calls, attempts, running, handler, faults>>,
           stalls' \in [Job -> 0..MaxStalls],
           NEW next \in {"wait", "front", "failed"}, state' = [state EXCEPT ![j] = next],
           \A t \in Token : wanted'[t] = IF next = "failed" /\ j.token = t
                                         THEN 0 ELSE wanted[t],
           wanted' \in [Token -> Nat]
    PROVE  MetadataInv'
<1>1. /\ UNCHANGED <<scenario, known, version, stored, calls>>
      /\ UNCHANGED <<attempts, running, pc, read, throws, crashes>>
  BY DEF chain, handler, faults
<1>2. Types
  BY DEF MetadataInv
<1>3. state'[j] = next /\ \A k \in Job \ {j} : state'[k] = state[k]
  BY <1>2 DEF Types, QueueTypeOK
<1>4. Types'
  BY <1>1, <1>2 DEF Types, QueueTypeOK, JobState
<1>5. VersionsInv'
  BY <1>1, QuietVersions
<1>6. WorkerInv' /\ JobsInv'
  <2>1. \A w \in Worker : running[w] # NoJob => running[w] \in Job \ {j}
    BY <1>2 DEF MetadataInv, WorkerInv, Types, QueueTypeOK
  <2>2. WorkerInv'
    BY <1>1, <1>3, <2>1 DEF MetadataInv, WorkerInv
  <2>3. JobsInv'
    BY <1>1, <1>3 DEF MetadataInv, JobsInv
  <2>. QED BY <2>2, <2>3
<1>7. CallsInv'
  <2>1. \A t \in Token : Unused(t) \subseteq Unused(t)'
    BY <1>1, <1>3 DEF Unused, JobsOf
  <2>. QED BY <1>1, <1>4, <2>1, QuietCalls
<1>8. NoUpdateLost'
  <2> SUFFICES ASSUME NEW t \in Token
               PROVE  \/ wanted'[t] = 0
                      \/ /\ wanted'[t] = wanted[t]
                         /\ Handled(t, wanted[t]) => Handled(t, wanted[t])'
    BY <1>1, <1>4, StillHandled
  <2>1. JobsOf(t)' = JobsOf(t)
    BY <1>1 DEF JobsOf
  <2>2. CASE next = "failed" /\ j.token = t
    BY <2>2
  <2>3. CASE next # "failed" /\ j.token = t
    <3>1. j \in JobsOf(t)' /\ state'[j] \in {"wait", "front"} /\ wanted'[t] = wanted[t]
      BY <1>3, <2>1, <2>3 DEF JobsOf
    <3>. QED BY <3>1 DEF Handled
  <2>4. CASE j.token # t
    <3>1. wanted'[t] = wanted[t] /\ \A k \in JobsOf(t) : state'[k] = state[k]
      BY <1>3, <2>4 DEF JobsOf
    <3>. QED BY <1>1, <2>1, <3>1 DEF Handled
  <2>. QED BY <2>2, <2>3, <2>4
<1>. QED BY <1>4, <1>5, <1>6, <1>7, <1>8 DEF MetadataInv

LEMMA PromoteDelayedStep ==
    ASSUME MetadataInv, NEW t \in Token, PromoteDelayed(t)
    PROVE  MetadataInv'
<1>1. PICK j \in JobsOf(t) : Promote(j)
  BY DEF PromoteDelayed
<1>2. UNCHANGED <<chain, wanted, stored, calls, handler, faults>>
  BY DEF PromoteDelayed
<1>3. /\ j \in Job /\ j.n <= scenario.jobs /\ state[j] = "delayed"
      /\ state' = [state EXCEPT ![j] = "wait"]
      /\ UNCHANGED <<attempts, stalls, running>>
  BY <1>1 DEF JobsOf, Promote
<1>4. stalls' \in [Job -> 0..MaxStalls] /\ wanted' \in [Token -> Nat]
  BY <1>2, <1>3 DEF MetadataInv, Types, QueueTypeOK
<1>5. "wait" \in {"wait", "front", "failed"} /\ "wait" # "failed"
  OBVIOUS
<1>. QED BY <1>2, <1>3, <1>4, <1>5, BackInList

LEMMA CheckStalledStep ==
    ASSUME MetadataInv, NEW t \in Token, CheckStalled(t)
    PROVE  MetadataInv'
<1>1. PICK j \in JobsOf(t) : /\ RecoverStalled(j)
                             /\ GiveUp(IF state'[j] = "failed" THEN {t} ELSE {})
  BY DEF CheckStalled
<1>2. UNCHANGED <<chain, stored, calls, handler, faults>>
  BY DEF CheckStalled
<1>3. /\ j \in Job /\ j.n <= scenario.jobs /\ j.token = t /\ state[j] = "stalled"
      /\ UNCHANGED <<attempts, running>>
  BY <1>1 DEF JobsOf, RecoverStalled
<1>4. Types
  BY DEF MetadataInv
<1>5. CASE stalls[j] < MaxStalls
  <2>1. /\ state' = [state EXCEPT ![j] = "front"]
        /\ stalls' = [stalls EXCEPT ![j] = @ + 1]
    BY <1>1, <1>5 DEF RecoverStalled
  <2>2. stalls' \in [Job -> 0..MaxStalls]
    <3>1. stalls \in [Job -> 0..MaxStalls] /\ stalls[j] + 1 \in 0..MaxStalls
      BY <1>3, <1>4, <1>5, QueueAssumption DEF Types, QueueTypeOK
    <3>. QED BY <2>1, <3>1
  <2>3. state'[j] = "front"
    BY <1>3, <1>4, <2>1 DEF Types, QueueTypeOK
  <2>4. wanted' = wanted
    BY <1>1, <1>4, <2>3 DEF GiveUp, Types
  <2>. QED BY <1>2, <1>3, <1>4, <2>1, <2>2, <2>4, BackInList DEF Types
<1>6. CASE ~(stalls[j] < MaxStalls)
  <2>1. state' = [state EXCEPT ![j] = "failed"] /\ stalls' = stalls
    BY <1>1, <1>6 DEF RecoverStalled
  <2>2. stalls' \in [Job -> 0..MaxStalls]
    BY <1>4, <2>1 DEF Types, QueueTypeOK
  <2>3. state'[j] = "failed"
    BY <1>3, <1>4, <2>1 DEF Types, QueueTypeOK
  <2>4. wanted' = [u \in Token |-> IF u = t THEN 0 ELSE wanted[u]]
    BY <1>1, <2>3 DEF GiveUp
  <2>5. wanted' \in [Token -> Nat]
    BY <1>4, <2>4 DEF Types
  <2>. QED BY <1>2, <1>3, <2>1, <2>2, <2>4, <2>5, BackInList
<1>. QED BY <1>5, <1>6

LEMMA CrashStep ==
    ASSUME MetadataInv, Crash
    PROVE  MetadataInv'
<1>1. /\ UNCHANGED <<scenario, known, version, stored, throws, attempts, stalls>>
      /\ crashes < scenario.crashes /\ crashes' = crashes + 1
      /\ state' = [j \in Job |-> IF state[j] = "active" THEN "stalled" ELSE state[j]]
      /\ running' = [w \in Worker |-> NoJob]
      /\ wanted' = [t \in Token |-> IF \E p \in Phase : calls[t][p] > 0
                                    THEN 0 ELSE wanted[t]]
      /\ calls' = [t \in Token |-> [p \in Phase |-> 0]]
      /\ pc' = [w \in Worker |-> "idle"]
      /\ read' = [w \in Worker |-> 0]
  BY DEF Crash, LoseWorkers, GiveUp, chain
<1>2. Types
  BY DEF MetadataInv
<1>3. Types'
  <2>1. crashes' \in 0..scenario.crashes
    <3>1. crashes \in 0..scenario.crashes /\ scenario.crashes \in Nat
      BY <1>2, ScenarioAssumption DEF Types
    <3>. QED BY <1>1, <3>1
  <2>2. /\ state' \in [Job -> JobState] /\ running' \in [Worker -> Job \cup {NoJob}]
        /\ wanted' \in [Token -> Nat] /\ calls' \in [Token -> [Phase -> Nat]]
        /\ pc' \in [Worker -> {"idle", "call", "upsert", "return"}]
        /\ read' \in [Worker -> Nat]
    BY <1>1, <1>2 DEF Types, QueueTypeOK, JobState
  <2>. QED BY <1>1, <1>2, <2>1, <2>2 DEF Types, QueueTypeOK
<1>4. VersionsInv'
  BY <1>1, QuietVersions
<1>5. WorkerInv'
  BY <1>1 DEF WorkerInv
<1>6. JobsInv'
  BY <1>1 DEF MetadataInv, JobsInv
<1>7. CallsInv'
  <2> SUFFICES ASSUME NEW t \in Token
               PROVE  calls'[t]["exists"] = 0 /\ Open(t)' <= Cardinality(Unused(t)')
    BY DEF CallsInv
  <2>1. Open(t)' = 0 /\ calls'[t]["exists"] = 0
    BY <1>1 DEF Open, Phase
  <2>2. Cardinality(Unused(t)') \in 0..MaxJobs
    BY UnusedFinite, UnusedSlots
  <2>. QED BY <2>1, <2>2, BoundsAssumption
<1>8. NoUpdateLost'
  <2> SUFFICES ASSUME NEW t \in Token
               PROVE  \/ wanted'[t] = 0
                      \/ /\ wanted'[t] = wanted[t]
                         /\ Handled(t, wanted[t]) => Handled(t, wanted[t])'
    BY <1>1, <1>3, StillHandled
  <2>1. CASE \E p \in Phase : calls[t][p] > 0
    BY <1>1, <2>1
  <2>2. CASE ~\E p \in Phase : calls[t][p] > 0
    <3>1. JobsOf(t)' = JobsOf(t) /\ JobsOf(t) \subseteq Job
      BY <1>1 DEF JobsOf
    <3>2. ASSUME NEW w \in Worker, running[w] \in JobsOf(t)
          PROVE  state'[running[w]] = "stalled"
      BY <1>1, <3>1, <3>2, QueueAssumption DEF MetadataInv, WorkerInv
    <3>3. \A j \in JobsOf(t) : state[j] # "active" => state'[j] = state[j]
      BY <1>1, <3>1
    <3>. QED BY <1>1, <2>2, <3>1, <3>2, <3>3 DEF Handled
  <2>. QED BY <2>1, <2>2
<1>. QED BY <1>3, <1>4, <1>5, <1>6, <1>7, <1>8 DEF MetadataInv
-------------------------------------------------------------------------------
LEMMA MetadataInit == Init => MetadataInv
<1> SUFFICES ASSUME Init
             PROVE  MetadataInv
  OBVIOUS
<1>1. scenario.throws \in Nat /\ scenario.crashes \in Nat
  BY ScenarioAssumption DEF Init
<1>2. Types
  BY <1>1, QueueAssumption DEF Init, Types, QueueInit, QueueTypeOK, JobState
<1>3. VersionsInv /\ WorkerInv /\ NoUpdateLost
  BY DEF Init, VersionsInv, WorkerInv, NoUpdateLost, QueueInit
<1>4. JobsInv
  BY QueueAssumption DEF Init, JobsInv, QueueInit
<1>5. CallsInv
  <2> SUFFICES ASSUME NEW t \in Token
               PROVE  calls[t]["exists"] = 0 /\ Open(t) <= Cardinality(Unused(t))
    BY DEF CallsInv
  <2>1. Open(t) = 0 /\ calls[t]["exists"] = 0
    BY DEF Init, Open, Phase
  <2>2. Cardinality(Unused(t)) \in 0..MaxJobs
    BY UnusedFinite, UnusedSlots
  <2>. QED BY <2>1, <2>2, BoundsAssumption
<1>. QED BY <1>2, <1>3, <1>4, <1>5 DEF MetadataInv

LEMMA MetadataStep == MetadataInv /\ [Next]_vars => MetadataInv'
<1> SUFFICES ASSUME MetadataInv, [Next]_vars
             PROVE  MetadataInv'
  OBVIOUS
<1>1. ASSUME NEW t \in DOMAIN scenario.versions,
             \/ \E asks \in BOOLEAN : EventIndexed(t, asks)
             \/ ContractChanges(t) \/ RefreshMetadata(t) \/ CallStep(t)
             \/ PromoteDelayed(t) \/ CheckStalled(t)
      PROVE  MetadataInv'
  <2>1. t \in Token
    BY ScenarioAssumption DEF MetadataInv, Types
  <2>. QED BY <1>1, <2>1, EventIndexedStep, ContractChangesStep, RefreshStep,
              CheckPresentStep, CheckWaitingStep, AddJobStep, PromoteDelayedStep,
              CheckStalledStep DEF CallStep
<1>2. CASE QueueGetMissingMetadata \/ QueueGetAllMetadata
  BY <1>2, CronStep, RefreshStep
<1>3. ASSUME NEW w \in Worker,
             (\E t \in Token : TakeJob(w, t)) \/ IndexMetadata(w) \/ HandlerThrows(w)
      PROVE  MetadataInv'
  BY <1>3, TakeJobStep, IndexMetadataStep
<1>4. CASE Crash
  BY <1>4, CrashStep
<1>5. CASE UNCHANGED vars
  <2>1. /\ UNCHANGED <<scenario, known, version, wanted, stored, calls>>
        /\ UNCHANGED <<state, attempts, stalls, running, pc, read, throws, crashes>>
    BY <1>5 DEF vars, chain, queue, handler, faults
  <2>2. Types' /\ VersionsInv' /\ WorkerInv' /\ JobsInv'
    BY <2>1 DEF MetadataInv, Types, VersionsInv, WorkerInv, JobsInv, QueueTypeOK
  <2>3. CallsInv' /\ NoUpdateLost'
    BY <2>1 DEF MetadataInv, CallsInv, Open, Unused, JobsOf, IsBackpack, NoUpdateLost,
                Handled
  <2>. QED BY <2>2, <2>3 DEF MetadataInv
<1>. QED BY <1>1, <1>2, <1>3, <1>4, <1>5 DEF Next

(* The call that carries somebody's wish, the job it leaves and the row the job
   writes are never all behind it; what a worker read is never the older.   *)
THEOREM MetadataInvariant == Spec => []MetadataInv
BY MetadataInit, MetadataStep, PTL DEF Spec

(* The counts of open calls stay within the bound on jobs, a row is never
   newer than the contract, and no job is retried more often than allowed.  *)
THEOREM TypeCorrect == Spec => []TypeOK
<1>1. MetadataInv => TypeOK
  <2> SUFFICES ASSUME MetadataInv
               PROVE  TypeOK
    OBVIOUS
  <2>1. calls \in [Token -> [Phase -> 0..MaxJobs]]
    <3>1. ASSUME NEW t \in Token, NEW p \in Phase
          PROVE  calls[t][p] \in 0..MaxJobs
      <4>1. /\ calls[t]["exists"] \in Nat /\ calls[t]["waiting"] \in Nat
            /\ calls[t]["adding"] \in Nat
        BY OpenIsNat DEF MetadataInv, Types
      <4>2. Open(t) <= Cardinality(Unused(t)) /\ Cardinality(Unused(t)) \in 0..MaxJobs
        BY UnusedFinite, UnusedSlots DEF MetadataInv, CallsInv
      <4>. QED BY <4>1, <4>2, BoundsAssumption DEF Open, Phase
    <3>2. calls \in [Token -> [Phase -> Nat]]
      BY DEF MetadataInv, Types
    <3>. QED BY <3>1, <3>2
  <2>2. \A t \in Token : /\ version[t] # 0 => version[t] <= scenario.versions[t]
                         /\ wanted[t] \in 0..version[t] /\ stored[t] \in 0..version[t]
    BY DEF MetadataInv, Types, VersionsInv
  <2>. QED BY <2>1, <2>2 DEF MetadataInv, Types, TypeOK
<1>. QED BY <1>1, MetadataInvariant, PTL

(* Whoever asked for a token's metadata is served by somebody still, for any
   number of concurrent askers, changes, failing calls and crashes.        *)
THEOREM NeverLost == Spec => []NoUpdateLost
BY MetadataInvariant, PTL DEF MetadataInv
===============================================================================
