----------------------------- MODULE SettledProofs -----------------------------
(***************************************************************************)
(* One worker and no fault: the rows of the Event table appear in the      *)
(* order of the feed, the tables hold what the events handled so far have  *)
(* left in them, and when the queue is empty, what the chain says.         *)
(***************************************************************************)
EXTENDS BlockHandlersProofs, FiniteSetTheorems

(* The last and the first of some events.                                  *)
LEMMA LastExists ==
    ASSUME NEW S, S \subseteq 1..MaxLength, S # {}
    PROVE  LastOf(S) \in S /\ \A m \in S : m <= LastOf(S)
<1> DEFINE T == {MaxLength - n : n \in S}
<1>1. MaxLength \in Nat /\ \A n \in S : n \in Nat /\ n <= MaxLength
  BY BoundsAssumption
<1>2. \A n \in S : MaxLength - n \in Nat
  BY <1>1
<1>3. T \subseteq Nat /\ T # {}
  BY <1>2
<1>4. PICK x \in T : \A y \in T : ~(<<y, x>> \in OpToRel(<, Nat))
  BY <1>3, NatLessThanWellFounded, WFMin
<1>5. PICK n \in S : x = MaxLength - n
  OBVIOUS
<1>6. ASSUME NEW m \in S
      PROVE  m <= n
  <2>1. m \in Nat /\ n \in Nat
    BY <1>1, <1>5
  <2>2. ASSUME n < m
        PROVE  FALSE
    <3>1. MaxLength - m \in T /\ MaxLength - m \in Nat /\ x \in Nat
      BY <1>2, <1>5
    <3>2. MaxLength - m < x
      BY <1>1, <1>5, <2>1, <2>2
    <3>. QED BY <1>4, <3>1, <3>2 DEF OpToRel
  <2>. QED BY <2>1, <2>2
<1>. QED BY <1>5, <1>6 DEF LastOf

LEMMA FirstExists ==
    ASSUME NEW S, S \subseteq 1..MaxLength, S # {}
    PROVE  FirstOf(S) \in S /\ \A m \in S : FirstOf(S) <= m
<1>1. \A n \in S : n \in Nat
  BY BoundsAssumption
<1>2. S \subseteq Nat
  BY <1>1
<1>3. PICK n \in S : \A m \in S : ~(<<m, n>> \in OpToRel(<, Nat))
  BY <1>2, NatLessThanWellFounded, WFMin
<1>4. ASSUME NEW m \in S
      PROVE  n <= m
  <2>1. m \in Nat /\ n \in Nat
    BY <1>1, <1>3
  <2>2. ASSUME m < n
        PROVE  FALSE
    BY <1>3, <2>1, <2>2 DEF OpToRel
  <2>. QED BY <2>1, <2>2
<1>. QED BY <1>3, <1>4 DEF FirstOf

LEMMA LastIs ==
    ASSUME NEW S, S \subseteq 1..MaxLength, NEW n \in S, \A m \in S : m <= n
    PROVE  LastOf(S) = n
<1>1. \A m \in S : m \in Nat
  BY BoundsAssumption
<1>2. LastOf(S) \in S /\ n <= LastOf(S)
  BY LastExists
<1>3. LastOf(S) <= n /\ LastOf(S) \in Nat /\ n \in Nat
  BY <1>1, <1>2
<1>. QED BY <1>2, <1>3

LEMMA FirstIs ==
    ASSUME NEW S, S \subseteq 1..MaxLength, NEW n \in S, \A m \in S : n <= m
    PROVE  FirstOf(S) = n
<1>1. \A m \in S : m \in Nat
  BY BoundsAssumption
<1>2. FirstOf(S) \in S /\ FirstOf(S) <= n
  BY FirstExists
<1>3. n <= FirstOf(S) /\ FirstOf(S) \in Nat /\ n \in Nat
  BY <1>1, <1>2
<1>. QED BY <1>2, <1>3

(* The type of an event's row.                                             *)
Matches(kind, type) ==
    \/ kind = "Prescription_Updated" /\ type \in {"MINT", "CHANGE_ATTRIBUTE"}
    \/ kind \in DOMAIN RowType /\ type = RowType[kind]

RowsMatch ==
    \A n \in 1..MaxLength : db.event[n] # None =>
        n \in DOMAIN feed /\ Matches(feed[n].kind, db.event[n])

RowStatements == {"createChange", "createMint", "createEvent"}
Unrecorded == RowStatements \cup {"findMinted"}

(* What a statement does to the Event table and to the queue.              *)
RowEffect(j, s) ==
    LET n == j.event IN
    \/ db'.event = db.event
    \/ /\ s \in RowStatements /\ db.event[n] = None
       /\ \E x \in EventType : /\ Matches(feed[n].kind, x)
                               /\ db'.event = [db.event EXCEPT ![n] = x]

Advances(w, j, s) ==
    /\ UNCHANGED <<scenario, sent, state, running>>
    /\ \E next \in Step \ {"idle"} :
          /\ pc' = [pc EXCEPT ![w] = next]
          /\ next \in Unrecorded =>
                db' = db /\ (s = "findMinted" \/ db.event[j.event] = None)
    /\ RowEffect(j, s)

GivesUp(w, j, s) ==
    /\ Refused(w, s) /\ s \notin {"findEvent", "findMinted"}
    /\ s \in RowStatements => db.event[j.event] # None

Effect(w) ==
    \E j \in Job, s \in Step \ {"idle"} :
        At(w, j, s) /\ (Advances(w, j, s) \/ GivesUp(w, j, s))

LEMMA ReadEffect ==
    ASSUME HandlersInv, NEW w \in Worker, NEW s \in Step \ {"idle"},
           NEW next \in Step \ ({"idle"} \cup Unrecorded), Reads(w, s, next)
    PROVE  Effect(w)
<1>1. PICK j \in Job : At(w, j, s)
  BY AtStatement DEF Reads
<1>2. Advances(w, j, s)
  BY DEF Reads, Goto, blocksQueue, Advances, RowEffect
<1>. QED BY <1>1, <1>2 DEF Effect

LEMMA AskEffect ==
    ASSUME HandlersInv, NEW w \in Worker, NEW s \in Step \ {"idle"}, NEW jobs,
           NEW next \in Step \ ({"idle"} \cup Unrecorded), Asks(w, s, jobs, next)
    PROVE  Effect(w)
<1>1. PICK j \in Job : At(w, j, s)
  BY AtStatement DEF Asks
<1>2. Advances(w, j, s)
  BY DEF Asks, Goto, blocksQueue, Advances, RowEffect
<1>. QED BY <1>1, <1>2 DEF Effect

(* Statements that write other tables.                                     *)
LEMMA WriteEffect ==
    ASSUME HandlersInv, NEW w \in Worker, NEW s \in Step \ {"idle"}, NEW tables,
           NEW next \in Step \ ({"idle"} \cup Unrecorded), Writes(w, s, tables, next),
           tables.event = db.event
    PROVE  Effect(w)
<1>1. PICK j \in Job : At(w, j, s)
  BY AtStatement DEF Writes
<1>2. Advances(w, j, s)
  BY DEF Writes, Goto, blocksQueue, Advances, RowEffect
<1>. QED BY <1>1, <1>2 DEF Effect

LEMMA InsertEffect ==
    ASSUME HandlersInv, NEW w \in Worker, NEW s \in Step \ ({"idle", "findEvent"} \cup Unrecorded),
           NEW exists, NEW tables, NEW next \in Step \ ({"idle"} \cup Unrecorded),
           Inserts(w, s, exists, tables, next), tables.event = db.event
    PROVE  Effect(w)
<1>1. PICK j \in Job : At(w, j, s)
  BY AtStatement DEF Inserts
<1>2. CASE Writes(w, s, tables, next)
  BY <1>2, WriteEffect
<1>3. CASE Refused(w, s)
  BY <1>1, <1>3 DEF GivesUp, Effect, Unrecorded
<1>. QED BY <1>2, <1>3 DEF Inserts

(* Statements that write a row of the Event table.                         *)
LEMMA RowInserted ==
    ASSUME HandlersInv, NEW w \in Worker, NEW j \in Job, NEW s \in RowStatements, At(w, j, s),
           NEW next \in Step \ ({"idle"} \cup Unrecorded),
           NEW x \in EventType, Matches(feed[j.event].kind, x),
           Inserts(w, s, Indexed(w), WithRow(w, x), next)
    PROVE  Effect(w)
<1>1. running[w] = j /\ s \in Step \ {"idle"} /\ db \in Tables /\ j.event \in 1..MaxLength
  BY DEF At, RowStatements, Step, HandlersInv, Types
<1>2. CASE db.event[j.event] = None /\ Writes(w, s, WithRow(w, x), next)
  <2>1. db'.event = [db.event EXCEPT ![j.event] = x]
    BY <1>1, <1>2 DEF Writes, WithRow, Tables
  <2>2. Advances(w, j, s)
    BY <1>2, <2>1 DEF Writes, Goto, blocksQueue, Advances, RowEffect
  <2>. QED BY <1>1, <2>2 DEF Effect
<1>3. CASE db.event[j.event] # None /\ Refused(w, s)
  BY <1>1, <1>3 DEF GivesUp, Effect, RowStatements
<1>. QED BY <1>1, <1>2, <1>3 DEF Inserts, Indexed

LEMMA OtherTables ==
    ASSUME db \in Tables
    PROVE  /\ \A t : WithTrait(t).event = db.event
           /\ \A w, t : WithOwner(w, t).event = db.event
           /\ \A w : WithStock(w).event = db.event /\ WithVote(w).event = db.event
           /\ \A a, x : [db EXCEPT !.picture[a] = x].event = db.event
BY DEF Tables, WithTrait, WithOwner, WithStock, WithVote

LEMMA StatementEffect ==
    ASSUME HandlersInv, NEW w \in Worker, Statement(w)
    PROVE  Effect(w)
<1>1. /\ db \in Tables
      /\ pc[w] \in Step \ {"idle"} => \E j \in Job : At(w, j, pc[w])
  BY AtStatement DEF HandlersInv, Types
<1> USE DEF Step, Unrecorded, RowStatements
<1>2. CASE FindEvent(w)
  <2>1. PICK j \in Job : At(w, j, "findEvent")
    BY <1>1, <1>2 DEF FindEvent, Reads
  <2>2. CASE Indexed(w)
    BY <1>2, <2>2, ReadEffect DEF FindEvent
  <2>3. CASE ~Indexed(w)
    BY <1>2, <2>1, <2>3 DEF FindEvent, Indexed, Reads, Goto, blocksQueue, At, Advances, RowEffect, Effect
  <2>. QED BY <2>2, <2>3
<1>3. CASE FindMinted(w)
  <2>1. PICK j \in Job : At(w, j, "findMinted")
    BY <1>1, <1>3 DEF FindMinted, Reads
  <2>. QED
    BY <1>3, <2>1 DEF FindMinted, Reads, Goto, blocksQueue, Advances, RowEffect, Effect
<1>4. CASE CheckIfIsPill(w) \/ FindStock(w) \/ FindVote(w)
  BY <1>4, ReadEffect DEF CheckIfIsPill, FindStock, FindVote
<1>5. CASE FindRedemption(w) \/ FindKnown(w) \/ FindPower(w)
  BY <1>5, ReadEffect DEF FindRedemption, FindKnown, FindPower
<1>6. CASE FindBackpack(w)
  <2>1. PICK j \in Job : At(w, j, "findBackpack")
    BY <1>1, <1>6 DEF FindBackpack, Reads
  <2>2. PICK next \in {"return", "createBackpack", "updateBackpack", "deleteBackpack"} :
           Reads(w, "findBackpack", next)
    BY <1>6, <2>1 DEF FindBackpack, At, Sound, KindSound
  <2>. QED BY <2>2, ReadEffect
<1>7. CASE QueueBG(w) \/ QueueIng(w) \/ QueueMetadata(w) \/ QueueTrait(w)
  BY <1>7, AskEffect DEF QueueBG, QueueIng, QueueMetadata, QueueTrait
<1>8. CASE CreateBG(w) \/ CreateIng(w) \/ CreateKnown(w)
  BY <1>1, <1>8, OtherTables, InsertEffect DEF CreateBG, CreateIng, CreateKnown
<1>9. CASE UpdateBackpack(w) \/ CreateBackpack(w) \/ DeleteBackpack(w)
  BY <1>1, <1>9, OtherTables, InsertEffect
     DEF UpdateBackpack, CreateBackpack, DeleteBackpack, Changes
<1>10. CASE UpdateStock(w) \/ CreateStock(w) \/ UpdateVote(w) \/ CreateVote(w)
  BY <1>1, <1>10, OtherTables, InsertEffect
     DEF UpdateStock, CreateStock, UpdateVote, CreateVote, Changes
<1>11. CASE CreateRedemption(w) \/ CreatePower(w)
  <2>1. /\ [db EXCEPT !.redemption = @ \cup {Redemption(w)}].event = db.event
        /\ [db EXCEPT !.votingPower = @ \cup {Event(w).token}].event = db.event
    BY <1>1 DEF Tables
  <2>2. CASE CreateRedemption(w)
    BY <2>1, <2>2, InsertEffect DEF CreateRedemption
  <2>3. CASE CreatePower(w)
    BY <2>1, <2>3, InsertEffect DEF CreatePower
  <2>. QED BY <1>11, <2>2, <2>3
<1>12. CASE ClearPicture(w)
  BY <1>1, <1>12, OtherTables, WriteEffect DEF ClearPicture
<1>13. CASE FindPicture(w)
  <2>1. PICK j \in Job : At(w, j, "findPicture")
    BY <1>1, <1>13 DEF FindPicture
  <2>. QED
    BY <1>13, <2>1 DEF FindPicture, Goto, blocksQueue, Advances, RowEffect, Effect
<1>14. CASE CreateChange(w)
  <2>1. PICK j \in Job : At(w, j, "createChange")
    BY <1>1, <1>14 DEF CreateChange, Inserts
  <2>2. Matches(feed[j.event].kind, "CHANGE_ATTRIBUTE")
    BY <2>1 DEF At, Sound, KindSound, Matches
  <2>. QED BY <1>14, <2>1, <2>2, RowInserted DEF CreateChange, EventType
<1>15. CASE CreateMint(w)
  <2>1. PICK j \in Job : At(w, j, "createMint")
    BY <1>1, <1>15 DEF CreateMint, Inserts
  <2>2. Matches(feed[j.event].kind, "MINT")
    BY <2>1 DEF At, Sound, KindSound, Matches
  <2>. QED BY <1>15, <2>1, <2>2, RowInserted DEF CreateMint, EventType
<1>16. CASE CreateEvent(w)
  <2>1. PICK j \in Job : At(w, j, "createEvent")
    BY <1>1, <1>16 DEF CreateEvent
  <2> DEFINE kind == feed[j.event].kind
  <2>2. kind \in DOMAIN RowType /\ Event(w).kind = kind
    BY <2>1 DEF At, Sound, KindSound
  <2>3. AfterRow(kind) \in {"queueMetadata", "checkIfIsPill", "findBackpack"}
    BY <2>2 DEF AfterRow, RowType
  <2>4. CASE Reads(w, "createEvent", AfterRow(kind))
    BY <2>3, <2>4, ReadEffect
  <2>5. CASE Inserts(w, "createEvent", Indexed(w), WithRow(w, RowType[kind]), AfterRow(kind))
    <3>1. RowType[kind] \in EventType /\ Matches(kind, RowType[kind])
      BY <2>2 DEF RowType, EventType, Matches
    <3>. QED BY <2>1, <2>3, <2>5, <3>1, RowInserted
  <2>. QED BY <1>16, <2>2, <2>4, <2>5 DEF CreateEvent
<1>. QED
  BY <1>2, <1>3, <1>4, <1>5, <1>6, <1>7, <1>8, <1>9, <1>10, <1>11, <1>12, <1>13, <1>14,
     <1>15, <1>16 DEF Statement
-------------------------------------------------------------------------------
(* A job is new until its stream has sent it.                              *)
SentInv ==
    /\ \A c \in 1..Copies : sent[c] <= Len(feed)
    /\ \A j \in Job : state[j] = "new" <=> sent[j.copy] < j.event

RowsBefore(n) ==
    \A m \in DOMAIN feed : m < n /\ feed[m].kind \in KeepsRow => db.event[m] # None

(* With one worker: whoever is served next has every row before its own.    *)
InOrder ==
    /\ \A v, w \in Worker : running[v] # NoJob /\ running[w] # NoJob => v = w
    /\ \A j \in Job : state[j] = "active" => \E w \in Worker : running[w] = j
    /\ \A j \in Job : state[j] \notin {"front", "stalled"}
    /\ \A j \in Job : state[j] \in {"delayed", "done", "failed"} =>
          (feed[j.event].kind \in KeepsRow => db.event[j.event] # None)
    /\ \A w \in Worker, j \in Job : running[w] = j =>
          /\ RowsBefore(j.event)
          /\ pc[w] \in Unrecorded => db.event[j.event] = None
    /\ \A m \in DOMAIN feed : db.event[m] # None => RowsBefore(m)

LEMMA ScenarioStays ==
    ASSUME HandlersInv, [Next]_vars
    PROVE  scenario' = scenario
<1>1. \A w \in Worker : Statement(w) => scenario' = scenario
  BY StatementEffect DEF Effect, Advances, GivesUp, Refused
<1>. QED
  BY <1>1 DEF vars, Next, QueueIndexBlockData, IndexBlock, CompleteJob, HandlerThrows,
         SwallowError, PromoteDelayed, CheckStalled, Crash, CheckProfilePicture,
         SetProfilePicture, GetVotingPower

LEMMA RowsMatchStays ==
    ASSUME RowsMatch, scenario' = scenario, db'.event = db.event
    PROVE  RowsMatch'
BY DEF RowsMatch, feed

LEMMA RowsMatchNext ==
    ASSUME HandlersInv, RowsMatch, [Next]_vars
    PROVE  RowsMatch'
<1>1. db \in Tables
  BY DEF HandlersInv, Types
<1>2. ASSUME NEW w \in Worker, Statement(w)
      PROVE  RowsMatch'
  <2>1. PICK j \in Job, s \in Step \ {"idle"} :
           At(w, j, s) /\ (Advances(w, j, s) \/ GivesUp(w, j, s))
    BY <1>2, StatementEffect DEF Effect
  <2>2. CASE GivesUp(w, j, s)
    BY <2>2, RowsMatchStays DEF GivesUp, Refused
  <2>3. CASE Advances(w, j, s) /\ db'.event = db.event
    BY <2>3, RowsMatchStays DEF Advances
  <2>4. ASSUME NEW x \in EventType, Matches(feed[j.event].kind, x), scenario' = scenario,
               db'.event = [db.event EXCEPT ![j.event] = x]
        PROVE  RowsMatch'
    BY <1>1, <2>1, <2>4 DEF RowsMatch, At, feed, Tables
  <2>. QED BY <2>1, <2>2, <2>3, <2>4 DEF Advances, RowEffect
<1>3. ASSUME NEW a \in Address, SetProfilePicture(a)
      PROVE  RowsMatch'
  BY <1>1, <1>3, RowsMatchStays, OtherTables DEF SetProfilePicture
<1>4. ASSUME NEW t \in Token, GetVotingPower(t)
      PROVE  RowsMatch'
  <2>1. db'.event = db.event
    BY <1>1, <1>4 DEF GetVotingPower, Tables
  <2>. QED BY <1>4, <2>1, RowsMatchStays DEF GetVotingPower
<1>5. CASE UNCHANGED <<scenario, db>>
  BY <1>5, RowsMatchStays
<1>6. Next => \/ \E w \in Worker : Statement(w)
              \/ \E a \in Address : SetProfilePicture(a)
              \/ \E t \in Token : GetVotingPower(t)
              \/ UNCHANGED <<scenario, db>>
  BY DEF Next, QueueIndexBlockData, IndexBlock, CompleteJob, HandlerThrows, SwallowError,
         PromoteDelayed, CheckStalled, Crash, CheckProfilePicture
<1>. QED BY <1>2, <1>3, <1>4, <1>5, <1>6 DEF vars

(* Only a stream makes a job out of what was new.                          *)
LEMMA SentStays ==
    ASSUME SentInv, UNCHANGED <<scenario, sent>>,
           \A j \in Job : state'[j] = "new" <=> state[j] = "new"
    PROVE  SentInv'
BY DEF SentInv, feed

LEMMA SentNext ==
    ASSUME HandlersInv, SentInv, [Next]_vars
    PROVE  SentInv'
<1>1. /\ state \in [Job -> JobState] /\ running \in [Worker -> Job \cup {NoJob}]
      /\ sent \in [1..Copies -> 0..MaxLength] /\ scenario \in Scenarios
      /\ \A w \in Worker : running[w] # NoJob => state[running[w]] = "active"
  BY DEF HandlersInv, QueueInv, Types, QueueTypeOK
<1>2. ASSUME NEW c \in 1..Copies, QueueIndexBlockData(c)
      PROVE  SentInv'
  <2> DEFINE k == [copy |-> c, event |-> sent[c] + 1]
  <2>1. /\ sent[c] < Len(feed) /\ sent' = [sent EXCEPT ![c] = sent[c] + 1]
        /\ state' = [state EXCEPT ![k] = "wait"] /\ feed' = feed
    BY <1>1, <1>2 DEF QueueIndexBlockData, Add, feed
  <2>2. Len(feed) \in Nat /\ Len(feed) <= MaxLength /\ MaxLength \in Nat
    BY <1>1, ScenarioAssumption, BoundsAssumption DEF feed
  <2>3. /\ k \in Job /\ sent'[c] = sent[c] + 1 /\ sent[c] \in Nat
        /\ \A d \in 1..Copies \ {c} : sent'[d] = sent[d]
    BY <1>1, <2>1, <2>2 DEF Job
  <2>4. \A d \in 1..Copies : sent'[d] <= Len(feed')
    BY <1>1, <2>1, <2>2, <2>3 DEF SentInv
  <2>5. ASSUME NEW j \in Job
        PROVE  state'[j] = "new" <=> sent'[j.copy] < j.event
    <3>1. j.copy \in 1..Copies /\ j.event \in 1..MaxLength /\ (j = k <=> j.copy = c /\ j.event = sent[c] + 1)
      BY DEF Job
    <3>2. CASE j = k
      BY <1>1, <2>1, <2>3, <3>2
    <3>3. CASE j # k
      <4>1. state'[j] = state[j]
        BY <1>1, <2>1, <3>3
      <4>. QED BY <2>3, <3>1, <3>3, <4>1 DEF SentInv
    <3>. QED BY <3>2, <3>3
  <2>. QED BY <2>4, <2>5 DEF SentInv
<1>3. ASSUME NEW w \in Worker, NEW j \in Job, IndexBlock(w, j)
      PROVE  SentInv'
  BY <1>1, <1>3, SentStays DEF IndexBlock, Take, IsHead
<1>4. ASSUME NEW w \in Worker, Reject(w), UNCHANGED <<scenario, sent>>
      PROVE  SentInv'
  BY <1>1, <1>4, SentStays DEF Reject
<1>5. ASSUME NEW w \in Worker, CompleteJob(w)
      PROVE  SentInv'
  BY <1>1, <1>5, SentStays DEF CompleteJob, Complete
<1>6. ASSUME NEW w \in Worker, Statement(w)
      PROVE  SentInv'
  BY <1>4, <1>6, StatementEffect, SentStays DEF Effect, Advances, GivesUp, Refused
<1>7. ASSUME NEW j \in Job, PromoteDelayed(j) \/ CheckStalled(j)
      PROVE  SentInv'
  BY <1>1, <1>7, SentStays DEF PromoteDelayed, Promote, CheckStalled, RecoverStalled
<1>8. CASE Crash
  BY <1>1, <1>8, SentStays DEF Crash, LoseWorkers
<1>9. CASE UNCHANGED <<scenario, sent, state>>
  BY <1>9, SentStays
<1>10. Next => \/ \E c \in 1..Copies : QueueIndexBlockData(c)
               \/ \E w \in Worker, j \in Job : IndexBlock(w, j)
               \/ \E w \in Worker : Statement(w) \/ CompleteJob(w)
               \/ \E w \in Worker : Reject(w) /\ UNCHANGED <<scenario, sent>>
               \/ \E j \in Job : PromoteDelayed(j) \/ CheckStalled(j)
               \/ Crash
               \/ UNCHANGED <<scenario, sent, state>>
  BY DEF Next, HandlerThrows, SwallowError, CheckProfilePicture, SetProfilePicture,
         GetVotingPower, blocksQueue
<1>. QED
  BY <1>2, <1>3, <1>4, <1>5, <1>6, <1>7, <1>8, <1>9, <1>10 DEF vars, blocksQueue

(* Neither the queue nor the handlers nor the rows move.                    *)
LEMMA OrderStays ==
    ASSUME InOrder, UNCHANGED <<scenario, state, running, pc>>, db'.event = db.event
    PROVE  InOrder'
BY DEF InOrder, RowsBefore, feed

(* Rows are only added.                                                    *)
LEMMA RowsBeforeStays ==
    ASSUME scenario' = scenario,
           \A m \in DOMAIN feed : db.event[m] # None => db'.event[m] # None,
           NEW n, RowsBefore(n)
    PROVE  RowsBefore(n)'
BY DEF RowsBefore, feed

LEMMA OrderInit == Init => RowsMatch /\ SentInv /\ InOrder
<1> SUFFICES ASSUME Init
             PROVE  RowsMatch /\ SentInv /\ InOrder
  OBVIOUS
<1>1. \A n \in 1..MaxLength : db.event[n] = None
  BY DEF Init, EmptyDb
<1>2. /\ scenario \in Scenarios
      /\ \A c \in 1..Copies : sent[c] = 0
      /\ \A j \in Job : state[j] = "new"
      /\ \A w \in Worker : running[w] = NoJob
  BY DEF Init, QueueInit
<1>3. \A j \in Job : j.copy \in 1..Copies /\ j.event \in 1..MaxLength
  BY DEF Job
<1>4. DOMAIN feed \subseteq 1..MaxLength /\ Len(feed) \in Nat
  BY <1>2, FeedType, ScenarioAssumption DEF feed
<1>5. \A w \in Worker, j \in Job : running[w] # j
  BY <1>2, QueueAssumption
<1>6. \A m \in DOMAIN feed : db.event[m] = None
  BY <1>1, <1>4
<1>7. InOrder
  <2>1. \A j \in Job : state[j] \notin {"active", "front", "stalled", "delayed", "done", "failed"}
    BY <1>2
  <2>2. \A v \in Worker : running[v] = NoJob
    BY <1>2
  <2>3. \A w \in Worker, j \in Job : running[w] = j =>
           RowsBefore(j.event) /\ (pc[w] \in Unrecorded => db.event[j.event] = None)
    BY <1>5
  <2>4. \A m \in DOMAIN feed : db.event[m] # None => RowsBefore(m)
    BY <1>6
  <2>5. \A v, w \in Worker : running[v] # NoJob /\ running[w] # NoJob => v = w
    BY <2>2
  <2>6. \A j \in Job :
           /\ state[j] = "active" => \E w \in Worker : running[w] = j
           /\ state[j] \notin {"front", "stalled"}
           /\ state[j] \in {"delayed", "done", "failed"} =>
                 (feed[j.event].kind \in KeepsRow => db.event[j.event] # None)
    BY <2>1
  <2>. QED BY <2>3, <2>4, <2>5, <2>6 DEF InOrder
<1>8. RowsMatch
  BY <1>1 DEF RowsMatch
<1>9. SentInv
  BY <1>2, <1>3, <1>4 DEF SentInv
<1>. QED BY <1>7, <1>8, <1>9

LEMMA TakeInOrder ==
    ASSUME HandlersInv, SentInv, Calm, InOrder,
           NEW w \in Worker, NEW j \in Job, IndexBlock(w, j)
    PROVE  InOrder'
<1> DEFINE busy == {v \in Worker : running[v] # NoJob}
<1>1. /\ state \in [Job -> JobState] /\ running \in [Worker -> Job \cup {NoJob}]
      /\ pc \in [Worker -> Step] /\ sent \in [1..Copies -> 0..MaxLength]
      /\ \A v \in Worker : running[v] # NoJob => state[running[v]] = "active"
      /\ \A k \in Job : state[k] # "new" => k.event \in DOMAIN feed
      /\ DOMAIN feed \subseteq 1..MaxLength
  BY FeedType DEF HandlersInv, QueueInv, Types, QueueTypeOK
<1>2. /\ Cardinality(busy) < 1 /\ IsHead(j)
      /\ state' = [state EXCEPT ![j] = "active"] /\ running' = [running EXCEPT ![w] = j]
      /\ pc' = [pc EXCEPT ![w] = HandlerStart(feed[j.event].kind)]
      /\ UNCHANGED <<scenario, db>>
  BY DEF IndexBlock, Take, Goto, Calm, IsCalm
<1>3. \A v \in Worker : running[v] = NoJob
  <2> SUFFICES ASSUME NEW v \in busy
               PROVE  FALSE
    OBVIOUS
  <2>1. busy = {v}
    BY DEF InOrder
  <2>2. Cardinality(busy) = 1
    BY <2>1, FS_Singleton
  <2>. QED BY <1>2, <2>2
<1>4. /\ state[j] = "wait" /\ j.event \in DOMAIN feed
      /\ \A k \in Job : state[k] = "wait" => Priority[j] <= Priority[k]
  BY <1>1, <1>2 DEF IsHead, InOrder
<1>5. RowsBefore(j.event)
  <2> SUFFICES ASSUME NEW m \in DOMAIN feed, m < j.event, feed[m].kind \in KeepsRow
               PROVE  db.event[m] # None
    BY DEF RowsBefore
  <2> DEFINE k == [copy |-> j.copy, event |-> m]
  <2>1. k \in Job /\ k.copy = j.copy /\ k.event = m /\ m \in Nat /\ j.event \in Nat /\ j.copy \in 1..Copies
    BY <1>1 DEF Job
  <2> HIDE DEF k
  <2>2. sent[j.copy] \in Nat /\ ~(sent[j.copy] < j.event)
    BY <1>1, <1>4, <2>1 DEF SentInv
  <2>3. state[k] # "new"
    BY <2>1, <2>2 DEF SentInv
  <2>4. state[k] # "wait"
    BY <1>4, <2>1 DEF Priority
  <2>5. state[k] # "active"
    BY <1>3, <2>1, QueueAssumption DEF InOrder
  <2>6. state[k] \in {"delayed", "done", "failed"}
    BY <1>1, <2>1, <2>3, <2>4, <2>5 DEF InOrder, JobState
  <2>. QED BY <2>1, <2>6 DEF InOrder
<1>6. HandlerStart(feed[j.event].kind) \notin Unrecorded
  <2>1. feed[j.event].kind \in EventKind
    BY <1>4, FeedType, EventFields DEF HandlersInv, Types
  <2>. QED BY <2>1 DEF HandlerStart, EventKind, Unrecorded, RowStatements
<1>7. /\ feed' = feed /\ db' = db
      /\ \A m \in DOMAIN feed : RowsBefore(m)' <=> RowsBefore(m)
  BY <1>2 DEF RowsBefore, feed
<1>8. /\ state'[j] = "active" /\ \A k \in Job \ {j} : state'[k] = state[k]
      /\ running'[w] = j /\ pc'[w] \notin Unrecorded
      /\ \A v \in Worker \ {w} : running'[v] = NoJob
  BY <1>1, <1>2, <1>3, <1>6
<1>9. \A k \in Job : state'[k] = "active" => \E v \in Worker : running'[v] = k
  BY <1>3, <1>8, QueueAssumption DEF InOrder
<1>10. \A k \in Job : state'[k] \notin {"front", "stalled"}
  BY <1>8 DEF InOrder
<1>11. \A k \in Job : state'[k] \in {"delayed", "done", "failed"} =>
          (feed[k.event].kind \in KeepsRow => db.event[k.event] # None)
  BY <1>8 DEF InOrder
<1>12. \A v \in Worker, k \in Job : running'[v] = k =>
          RowsBefore(k.event)' /\ (pc'[v] \in Unrecorded => db'.event[k.event] = None)
  BY <1>4, <1>5, <1>7, <1>8, QueueAssumption
<1>13. \A m \in DOMAIN feed : db'.event[m] # None => RowsBefore(m)'
  BY <1>7 DEF InOrder
<1>. QED BY <1>7, <1>8, <1>9, <1>10, <1>11, <1>12, <1>13 DEF InOrder

(* What a worker lets go of has left its row.                              *)
LEMMA LetGoInOrder ==
    ASSUME HandlersInv, InOrder, NEW w \in Worker, NEW j \in Job, running[w] = j,
           feed[j.event].kind \in KeepsRow => db.event[j.event] # None,
           NEW x \in {"delayed", "done", "failed"}, state' = [state EXCEPT ![j] = x],
           running' = [running EXCEPT ![w] = NoJob], pc' = [pc EXCEPT ![w] = "idle"],
           UNCHANGED <<scenario, db>>
    PROVE  InOrder'
<1>1. /\ state \in [Job -> JobState] /\ running \in [Worker -> Job \cup {NoJob}]
      /\ pc \in [Worker -> Step]
  BY DEF HandlersInv, Types, QueueTypeOK
<1>2. /\ state'[j] = x /\ \A k \in Job \ {j} : state'[k] = state[k]
      /\ \A v \in Worker : running'[v] = NoJob
  BY <1>1, QueueAssumption DEF InOrder
<1>3. \A k \in Job \ {j} : state'[k] # "active"
  BY <1>1, <1>2, QueueAssumption DEF InOrder
<1>4. \A m \in DOMAIN feed : RowsBefore(m)' <=> RowsBefore(m)
  BY DEF RowsBefore, feed
<1>5. \A k \in Job : state'[k] \in {"delayed", "done", "failed"} =>
         (feed[k.event].kind \in KeepsRow => db.event[k.event] # None)
  BY <1>2 DEF InOrder
<1>. QED BY <1>2, <1>3, <1>4, <1>5, QueueAssumption DEF InOrder, feed

LEMMA AdvanceInOrder ==
    ASSUME HandlersInv, InOrder, NEW w \in Worker, NEW j \in Job, NEW s \in Step \ {"idle"},
           At(w, j, s), Advances(w, j, s)
    PROVE  InOrder'
<1>1. /\ running[w] = j /\ db \in Tables /\ pc \in [Worker -> Step] /\ pc[w] = s
      /\ j.event \in DOMAIN feed /\ j.event \in 1..MaxLength /\ DOMAIN feed \subseteq 1..MaxLength
  BY FeedType DEF At, HandlersInv, Types
<1>2. /\ UNCHANGED <<scenario, state, running>> /\ feed' = feed
  BY DEF Advances, feed
<1>3. PICK next \in Step \ {"idle"} :
         /\ pc' = [pc EXCEPT ![w] = next]
         /\ next \in Unrecorded => db' = db /\ (s = "findMinted" \/ db.event[j.event] = None)
  BY DEF Advances
<1>4. \A v \in Worker, k \in Job : running[v] = k => v = w /\ k = j
  BY <1>1, QueueAssumption DEF InOrder
<1>5. \/ db'.event = db.event
      \/ /\ db'.event[j.event] # None
         /\ \A m \in DOMAIN feed \ {j.event} : db'.event[m] = db.event[m]
  <2>1. CASE db'.event = db.event
    BY <2>1
  <2>2. CASE \E x \in EventType : db'.event = [db.event EXCEPT ![j.event] = x]
    <3>1. PICK x \in EventType : db'.event = [db.event EXCEPT ![j.event] = x]
      BY <2>2
    <3>2. x # None /\ DOMAIN db.event = 1..MaxLength
      BY <1>1, NoneAssumption DEF Tables
    <3>. QED BY <1>1, <3>1, <3>2
  <2>. QED BY <2>1, <2>2 DEF Advances, RowEffect
<1>6. \A m \in DOMAIN feed : db.event[m] # None => db'.event[m] # None
  BY <1>5
<1>7. \A m \in DOMAIN feed : RowsBefore(m) => RowsBefore(m)'
  BY <1>2, <1>6, RowsBeforeStays
<1>8. RowsBefore(j.event)
  BY <1>1 DEF InOrder
<1>9. \A m \in DOMAIN feed : db'.event[m] # None => RowsBefore(m)'
  BY <1>5, <1>7, <1>8 DEF InOrder
<1>10. next \in Unrecorded => db'.event[j.event] = None
  BY <1>1, <1>3 DEF InOrder, Unrecorded
<1>11. \A k \in Job : state[k] \in {"delayed", "done", "failed"} =>
          (feed[k.event].kind \in KeepsRow => db'.event[k.event] # None)
  <2>1. \A k \in Job : state[k] # "new" => k.event \in DOMAIN feed
    BY DEF HandlersInv, QueueInv
  <2>. QED BY <1>6, <2>1 DEF InOrder
<1>12. \A v \in Worker, k \in Job : running'[v] = k =>
          RowsBefore(k.event)' /\ (pc'[v] \in Unrecorded => db'.event[k.event] = None)
  BY <1>1, <1>2, <1>3, <1>4, <1>7, <1>8, <1>10
<1>. QED BY <1>2, <1>9, <1>11, <1>12 DEF InOrder

LEMMA OrderNext ==
    ASSUME HandlersInv, SentInv, Calm, InOrder, [Next]_vars
    PROVE  InOrder'
<1>1. /\ state \in [Job -> JobState] /\ running \in [Worker -> Job \cup {NoJob}]
      /\ db \in Tables /\ throws + crashes <= 0 /\ requests <= 0
      /\ throws \in Nat /\ crashes \in Nat /\ requests \in Nat
  BY DEF HandlersInv, Types, QueueTypeOK, Calm, IsCalm
<1>2. ASSUME NEW c \in 1..Copies, QueueIndexBlockData(c)
      PROVE  InOrder'
  <2> DEFINE k == [copy |-> c, event |-> sent'[c]]
  <2>1. /\ state[k] = "new" /\ state' = [state EXCEPT ![k] = "wait"]
        /\ UNCHANGED <<scenario, running, pc, db>>
    BY <1>2 DEF QueueIndexBlockData, Add, handler
  <2>2. \A i \in Job : state'[i] = state[i] \/ (state[i] = "new" /\ state'[i] = "wait")
    BY <1>1, <2>1
  <2>3. \A m \in DOMAIN feed : RowsBefore(m)' <=> RowsBefore(m)
    BY <2>1 DEF RowsBefore, feed
  <2>4. \A i \in Job : /\ state'[i] = "active" => state[i] = "active"
                       /\ state'[i] \notin {"front", "stalled"}
                       /\ state'[i] \in {"delayed", "done", "failed"} => state'[i] = state[i]
    BY <2>2 DEF InOrder
  <2>. QED BY <2>1, <2>3, <2>4 DEF InOrder, RowsBefore, feed
<1>3. ASSUME NEW w \in Worker, NEW j \in Job, IndexBlock(w, j)
      PROVE  InOrder'
  BY <1>3, TakeInOrder
<1>4. ASSUME NEW w \in Worker, Statement(w)
      PROVE  InOrder'
  <2>1. PICK j \in Job, s \in Step \ {"idle"} :
           At(w, j, s) /\ (Advances(w, j, s) \/ GivesUp(w, j, s))
    BY <1>4, StatementEffect DEF Effect
  <2>2. CASE Advances(w, j, s)
    BY <2>1, <2>2, AdvanceInOrder
  <2>3. CASE GivesUp(w, j, s)
    <3>1. feed[j.event].kind \in KeepsRow => db.event[j.event] # None
      BY <2>1, <2>3 DEF GivesUp, RowStatements, At, Sound, KindSound, Early, Finding, Kept, Settles, KeepsRow
    <3>2. PICK x \in {"delayed", "failed"} : state' = [state EXCEPT ![j] = x]
      BY <2>1, <2>3 DEF GivesUp, Refused, Reject, At
    <3>3. /\ running' = [running EXCEPT ![w] = NoJob] /\ pc' = [pc EXCEPT ![w] = "idle"]
          /\ UNCHANGED <<scenario, db>> /\ running[w] = j
      BY <2>1, <2>3 DEF GivesUp, Refused, Reject, Goto, At
    <3>. QED BY <3>1, <3>2, <3>3, LetGoInOrder
  <2>. QED BY <2>1, <2>2, <2>3
<1>5. ASSUME NEW w \in Worker, CompleteJob(w)
      PROVE  InOrder'
  <2>1. PICK j \in Job : At(w, j, "return")
    BY <1>5, AtStatement DEF CompleteJob, Step
  <2>2. feed[j.event].kind \in KeepsRow => db.event[j.event] # None
    BY <2>1 DEF At, Sound, Early, Finding, Kept, Settles, KeepsRow
  <2>3. /\ running[w] = j /\ state' = [state EXCEPT ![j] = "done"]
        /\ running' = [running EXCEPT ![w] = NoJob] /\ pc' = [pc EXCEPT ![w] = "idle"]
        /\ UNCHANGED <<scenario, db>>
    BY <1>5, <2>1 DEF CompleteJob, Complete, Goto, At
  <2>. QED BY <2>2, <2>3, LetGoInOrder
<1>6. ASSUME NEW j \in Job, PromoteDelayed(j)
      PROVE  InOrder'
  <2>1. /\ state[j] = "delayed" /\ state' = [state EXCEPT ![j] = "wait"]
        /\ UNCHANGED <<scenario, running, pc, db>>
    BY <1>6 DEF PromoteDelayed, Promote, handler
  <2>2. \A m \in DOMAIN feed : RowsBefore(m)' <=> RowsBefore(m)
    BY <2>1 DEF RowsBefore, feed
  <2>3. \A i \in Job : /\ state'[i] = "active" => state[i] = "active"
                       /\ state'[i] \notin {"front", "stalled"}
                       /\ state'[i] \in {"delayed", "done", "failed"} => state'[i] = state[i]
    BY <1>1, <2>1 DEF InOrder
  <2>. QED BY <2>1, <2>2, <2>3 DEF InOrder, RowsBefore, feed
<1>7. CASE UNCHANGED <<scenario, state, running, pc, db>>
  BY <1>7, OrderStays
<1>8. ASSUME NEW a \in Address, SetProfilePicture(a)
      PROVE  InOrder'
  BY <1>1, <1>8, OrderStays, OtherTables DEF SetProfilePicture, handler, blocksQueue
<1>9. ~Crash /\ \A w \in Worker : ~HandlerThrows(w) /\ ~SwallowError(w)
  BY <1>1 DEF Crash, HandlerThrows, SwallowError, Calm, IsCalm
<1>10. \A j \in Job : ~CheckStalled(j)
  BY DEF CheckStalled, RecoverStalled, InOrder
<1>11. /\ \A a \in Address, t \in Token : ~CheckProfilePicture(a, t)
       /\ \A t \in Token : ~GetVotingPower(t)
  BY <1>1 DEF CheckProfilePicture, GetVotingPower, Calm, IsCalm
<1>. QED
  BY <1>2, <1>3, <1>4, <1>5, <1>6, <1>7, <1>8, <1>9, <1>10, <1>11
     DEF Next, vars, blocksQueue, handler

FeedOrder == RowsMatch /\ SentInv /\ (Calm => InOrder)

(* With one worker and no fault the rows appear in the order of the feed, and
   every row has the type that belongs to its event, whatever the streams
   repeat.                                                                 *)
THEOREM FeedOrderInvariant == Spec => []FeedOrder
<1>1. HandlersInv /\ FeedOrder /\ [Next]_vars => FeedOrder'
  <2> SUFFICES ASSUME HandlersInv, FeedOrder, [Next]_vars
               PROVE  FeedOrder'
    OBVIOUS
  <2>1. scenario' = scenario
    BY ScenarioStays
  <2>2. Calm' => Calm
    BY <2>1 DEF Calm, IsCalm
  <2>. QED BY <2>2, RowsMatchNext, SentNext, OrderNext DEF FeedOrder
<1>. QED BY <1>1, OrderInit, HandlersInvariant, PTL DEF Spec, FeedOrder
-------------------------------------------------------------------------------
(* How far the handler of an event has come, in whichever copy comes first. *)
Handled(n) == \E j \in Job : j.event = n /\ state[j] = "done"
Begun(n) == \E w \in Worker, j \in Job : running[w] = j /\ j.event = n

Stage(n) ==
    IF Handled(n) THEN "done"
    ELSE IF Begun(n) THEN pc[CHOOSE w \in Worker : running[w] # NoJob] ELSE "none"

stage == [n \in DOMAIN feed |-> Stage(n)]

NotYet == {"none"} \cup Early
Moved == {"queueTrait", "return", "done"}

(* What the handler of event n of the chain f leaves in each table by stage s. *)
Rowed(f, n, s) == f[n].kind \in KeepsRow \cup {"SCALAR_TRANSFER"} /\ s \notin NotYet

Learned(f, n, s) ==
    IF n \in MintsOf(f)
    THEN (IF s \in NotYet \cup {"createBG"} THEN {} ELSE {f[n].bg} \ {None})
           \cup (IF s \in {"queueIng", "queueMetadata", "return", "done"}
                 THEN {f[n].ing} \ {None} ELSE {})
    ELSE IF f[n].kind = "TRAIT_REDEMPTION" /\ s \in Moved \cup {"createBackpack"}
    THEN {f[n].token} ELSE {}

AskedFor(f, n, s) ==
    IF n \in MintsOf(f)
    THEN (IF s \in NotYet \cup {"createBG", "queueBG"} THEN {} ELSE {f[n].bg} \ {None})
           \cup (IF s \in {"queueMetadata", "return", "done"}
                 THEN {f[n].ing} \ {None} ELSE {})
    ELSE IF f[n].kind = "TRAIT_REDEMPTION" /\ s \in {"return", "done"}
    THEN {f[n].token} ELSE {}

Claims(f, n, s) ==
    IF f[n].kind = "TRAIT_REDEMPTION" /\ s \notin NotYet
    THEN {<<f[n].value, f[n].token>>} ELSE {}

MovesDone(f, g, t) == {n \in EventsOf(f, TraitMoves, t) : g[n] \in Moved}

HolderBy(f, S) ==
    IF S = {} \/ f[LastOf(S)].kind = "SCALAR_TRANSFER" THEN None ELSE f[LastOf(S)].to

HolderAt(f, g, t) ==
    IF Prescriptions(f, t) # {} THEN None ELSE HolderBy(f, MovesDone(f, g, t))

(* The tables d and the jobs a asked for hold what the events have left at
   their stages g.                                                         *)
Consistent(f, g, d, a) ==
    /\ \A n \in DOMAIN f : /\ d.event[n] # None <=> Rowed(f, n, g[n])
                           /\ d.event[n] = "MINT" <=> n \in MintsOf(f) /\ Rowed(f, n, g[n])
    /\ \A t : t \in d.knownTraits <=> \E n \in DOMAIN f : t \in Learned(f, n, g[n])
    /\ \A t : t \in a.backpack <=> \E n \in DOMAIN f : t \in AskedFor(f, n, g[n])
    /\ \A r : r \in d.redemption <=> \E n \in DOMAIN f : r \in Claims(f, n, g[n])
    /\ \A t \in Token : d.backpack[t] = HolderAt(f, g, t)

(* No job was refused; each copy is served in order.                        *)
Served ==
    /\ \A c \in 1..Copies : c > scenario.copies => sent[c] = 0
    /\ \A j \in Job : state[j] \in {"new", "wait", "active", "done"}
    /\ \A j, k \in Job :
          j.copy = k.copy /\ k.event < j.event /\ state[j] \in {"active", "done"} =>
             state[k] = "done"

ValueStatements == {"updateStock", "createStock", "updateVote", "createVote"}

(* What the last read of a handler found still holds.                       *)
ReadHolds(e, s, d) ==
    /\ s = "createStock" => d.stock[e.token] = 0
    /\ s = "updateStock" => d.stock[e.token] # 0
    /\ s = "createVote" => d.vote[e.token] = 0
    /\ s = "updateVote" => d.vote[e.token] # 0
    /\ s = "createPower" => e.token \notin d.votingPower

FirstTime(f, n, s, d) ==
    /\ s = "createMint" => n \in MintsOf(f)
    /\ s = "createChange" => n \notin MintsOf(f)
    /\ s \in {"findPicture", "clearPicture"} => Prescriptions(f, f[n].token) # {}
    /\ s \in {"findBackpack", "updateBackpack", "createBackpack", "deleteBackpack"} =>
          Prescriptions(f, f[n].token) = {}
    /\ s \in {"updateBackpack", "deleteBackpack"} => d.backpack[f[n].token] # None
    /\ s = "createBackpack" => d.backpack[f[n].token] = None

Again == Finding \cup ValueStatements \cup {"return"}

Serving ==
    \A w \in Worker, j \in Job : running[w] = j =>
        /\ ReadHolds(feed[j.event], pc[w], db)
        /\ IF Handled(j.event) THEN pc[w] \in Again
           ELSE FirstTime(feed, j.event, pc[w], db)

(* A value is the last one once every copy has written it.                  *)
Written ==
    {j \in Job : state[j] = "done" \/ \E w \in Worker : running[w] = j /\ pc[w] = "return"}

Newest(kinds, value, written) ==
    \A t \in Token :
        IF Of(kinds, t) = {} THEN value[t] = 0
        ELSE (\A j \in Job : j.event = LastOf(Of(kinds, t)) /\ j.copy <= scenario.copies =>
                 j \in written) => value[t] = feed[LastOf(Of(kinds, t))].value

Stocks == {"PHARMACY_STOCK_UPDATED"}
Votes == {"PILL_VOTE_TIMESTAMP", "TRAIT_VOTE_TIME_STAMP"}

CalmInv ==
    /\ Served /\ Serving /\ Consistent(feed, stage, db, asked)
    /\ Newest(Stocks, db.stock, Written) /\ Newest(Votes, db.vote, Written)
-------------------------------------------------------------------------------
(* Tables and stages                                                       *)

LEMMA ConsistentSame ==
    ASSUME NEW f, NEW g, NEW d, NEW a, NEW d2, NEW a2, Consistent(f, g, d, a),
           d2.event = d.event, d2.knownTraits = d.knownTraits, d2.redemption = d.redemption,
           d2.backpack = d.backpack, a2.backpack = a.backpack
    PROVE  Consistent(f, g, d2, a2)
BY DEF Consistent

BackpackIs(f, g, d) == \A t \in Token : d.backpack[t] = HolderAt(f, g, t)

(* One event comes to the next stage.                                      *)
LEMMA ConsistentStep ==
    ASSUME NEW f, NEW g, DOMAIN g = DOMAIN f, NEW d, NEW a, NEW d2, NEW a2,
           Consistent(f, g, d, a), NEW n \in DOMAIN f, NEW x,
           \A m \in DOMAIN f \ {n} : d2.event[m] = d.event[m],
           d2.event[n] # None <=> Rowed(f, n, x),
           d2.event[n] = "MINT" <=> n \in MintsOf(f) /\ Rowed(f, n, x),
           Learned(f, n, g[n]) \subseteq Learned(f, n, x),
           d2.knownTraits = d.knownTraits \cup Learned(f, n, x),
           AskedFor(f, n, g[n]) \subseteq AskedFor(f, n, x),
           a2.backpack = a.backpack \cup AskedFor(f, n, x),
           Claims(f, n, g[n]) \subseteq Claims(f, n, x),
           d2.redemption = d.redemption \cup Claims(f, n, x),
           BackpackIs(f, [g EXCEPT ![n] = x], d2)
    PROVE  Consistent(f, [g EXCEPT ![n] = x], d2, a2)
<1> DEFINE h == [g EXCEPT ![n] = x]
<1>1. h[n] = x /\ \A m \in DOMAIN f \ {n} : h[m] = g[m]
  OBVIOUS
<1> HIDE DEF h
<1>2. \A m \in DOMAIN f : /\ d2.event[m] # None <=> Rowed(f, m, h[m])
                          /\ d2.event[m] = "MINT" <=> m \in MintsOf(f) /\ Rowed(f, m, h[m])
  BY <1>1 DEF Consistent
<1>3. \A t : t \in d2.knownTraits <=> \E m \in DOMAIN f : t \in Learned(f, m, h[m])
  BY <1>1 DEF Consistent
<1>4. \A t : t \in a2.backpack <=> \E m \in DOMAIN f : t \in AskedFor(f, m, h[m])
  BY <1>1 DEF Consistent
<1>5. \A t : t \in d2.redemption <=> \E m \in DOMAIN f : t \in Claims(f, m, h[m])
  BY <1>1 DEF Consistent
<1>. QED BY <1>2, <1>3, <1>4, <1>5 DEF Consistent, BackpackIs, h

(* A stage that leaves the backpack alone.                                 *)
LEMMA HolderKept ==
    ASSUME NEW f, NEW g, DOMAIN g = DOMAIN f, NEW n \in DOMAIN f, NEW x,
           \/ g[n] \in Moved <=> x \in Moved
           \/ f[n].kind \notin TraitMoves
           \/ Prescriptions(f, f[n].token) # {}
    PROVE  \A t : HolderAt(f, [g EXCEPT ![n] = x], t) = HolderAt(f, g, t)
<1> SUFFICES ASSUME NEW t, Prescriptions(f, t) = {}
             PROVE  MovesDone(f, [g EXCEPT ![n] = x], t) = MovesDone(f, g, t)
  BY DEF HolderAt
<1>1. EventsOf(f, TraitMoves, t) \subseteq DOMAIN f
  BY DEF EventsOf
<1>2. n \in EventsOf(f, TraitMoves, t) => (g[n] \in Moved <=> x \in Moved)
  BY DEF EventsOf
<1>. QED BY <1>1, <1>2 DEF MovesDone

(* The events before n are handled, those behind it are not begun.         *)
Frontier(f, g, n) ==
    /\ DOMAIN f \subseteq 1..MaxLength /\ DOMAIN g = DOMAIN f /\ n \in DOMAIN f
    /\ \A m \in DOMAIN f : (m < n => g[m] = "done") /\ (m > n => g[m] = "none")

LEMMA HolderSoFar ==
    ASSUME NEW f, NEW g, NEW n, Frontier(f, g, n), g[n] \notin Moved, NEW t,
           Prescriptions(f, t) = {}
    PROVE  HolderAt(f, g, t) = HolderAfter(f, n - 1, t)
<1>1. MovesDone(f, g, t) = {m \in EventsOf(f, TraitMoves, t) : m <= n - 1}
  <2>1. \A m \in DOMAIN f : g[m] \in Moved <=> m <= n - 1
    BY DEF Frontier, Moved
  <2>. QED BY <2>1 DEF MovesDone, EventsOf
<1>. QED BY <1>1 DEF HolderAt, HolderBy, HolderAfter

LEMMA HolderMoves ==
    ASSUME NEW f, NEW g, NEW n, Frontier(f, g, n), NEW x \in Moved,
           f[n].kind \in TraitMoves, Prescriptions(f, f[n].token) = {}
    PROVE  \A t : HolderAt(f, [g EXCEPT ![n] = x], t) =
              IF t # f[n].token THEN HolderAt(f, g, t)
              ELSE IF f[n].kind = "SCALAR_TRANSFER" THEN None ELSE f[n].to
<1> DEFINE h == [g EXCEPT ![n] = x]
<1>1. h[n] = x /\ \A m \in DOMAIN f \ {n} : h[m] = g[m]
  BY DEF Frontier
<1> HIDE DEF h
<1>2. ASSUME NEW t, t # f[n].token
      PROVE  HolderAt(f, h, t) = HolderAt(f, g, t)
  <2>1. MovesDone(f, h, t) = MovesDone(f, g, t)
    BY <1>1, <1>2 DEF MovesDone, EventsOf
  <2>. QED BY <2>1 DEF HolderAt
<1>3. HolderAt(f, h, f[n].token) = IF f[n].kind = "SCALAR_TRANSFER" THEN None ELSE f[n].to
  <2> DEFINE S == MovesDone(f, h, f[n].token)
  <2>1. S \subseteq 1..MaxLength /\ n \in S
    BY <1>1 DEF MovesDone, EventsOf, Frontier
  <2>2. \A m \in S : m <= n
    <3>1. \A m \in DOMAIN f : m > n => h[m] = "none"
      BY <1>1 DEF Frontier
    <3>2. S \subseteq DOMAIN f /\ \A m \in S : h[m] # "none"
      BY DEF MovesDone, EventsOf, Moved
    <3>. QED BY <2>1, <3>1, <3>2
  <2>3. LastOf(S) = n /\ S # {}
    BY <2>1, <2>2, LastIs
  <2>. QED BY <2>3 DEF HolderAt, HolderBy
<1>. QED BY <1>2, <1>3 DEF h

(* A stage that leaves nothing new behind.                                 *)
LEMMA Silent ==
    ASSUME NEW f, NEW g, DOMAIN g = DOMAIN f, NEW d, NEW a, NEW d2, NEW a2,
           Consistent(f, g, d, a), NEW n \in DOMAIN f, NEW x,
           d2.event = d.event, d2.knownTraits = d.knownTraits, d2.redemption = d.redemption,
           d2.backpack = d.backpack, a2.backpack = a.backpack,
           Rowed(f, n, x) <=> Rowed(f, n, g[n]), Learned(f, n, x) = Learned(f, n, g[n]),
           AskedFor(f, n, x) = AskedFor(f, n, g[n]), Claims(f, n, x) = Claims(f, n, g[n]),
           \/ g[n] \in Moved <=> x \in Moved
           \/ f[n].kind \notin TraitMoves
           \/ Prescriptions(f, f[n].token) # {}
    PROVE  Consistent(f, [g EXCEPT ![n] = x], d2, a2)
<1>1. BackpackIs(f, [g EXCEPT ![n] = x], d2)
  <2>1. \A t : HolderAt(f, [g EXCEPT ![n] = x], t) = HolderAt(f, g, t)
    BY HolderKept
  <2>. QED BY <2>1 DEF Consistent, BackpackIs
<1>2. d2.event[n] # None <=> Rowed(f, n, x)
  BY DEF Consistent
<1>3. d2.event[n] = "MINT" <=> n \in MintsOf(f) /\ Rowed(f, n, x)
  BY DEF Consistent
<1>4. d2.knownTraits = d.knownTraits \cup Learned(f, n, x)
  <2>1. d2.knownTraits = d.knownTraits
    OBVIOUS
  <2>2. \A t \in Learned(f, n, x) : t \in d.knownTraits
    BY DEF Consistent
  <2>. QED BY <2>1, <2>2
<1>5. a2.backpack = a.backpack \cup AskedFor(f, n, x)
  <2>1. \A t \in AskedFor(f, n, x) : t \in a.backpack
    BY DEF Consistent
  <2>. QED BY <2>1
<1>6. d2.redemption = d.redemption \cup Claims(f, n, x)
  <2>1. \A t \in Claims(f, n, x) : t \in d.redemption
    BY DEF Consistent
  <2>. QED BY <2>1
<1>. QED BY <1>1, <1>2, <1>3, <1>4, <1>5, <1>6, ConsistentStep

(* The first statement of a handler, before it has written anything, leaves
   what no statement leaves.                                               *)
LEMMA Unwritten ==
    ASSUME NEW f, NEW n, NEW s \in NotYet
    PROVE  /\ ~Rowed(f, n, s) /\ Learned(f, n, s) = {} /\ AskedFor(f, n, s) = {}
           /\ Claims(f, n, s) = {} /\ s \notin Moved
<1>1. s \notin Moved \cup {"createBackpack", "queueIng", "queueMetadata"}
  BY DEF NotYet, Early, Finding, Moved
<1>. QED BY <1>1 DEF Rowed, Learned, AskedFor, Claims, Moved

(* Events of these kinds leave nothing in those tables.                    *)
LEMMA MintKind ==
    ASSUME NEW f, NEW n \in MintsOf(f), DOMAIN f \subseteq 1..MaxLength
    PROVE  /\ n \in DOMAIN f /\ f[n].kind = "Prescription_Updated" /\ f[n].token \in Pills(f)
           /\ n = FirstOf(Prescriptions(f, f[n].token))
           /\ \A m \in Prescriptions(f, f[n].token) : n <= m
<1>1. PICK p \in Pills(f) : n = FirstOf(Prescriptions(f, p))
  BY DEF MintsOf
<1>2. Prescriptions(f, p) # {} /\ Prescriptions(f, p) \subseteq 1..MaxLength
  BY DEF Pills, Prescriptions, EventsOf
<1>3. n \in Prescriptions(f, p) /\ \A m \in Prescriptions(f, p) : n <= m
  BY <1>1, <1>2, FirstExists
<1>4. n \in DOMAIN f /\ f[n].kind = "Prescription_Updated" /\ f[n].token = p
  BY <1>3 DEF Prescriptions, EventsOf
<1>. QED BY <1>1, <1>3, <1>4

LEMMA OtherKinds ==
    ASSUME NEW f, DOMAIN f \subseteq 1..MaxLength, NEW n, NEW s,
           f[n].kind \notin {"Prescription_Updated", "TRAIT_REDEMPTION"}
    PROVE  Learned(f, n, s) = {} /\ AskedFor(f, n, s) = {} /\ Claims(f, n, s) = {}
BY MintKind DEF Learned, AskedFor, Claims
-------------------------------------------------------------------------------
(* One worker                                                              *)

LEMMA OnlyWorker ==
    ASSUME InOrder, NEW w \in Worker, NEW j \in Job, running[w] = j
    PROVE  /\ \A v \in Worker : running[v] # NoJob => v = w
           /\ (CHOOSE v \in Worker : running[v] # NoJob) = w
           /\ \A v \in Worker, k \in Job : running[v] = k => v = w /\ k = j
<1>1. running[w] # NoJob
  BY QueueAssumption
<1>2. \A v \in Worker : running[v] # NoJob => v = w
  BY <1>1 DEF InOrder
<1>3. \A v \in Worker, k \in Job : running[v] = k => running[v] # NoJob
  BY QueueAssumption
<1>. QED BY <1>1, <1>2, <1>3

(* What the job's event has before and behind it.                          *)
LEMMA Order ==
    ASSUME HandlersInv, InOrder, Served, NEW w \in Worker, NEW j \in Job, running[w] = j
    PROVE  /\ j.event \in DOMAIN feed /\ DOMAIN feed \subseteq 1..MaxLength
           /\ \A m \in DOMAIN feed : m < j.event => Handled(m)
           /\ ~Handled(j.event) => \A m \in DOMAIN feed : m > j.event => ~Handled(m)
           /\ ~Handled(j.event) => Frontier(feed, stage, j.event) /\ stage[j.event] = pc[w]
           /\ Handled(j.event) => stage[j.event] = "done"
<1>1. /\ state[j] = "active" /\ j.event \in DOMAIN feed /\ DOMAIN feed \subseteq 1..MaxLength
      /\ j.event \in 1..MaxLength /\ j.copy \in 1..Copies
  <2>1. running[w] # NoJob
    BY QueueAssumption
  <2>. QED BY <2>1, FeedType DEF HandlersInv, QueueInv, Types, Job
<1>2. ASSUME NEW m \in DOMAIN feed, m < j.event
      PROVE  Handled(m)
  <2> DEFINE k == [copy |-> j.copy, event |-> m]
  <2>1. k \in Job /\ k.copy = j.copy /\ k.event = m
    BY <1>1 DEF Job
  <2> HIDE DEF k
  <2>. QED BY <1>1, <1>2, <2>1 DEF Served, Handled
<1>3. ASSUME ~Handled(j.event), NEW m \in DOMAIN feed, m > j.event
      PROVE  ~Handled(m)
  <2> SUFFICES ASSUME NEW i \in Job, i.event = m, state[i] = "done"
               PROVE  FALSE
    BY DEF Handled
  <2> DEFINE k == [copy |-> i.copy, event |-> j.event]
  <2>1. k \in Job /\ k.copy = i.copy /\ k.event = j.event
    BY <1>1 DEF Job
  <2> HIDE DEF k
  <2>2. k.event < i.event
    BY <1>1, <1>3, <2>1
  <2>3. state[k] = "done"
    BY <2>1, <2>2 DEF Served
  <2>. QED BY <1>3, <2>1, <2>3 DEF Handled
<1>4. ASSUME ~Handled(j.event)
      PROVE  Frontier(feed, stage, j.event) /\ stage[j.event] = pc[w]
  <2>1. \A m \in DOMAIN feed : Begun(m) <=> m = j.event
    BY OnlyWorker DEF Begun
  <2>2. \A m \in DOMAIN feed : stage[m] = Stage(m)
    BY DEF stage
  <2>3. stage[j.event] = pc[w]
    BY <1>1, <1>4, <2>1, <2>2, OnlyWorker DEF Stage
  <2>4. \A m \in DOMAIN feed : m < j.event => stage[m] = "done"
    BY <1>2, <2>2 DEF Stage
  <2>5. \A m \in DOMAIN feed : m > j.event => stage[m] = "none"
    <3> SUFFICES ASSUME NEW m \in DOMAIN feed, m > j.event
                 PROVE  stage[m] = "none"
      OBVIOUS
    <3>1. m # j.event
      BY <1>1
    <3>. QED BY <1>3, <1>4, <2>1, <2>2, <3>1 DEF Stage
  <2>. QED BY <1>1, <2>3, <2>4, <2>5 DEF Frontier, stage
<1>5. Handled(j.event) => stage[j.event] = "done"
  BY <1>1 DEF stage, Stage
<1>. QED BY <1>1, <1>2, <1>3, <1>4, <1>5

(* A statement moves its own event on, if that was not handled before.      *)
LEMMA StageAdvances ==
    ASSUME HandlersInv, InOrder, NEW w \in Worker, NEW j \in Job, running[w] = j, NEW next,
           UNCHANGED <<scenario, state, running>>, pc' = [pc EXCEPT ![w] = next]
    PROVE  /\ Handled(j.event) => stage' = stage
           /\ ~Handled(j.event) => stage' = [stage EXCEPT ![j.event] = next]
           /\ \A n : Handled(n)' <=> Handled(n)
<1>1. /\ \A n : Handled(n)' <=> Handled(n)
      /\ \A n : Begun(n)' <=> Begun(n)
      /\ feed' = feed /\ pc \in [Worker -> Step] /\ pc'[w] = next
  BY DEF Handled, Begun, feed, HandlersInv, Types
<1>2. \A n : Begun(n) <=> n = j.event
  BY OnlyWorker DEF Begun
<1>3. /\ (CHOOSE v \in Worker : running[v] # NoJob) = w
      /\ (CHOOSE v \in Worker : running'[v] # NoJob) = w
  BY OnlyWorker
<1>4. \A n \in DOMAIN feed : Stage(n)' = IF Handled(n) THEN "done"
                                        ELSE IF n = j.event THEN next ELSE "none"
  BY <1>1, <1>2, <1>3 DEF Stage
<1>5. \A n \in DOMAIN feed \ {j.event} : Stage(n) = IF Handled(n) THEN "done" ELSE "none"
  BY <1>2 DEF Stage
<1>6. Handled(j.event) => Stage(j.event) = "done"
  BY DEF Stage
<1>7. stage' = [n \in DOMAIN feed |-> Stage(n)'] /\ stage = [n \in DOMAIN feed |-> Stage(n)]
  BY <1>1 DEF stage
<1>8. Handled(j.event) => stage' = stage
  <2> SUFFICES ASSUME Handled(j.event), NEW n \in DOMAIN feed
               PROVE  Stage(n)' = Stage(n)
    BY <1>7
  <2>. QED BY <1>4, <1>5, <1>6
<1>9. ~Handled(j.event) => stage' = [stage EXCEPT ![j.event] = next]
  <2> SUFFICES ASSUME ~Handled(j.event), NEW n \in DOMAIN feed
               PROVE  Stage(n)' = IF n = j.event THEN next ELSE Stage(n)
    BY <1>7
  <2>. QED BY <1>4, <1>5
<1>. QED BY <1>1, <1>8, <1>9
-------------------------------------------------------------------------------
(* The statements of the one worker                                        *)

(* The newest value of a token is written last of all.                     *)
ValueEffect(e, next, d) ==
    \/ /\ d.stock = db.stock /\ d.vote = db.vote
       /\ next = "return" => e.kind \notin Stocks \cup Votes
    \/ /\ e.kind \in Stocks /\ next = "return" /\ d.vote = db.vote
       /\ d.stock = [db.stock EXCEPT ![e.token] = e.value]
    \/ /\ e.kind \in Votes /\ next = "return" /\ d.stock = db.stock
       /\ d.vote = [db.vote EXCEPT ![e.token] = e.value]

Goes(w, next) ==
    /\ UNCHANGED <<scenario, sent, state, running>>
    /\ pc' = [pc EXCEPT ![w] = next]

CalmMove(w, j, next) ==
    LET n == j.event IN
    /\ Goes(w, next) /\ next \in Step \ {"idle"}
    /\ Consistent(feed, IF Handled(n) THEN stage ELSE [stage EXCEPT ![n] = next], db', asked')
    /\ ReadHolds(feed[n], next, db')
    /\ IF Handled(n) THEN next \in Again ELSE FirstTime(feed, n, next, db')
    /\ ValueEffect(feed[n], next, db')

AtCalm(w, j, s) ==
    LET n == j.event IN
    /\ At(w, j, s) /\ s \in Step \ {"idle"} /\ db \in Tables
    /\ asked \in [metadata : SUBSET Token, backpack : SUBSET Token]
    /\ DOMAIN feed \subseteq 1..MaxLength /\ PillsHeld(feed) /\ TraitsHeld(feed)
    /\ Consistent(feed, stage, db, asked) /\ DOMAIN stage = DOMAIN feed
    /\ ReadHolds(feed[n], s, db)
    /\ Handled(n) => s \in Again /\ stage[n] = "done"
    /\ ~Handled(n) => FirstTime(feed, n, s, db) /\ Frontier(feed, stage, n) /\ stage[n] = s

LEMMA AtCalmStatement ==
    ASSUME HandlersInv, Calm, InOrder, CalmInv,
           NEW w \in Worker, NEW s \in Step \ {"idle"}, pc[w] = s
    PROVE  \E j \in Job : AtCalm(w, j, s)
<1>1. PICK j \in Job : At(w, j, s)
  BY AtStatement
<1>2. PillsHeld(feed) /\ TraitsHeld(feed)
  BY ChainAssumption DEF HandlersInv, Types, feed, Calm
<1>3. running[w] = j
  BY <1>1 DEF At
<1>. QED BY <1>1, <1>2, <1>3, Order DEF AtCalm, CalmInv, Serving, HandlersInv, Types, stage

(* A statement that changes none of the tables the chain decides.          *)
LEMMA QuietMove ==
    ASSUME NEW w, NEW j, NEW s, AtCalm(w, j, s), NEW next \in Step \ {"idle"}, Goes(w, next),
           db'.event = db.event, db'.knownTraits = db.knownTraits,
           db'.redemption = db.redemption, db'.backpack = db.backpack,
           asked'.backpack = asked.backpack,
           Handled(j.event) => next \in Again,
           ~Handled(j.event) =>
              /\ Rowed(feed, j.event, next) <=> Rowed(feed, j.event, s)
              /\ Learned(feed, j.event, next) = Learned(feed, j.event, s)
              /\ AskedFor(feed, j.event, next) = AskedFor(feed, j.event, s)
              /\ Claims(feed, j.event, next) = Claims(feed, j.event, s)
              /\ \/ s \in Moved <=> next \in Moved
                 \/ feed[j.event].kind \notin TraitMoves
                 \/ Prescriptions(feed, feed[j.event].token) # {}
              /\ FirstTime(feed, j.event, next, db'),
           ReadHolds(feed[j.event], next, db'), ValueEffect(feed[j.event], next, db')
    PROVE  CalmMove(w, j, next)
<1>1. CASE Handled(j.event)
  BY <1>1, ConsistentSame DEF CalmMove, AtCalm
<1>2. CASE ~Handled(j.event)
  <2>1. /\ Consistent(feed, stage, db, asked) /\ DOMAIN stage = DOMAIN feed
        /\ j.event \in DOMAIN feed /\ stage[j.event] = s
    BY <1>2 DEF AtCalm, At
  <2>2. Consistent(feed, [stage EXCEPT ![j.event] = next], db', asked')
    BY <1>2, <2>1, Silent
  <2>. QED BY <1>2, <2>2 DEF CalmMove
<1>. QED BY <1>1, <1>2

(* What the events have left so far is in the tables.                      *)
LEMMA LeftSoFar ==
    ASSUME NEW w, NEW j, NEW s, AtCalm(w, j, s), ~Handled(j.event)
    PROVE  /\ Learned(feed, j.event, s) \subseteq db.knownTraits
           /\ AskedFor(feed, j.event, s) \subseteq asked.backpack
           /\ Claims(feed, j.event, s) \subseteq db.redemption
           /\ db.event[j.event] # None <=> Rowed(feed, j.event, s)
           /\ db.event[j.event] = "MINT" <=> j.event \in MintsOf(feed) /\ Rowed(feed, j.event, s)
           /\ \A t \in Token : db.backpack[t] = HolderAt(feed, stage, t)
BY DEF AtCalm, At, Consistent

(* A statement on the way to the row, and a read, for the first time.       *)
LEMMA EarlyMove ==
    ASSUME NEW w, NEW j, NEW s \in Early, AtCalm(w, j, s), NEW next \in Early, Goes(w, next),
           UNCHANGED <<db, asked>>, ~Handled(j.event),
           FirstTime(feed, j.event, next, db), ReadHolds(feed[j.event], next, db)
    PROVE  CalmMove(w, j, next)
<1>1. next \in Step \ {"idle"} /\ next # "return" /\ s \in NotYet /\ next \in NotYet
  BY DEF Early, Finding, Step, NotYet
<1>2. ValueEffect(feed[j.event], next, db')
  BY <1>1 DEF ValueEffect
<1>. QED BY <1>1, <1>2, Unwritten, QuietMove

LEMMA ReadGoes ==
    ASSUME NEW w, NEW s, NEW next, Reads(w, s, next)
    PROVE  Goes(w, next) /\ UNCHANGED <<db, asked>>
BY DEF Reads, Goto, Goes, blocksQueue

LEMMA FindEventMoves ==
    ASSUME NEW w, NEW j, AtCalm(w, j, "findEvent"), FindEvent(w)
    PROVE  \E next : CalmMove(w, j, next)
<1> DEFINE n == j.event
<1>1. /\ feed[n].kind \in KeepsRow \cup {"SCALAR_TRANSFER"} /\ Event(w) = feed[n]
      /\ Indexed(w) <=> db.event[n] # None
      /\ n \in DOMAIN feed
  BY DEF AtCalm, At, Sound, KindSound, Indexed
<1>2. CASE Handled(n)
  <2>1. db.event[n] # None
    <3>1. stage[n] = "done" /\ Consistent(feed, stage, db, asked)
      BY <1>2 DEF AtCalm
    <3>2. Rowed(feed, n, "done")
      BY <1>1 DEF Rowed, NotYet, Early, Finding
    <3>. QED BY <1>1, <3>1, <3>2 DEF Consistent
  <2>2. Goes(w, "return") /\ UNCHANGED <<db, asked>>
    BY <1>1, <2>1, ReadGoes DEF FindEvent
  <2>3. ValueEffect(feed[n], "return", db')
    BY <1>1, <2>2 DEF ValueEffect, Stocks, Votes, KeepsRow
  <2>. QED BY <1>2, <2>2, <2>3, QuietMove DEF Again, Step, ReadHolds
<1>3. CASE ~Handled(n)
  <2>1. db.event[n] = None
    BY <1>3, LeftSoFar DEF Rowed, NotYet, Early, Finding
  <2>2. PICK next \in {"findMinted", "createEvent"} : Reads(w, "findEvent", next)
    BY <1>1, <2>1 DEF FindEvent
  <2>3. Goes(w, next) /\ UNCHANGED <<db, asked>>
    BY <2>2, ReadGoes
  <2>. QED BY <1>3, <2>3, EarlyMove DEF Early, Finding, FirstTime, ReadHolds
<1>. QED BY <1>2, <1>3

(* A pill has a row exactly when an event of it came before.               *)
LEMMA MintCheck ==
    ASSUME RowsMatch, InOrder, NEW w \in Worker, NEW j \in Job, AtCalm(w, j, "findMinted"),
           ~Handled(j.event)
    PROVE  RowsOf(feed[j.event].token) # {} <=> j.event \notin MintsOf(feed)
<1> DEFINE n == j.event  p == feed[n].token  P == Prescriptions(feed, p)
<1>1. /\ n \in DOMAIN feed /\ DOMAIN feed \subseteq 1..MaxLength
      /\ feed[n].kind = "Prescription_Updated" /\ p \in Token /\ running[w] = j
  BY EventFields DEF AtCalm, At, Sound, KindSound
<1>2. n \in P /\ P \subseteq 1..MaxLength /\ p \in Pills(feed)
  BY <1>1 DEF Prescriptions, EventsOf, Pills
<1>3. FirstOf(P) \in P /\ \A m \in P : FirstOf(P) <= m
  BY <1>2, FirstExists
<1>4. n \in MintsOf(feed) <=> n = FirstOf(P)
  BY <1>1, <1>2, MintKind DEF MintsOf
<1>5. db.event[n] = None /\ RowsBefore(n)
  <2>1. db.event[n] = None
    BY LeftSoFar DEF Rowed, NotYet, Early
  <2>. QED BY <1>1, <2>1 DEF InOrder
<1>6. ASSUME n # FirstOf(P)
      PROVE  RowsOf(p) # {}
  <2> DEFINE m == FirstOf(P)
  <2>1. m \in DOMAIN feed /\ m < n /\ feed[m].kind \in KeepsRow /\ feed[m].token = p
    BY <1>2, <1>3, <1>6 DEF Prescriptions, EventsOf, KeepsRow
  <2>. QED BY <1>5, <2>1 DEF RowsBefore, RowsOf
<1>7. ASSUME n = FirstOf(P), NEW m \in RowsOf(p)
      PROVE  FALSE
  <2>1. m \in DOMAIN feed /\ db.event[m] # None /\ feed[m].token = p /\ m \in 1..MaxLength
    BY <1>1 DEF RowsOf
  <2>2. Matches(feed[m].kind, db.event[m])
    BY <2>1 DEF RowsMatch
  <2>3. feed[m].kind \in KeepsRow \cup {"SCALAR_TRANSFER"}
    BY <2>2 DEF Matches, RowType, KeepsRow
  <2>4. feed[m].kind # "SCALAR_TRANSFER"
    BY <1>2, <2>1 DEF AtCalm, PillsHeld, Pills, EventsOf, TraitMoves
  <2>5. \E k \in P : k <= m
    BY <1>2, <2>1, <2>3, <2>4 DEF AtCalm, PillsHeld, Pills, EventsOf
  <2>6. n < m
    BY <1>1, <1>2, <1>3, <1>5, <1>7, <2>1, <2>5
  <2>7. RowsBefore(m)
    BY <2>1 DEF InOrder
  <2>. QED BY <1>1, <1>5, <2>6, <2>7 DEF RowsBefore, KeepsRow
<1>. QED BY <1>4, <1>6, <1>7

LEMMA FindMintedMoves ==
    ASSUME RowsMatch, InOrder, NEW w \in Worker, NEW j \in Job, AtCalm(w, j, "findMinted"),
           FindMinted(w)
    PROVE  \E next : CalmMove(w, j, next)
<1>1. ~Handled(j.event) /\ Event(w) = feed[j.event]
  BY DEF AtCalm, At, Again, Finding, ValueStatements
<1>2. PICK next \in {"createChange", "createMint"} :
         /\ Reads(w, "findMinted", next)
         /\ next = "createChange" <=> j.event \notin MintsOf(feed)
  BY <1>1, MintCheck DEF FindMinted
<1>3. Goes(w, next) /\ UNCHANGED <<db, asked>>
  BY <1>2, ReadGoes
<1>. QED BY <1>1, <1>2, <1>3, EarlyMove DEF Early, Finding, FirstTime, ReadHolds

(* The statements that create the row.                                     *)
LEMMA RowMove ==
    ASSUME NEW w, NEW j, NEW s \in RowStatements, AtCalm(w, j, s), ~Handled(j.event),
           NEW x \in EventType, x = "MINT" <=> j.event \in MintsOf(feed),
           NEW next \in Step \ {"idle"}, Rowed(feed, j.event, next), next \notin Moved,
           Learned(feed, j.event, next) = {}, AskedFor(feed, j.event, next) = {},
           Claims(feed, j.event, next) = {},
           Writes(w, s, WithRow(w, x), next), FirstTime(feed, j.event, next, db'),
           next \notin ValueStatements \cup {"createPower", "return"}
    PROVE  CalmMove(w, j, next)
<1> DEFINE n == j.event
<1>1. /\ running[w] = j /\ n \in DOMAIN feed /\ n \in 1..MaxLength /\ db \in Tables
      /\ Consistent(feed, stage, db, asked) /\ DOMAIN stage = DOMAIN feed /\ stage[n] = s
      /\ s \in NotYet
  BY DEF AtCalm, At, RowStatements, NotYet, Early
<1>2. Goes(w, next) /\ asked' = asked /\ db' = [db EXCEPT !.event[n] = x]
  BY <1>1 DEF Writes, Goto, Goes, blocksQueue, WithRow
<1>3. /\ db'.event = [db.event EXCEPT ![n] = x] /\ DOMAIN db.event = 1..MaxLength
      /\ db'.knownTraits = db.knownTraits /\ db'.backpack = db.backpack
      /\ db'.redemption = db.redemption /\ db'.stock = db.stock /\ db'.vote = db.vote
  BY <1>1, <1>2 DEF Tables
<1>4. /\ \A m \in DOMAIN feed \ {n} : db'.event[m] = db.event[m]
      /\ db'.event[n] = x /\ x # None
  BY <1>1, <1>3, NoneAssumption DEF AtCalm
<1>5. /\ Learned(feed, n, s) = {} /\ AskedFor(feed, n, s) = {} /\ Claims(feed, n, s) = {}
      /\ s \notin Moved
  BY <1>1, Unwritten
<1> DEFINE g == [stage EXCEPT ![n] = next]
<1>6. BackpackIs(feed, g, db')
  <2>1. n \in DOMAIN feed /\ DOMAIN stage = DOMAIN feed /\ (stage[n] \in Moved <=> next \in Moved)
    BY <1>1, <1>5
  <2> HIDE DEF n
  <2>2. \A t : HolderAt(feed, g, t) = HolderAt(feed, stage, t)
    BY <2>1, HolderKept
  <2> HIDE DEF g
  <2>3. \A t \in Token : db.backpack[t] = HolderAt(feed, stage, t)
    BY LeftSoFar
  <2>4. db'.backpack = db.backpack
    BY <1>3
  <2>. QED BY <2>2, <2>3, <2>4 DEF BackpackIs
<1>7. Consistent(feed, g, db', asked')
  <2>1. /\ db'.event[n] # None <=> Rowed(feed, n, next)
        /\ db'.event[n] = "MINT" <=> n \in MintsOf(feed) /\ Rowed(feed, n, next)
    BY <1>4
  <2>2. /\ Learned(feed, n, next) = {} /\ AskedFor(feed, n, next) = {}
        /\ Claims(feed, n, next) = {}
    OBVIOUS
  <2>3. asked'.backpack = asked.backpack
    BY <1>2
  <2> HIDE DEF n
  <2>4. n \in DOMAIN feed /\ Consistent(feed, stage, db, asked) /\ DOMAIN stage = DOMAIN feed
    BY <1>1
  <2>5. /\ Learned(feed, n, stage[n]) \subseteq Learned(feed, n, next)
        /\ AskedFor(feed, n, stage[n]) \subseteq AskedFor(feed, n, next)
        /\ Claims(feed, n, stage[n]) \subseteq Claims(feed, n, next)
    BY <1>1, <1>5
  <2>6. /\ db'.knownTraits = db.knownTraits \cup Learned(feed, n, next)
        /\ asked'.backpack = asked.backpack \cup AskedFor(feed, n, next)
        /\ db'.redemption = db.redemption \cup Claims(feed, n, next)
    BY <1>3, <2>2, <2>3
  <2>7. \A m \in DOMAIN feed \ {n} : db'.event[m] = db.event[m]
    BY <1>4
  <2>. QED BY <1>6, <2>1, <2>4, <2>5, <2>6, <2>7, ConsistentStep
<1>8. ReadHolds(feed[n], next, db') /\ ValueEffect(feed[n], next, db')
  BY <1>3 DEF ReadHolds, ValueEffect, ValueStatements
<1>. QED BY <1>2, <1>7, <1>8 DEF CalmMove

(* The row is not there: the statement is not refused.                     *)
LEMMA RowAccepted ==
    ASSUME NEW w, NEW j, NEW s \in RowStatements, AtCalm(w, j, s)
    PROVE  ~Handled(j.event) /\ ~Indexed(w)
<1>1. ~Handled(j.event) /\ running[w] = j
  BY DEF AtCalm, At, Again, Finding, ValueStatements, RowStatements
<1>2. s \in NotYet
  BY DEF RowStatements, NotYet, Early
<1>. QED BY <1>1, <1>2, LeftSoFar, Unwritten DEF Indexed

LEMMA CreateChangeMoves ==
    ASSUME NEW w, NEW j, AtCalm(w, j, "createChange"), CreateChange(w)
    PROVE  \E next : CalmMove(w, j, next)
<1> DEFINE n == j.event  next == "queueMetadata"
<1>1. /\ ~Handled(n) /\ Writes(w, "createChange", WithRow(w, "CHANGE_ATTRIBUTE"), next)
  BY RowAccepted DEF RowStatements, CreateChange, Inserts
<1>2. n \notin MintsOf(feed) /\ feed[n].kind = "Prescription_Updated"
  BY <1>1 DEF AtCalm, FirstTime, At, Sound, KindSound
<1>3. /\ Learned(feed, n, next) = {} /\ AskedFor(feed, n, next) = {}
      /\ Claims(feed, n, next) = {} /\ Rowed(feed, n, next)
  BY <1>2 DEF Learned, AskedFor, Claims, Rowed, KeepsRow, NotYet, Early, Finding
<1>4. FirstTime(feed, n, next, db') /\ next \notin Moved \cup ValueStatements
  BY DEF FirstTime, Moved, ValueStatements
<1>. QED BY <1>1, <1>2, <1>3, <1>4, RowMove DEF RowStatements, EventType, Step

LEMMA CreateMintMoves ==
    ASSUME NEW w, NEW j, AtCalm(w, j, "createMint"), CreateMint(w)
    PROVE  \E next : CalmMove(w, j, next)
<1> DEFINE n == j.event
<1>1. PICK next \in {"createBG", "createIng", "queueMetadata"} :
         /\ ~Handled(n) /\ Writes(w, "createMint", WithRow(w, "MINT"), next)
         /\ next # "createBG" => feed[n].bg = None
         /\ next = "queueMetadata" => feed[n].ing = None
  <2>1. Event(w) = feed[n]
    BY DEF AtCalm, At
  <2>. QED BY <2>1, RowAccepted DEF RowStatements, CreateMint, Inserts
<1>2. n \in MintsOf(feed) /\ feed[n].kind = "Prescription_Updated"
  BY <1>1 DEF AtCalm, FirstTime, At, Sound, KindSound
<1>3. /\ Learned(feed, n, next) = {} /\ AskedFor(feed, n, next) = {}
      /\ Claims(feed, n, next) = {} /\ Rowed(feed, n, next)
  BY <1>1, <1>2 DEF Learned, AskedFor, Claims, Rowed, KeepsRow, NotYet, Early, Finding
<1>4. FirstTime(feed, n, next, db') /\ next \notin Moved \cup ValueStatements
  BY DEF FirstTime, Moved, ValueStatements
<1>. QED BY <1>1, <1>2, <1>3, <1>4, RowMove DEF RowStatements, EventType, Step

(* Only pills and transfers concern what may be a pill.                    *)
LEMMA NoPill ==
    ASSUME NEW w, NEW j, NEW s, AtCalm(w, j, s),
           feed[j.event].kind \in TraitMoves \ {"Transfer"}
    PROVE  Prescriptions(feed, feed[j.event].token) = {}
<1>1. j.event \in DOMAIN feed /\ feed[j.event].token \in Token
  BY EventFields DEF AtCalm, At
<1>. QED BY <1>1 DEF AtCalm, PillsHeld, EventsOf

LEMMA CreateEventMoves ==
    ASSUME NEW w, NEW j, AtCalm(w, j, "createEvent"), CreateEvent(w)
    PROVE  \E next : CalmMove(w, j, next)
<1> DEFINE n == j.event  kind == feed[n].kind  next == AfterRow(kind)
<1>1. /\ kind \in DOMAIN RowType /\ Event(w) = feed[n] /\ DOMAIN feed \subseteq 1..MaxLength
  BY DEF AtCalm, At, Sound, KindSound
<1>2. ~Handled(n) /\ Writes(w, "createEvent", WithRow(w, RowType[kind]), next)
  BY <1>1, RowAccepted DEF RowStatements, CreateEvent, Inserts
<1>3. next \in {"queueMetadata", "checkIfIsPill", "findBackpack"}
  BY <1>1 DEF AfterRow, RowType
<1>4. n \notin MintsOf(feed) /\ RowType[kind] \in EventType \ {"MINT"}
  BY <1>1, MintKind DEF RowType, EventType
<1>5. /\ Learned(feed, n, next) = {} /\ AskedFor(feed, n, next) = {}
      /\ Claims(feed, n, next) = {} /\ Rowed(feed, n, next)
  <2>1. kind \notin {"Prescription_Updated", "TRAIT_REDEMPTION"}
        /\ kind \in KeepsRow \cup {"SCALAR_TRANSFER"}
    BY <1>1 DEF RowType, KeepsRow
  <2>. QED BY <1>1, <1>3, <2>1, OtherKinds DEF Rowed, NotYet, Early, Finding
<1>6. FirstTime(feed, n, next, db') /\ next \notin Moved \cup ValueStatements
  <2>1. next = "findBackpack" => Prescriptions(feed, feed[n].token) = {}
    <3>1. next = "findBackpack" => kind \in TraitMoves \ {"Transfer"}
      BY <1>1 DEF AfterRow, RowType, TraitMoves
    <3>. QED BY <3>1, NoPill
  <2>. QED BY <1>3, <2>1 DEF FirstTime, Moved, ValueStatements
<1>. QED BY <1>2, <1>3, <1>4, <1>5, <1>6, RowMove DEF RowStatements, Step
-------------------------------------------------------------------------------
(* Pills, pictures and metadata                                            *)

LEMMA NotAgain ==
    ASSUME NEW w, NEW j, NEW s, AtCalm(w, j, s), s \notin Again
    PROVE  /\ ~Handled(j.event) /\ FirstTime(feed, j.event, s, db)
           /\ Frontier(feed, stage, j.event) /\ stage[j.event] = s
           /\ Event(w) = feed[j.event] /\ feed[j.event].token \in Token
           /\ j.event \in DOMAIN feed /\ DOMAIN feed \subseteq 1..MaxLength
           /\ KindSound(feed[j.event].kind, s)
BY EventFields DEF AtCalm, At, Sound

(* A pill that is transferred has its MINT row.                            *)
LEMMA PillCheck ==
    ASSUME NEW w, NEW j, AtCalm(w, j, "checkIfIsPill")
    PROVE  (\E m \in RowsOf(feed[j.event].token) : db.event[m] = "MINT") <=>
              Prescriptions(feed, feed[j.event].token) # {}
<1> DEFINE n == j.event  p == feed[n].token  P == Prescriptions(feed, p)
<1>1. /\ Frontier(feed, stage, n) /\ n \in DOMAIN feed /\ DOMAIN feed \subseteq 1..MaxLength
      /\ feed[n].kind = "Transfer" /\ p \in Token
      /\ Consistent(feed, stage, db, asked) /\ PillsHeld(feed)
  BY NotAgain DEF AtCalm, Again, Finding, ValueStatements, KindSound
<1>2. ASSUME NEW m \in RowsOf(p), db.event[m] = "MINT"
      PROVE  P # {}
  <2>1. m \in DOMAIN feed /\ feed[m].token = p
    BY DEF RowsOf
  <2>2. m \in MintsOf(feed)
    BY <1>1, <1>2, <2>1 DEF Consistent
  <2>3. feed[m].kind = "Prescription_Updated"
    BY <1>1, <2>2, MintKind
  <2>. QED BY <2>1, <2>3 DEF Prescriptions, EventsOf
<1>3. ASSUME P # {}
      PROVE  \E m \in RowsOf(p) : db.event[m] = "MINT"
  <2>1. PICK k \in P : k <= n
    <3>1. n \in EventsOf(feed, KeepsRow, p)
      BY <1>1 DEF EventsOf, KeepsRow
    <3>. QED BY <1>1, <1>3, <3>1 DEF PillsHeld
  <2>2. P \subseteq DOMAIN feed /\ \A m \in P : feed[m].kind = "Prescription_Updated" /\ feed[m].token = p
    BY DEF Prescriptions, EventsOf
  <2> DEFINE m == FirstOf(P)
  <2>3. m \in P /\ m <= k
    BY <1>1, <1>3, <2>2, FirstExists
  <2>4. m \in DOMAIN feed /\ m < n /\ feed[m].token = p /\ feed[m].kind = "Prescription_Updated"
    BY <1>1, <2>1, <2>2, <2>3
  <2>5. stage[m] = "done" /\ m \in MintsOf(feed)
    BY <1>1, <1>3, <2>4 DEF Frontier, MintsOf, Pills
  <2>6. Rowed(feed, m, "done")
    BY <2>4 DEF Rowed, KeepsRow, NotYet, Early, Finding
  <2> HIDE DEF m
  <2>7. db.event[m] = "MINT"
    BY <1>1, <2>4, <2>5, <2>6 DEF Consistent
  <2>. QED BY <2>4, <2>7, NoneAssumption DEF RowsOf, EventType
<1>. QED BY <1>2, <1>3

LEMMA CheckIfIsPillMoves ==
    ASSUME NEW w, NEW j, AtCalm(w, j, "checkIfIsPill"), CheckIfIsPill(w)
    PROVE  \E next : CalmMove(w, j, next)
<1> DEFINE n == j.event  p == feed[n].token
<1>1. /\ ~Handled(n) /\ Event(w) = feed[n] /\ DOMAIN feed \subseteq 1..MaxLength
      /\ feed[n].kind = "Transfer"
  BY NotAgain DEF Again, Finding, ValueStatements, KindSound
<1>2. PICK next \in {"findPicture", "findBackpack"} :
         /\ Reads(w, "checkIfIsPill", next)
         /\ next = "findPicture" <=> Prescriptions(feed, p) # {}
  BY <1>1, PillCheck DEF CheckIfIsPill
<1>3. Goes(w, next) /\ UNCHANGED <<db, asked>>
  BY <1>2, ReadGoes
<1>4. /\ Rowed(feed, n, next) <=> Rowed(feed, n, "checkIfIsPill")
      /\ "checkIfIsPill" \in Moved <=> next \in Moved
      /\ next \in Step \ {"idle"}
  BY DEF Rowed, NotYet, Early, Finding, Moved, Step
<1>5. \A s : /\ Learned(feed, n, s) = {} /\ AskedFor(feed, n, s) = {}
             /\ Claims(feed, n, s) = {}
  BY <1>1, OtherKinds
<1>6. FirstTime(feed, n, next, db') /\ ReadHolds(feed[n], next, db')
  BY <1>2 DEF FirstTime, ReadHolds
<1>7. ValueEffect(feed[n], next, db')
  BY <1>1, <1>3 DEF ValueEffect, Stocks, Votes
<1>. QED BY <1>1, <1>3, <1>4, <1>5, <1>6, <1>7, QuietMove

LEMMA PictureMoves ==
    ASSUME NEW w, NEW j, NEW s \in {"findPicture", "clearPicture"}, AtCalm(w, j, s),
           NEW next \in {"clearPicture", "return"}, Goes(w, next), asked' = asked,
           db' = db \/ \E a, x : db' = [db EXCEPT !.picture[a] = x]
    PROVE  CalmMove(w, j, next)
<1> DEFINE n == j.event  p == feed[n].token
<1>1. /\ ~Handled(n) /\ DOMAIN feed \subseteq 1..MaxLength
      /\ feed[n].kind = "Transfer" /\ Prescriptions(feed, p) # {}
  BY NotAgain DEF Again, Finding, ValueStatements, KindSound, FirstTime
<1>2. /\ db'.event = db.event /\ db'.knownTraits = db.knownTraits
      /\ db'.redemption = db.redemption /\ db'.backpack = db.backpack
      /\ db'.stock = db.stock /\ db'.vote = db.vote
  BY DEF AtCalm, Tables
<1>3. /\ Rowed(feed, n, next) <=> Rowed(feed, n, s)
      /\ next \in Step \ {"idle"}
  BY DEF Rowed, NotYet, Early, Finding, Step
<1>4. \A x : /\ Learned(feed, n, x) = {} /\ AskedFor(feed, n, x) = {}
             /\ Claims(feed, n, x) = {}
  BY <1>1, OtherKinds
<1>5. FirstTime(feed, n, next, db') /\ ReadHolds(feed[n], next, db')
  BY <1>1 DEF FirstTime, ReadHolds
<1>6. ValueEffect(feed[n], next, db')
  BY <1>1, <1>2 DEF ValueEffect, Stocks, Votes
<1>. QED BY <1>1, <1>2, <1>3, <1>4, <1>5, <1>6, QuietMove

LEMMA FindPictureMoves ==
    ASSUME NEW w, NEW j, AtCalm(w, j, "findPicture"), FindPicture(w)
    PROVE  \E next : CalmMove(w, j, next)
<1>1. PICK next \in {"clearPicture", "return"} : Goes(w, next) /\ UNCHANGED <<db, asked>>
  BY DEF FindPicture, Goto, Goes, blocksQueue
<1>. QED BY <1>1, PictureMoves

LEMMA ClearPictureMoves ==
    ASSUME NEW w, NEW j, AtCalm(w, j, "clearPicture"), ClearPicture(w)
    PROVE  \E next : CalmMove(w, j, next)
<1>1. /\ Goes(w, "return") /\ asked' = asked
      /\ db' = [db EXCEPT !.picture[found[w]] = None]
  BY DEF ClearPicture, Writes, Goto, Goes, blocksQueue
<1>. QED BY <1>1, PictureMoves

LEMMA QueueMetadataMoves ==
    ASSUME NEW w, NEW j, AtCalm(w, j, "queueMetadata"), QueueMetadata(w)
    PROVE  \E next : CalmMove(w, j, next)
<1> DEFINE n == j.event
<1>1. /\ ~Handled(n) /\ DOMAIN feed \subseteq 1..MaxLength
      /\ feed[n].kind \in {"Prescription_Updated", "PILL_FAME_UPDATED", "PILL_DEFAME_UPDATED"}
  BY NotAgain DEF Again, Finding, ValueStatements, KindSound
<1>2. /\ Goes(w, "return") /\ db' = db /\ asked'.backpack = asked.backpack
  BY DEF QueueMetadata, Asks, Goto, Goes, blocksQueue, AtCalm
<1>3. /\ Rowed(feed, n, "return") <=> Rowed(feed, n, "queueMetadata")
      /\ Learned(feed, n, "return") = Learned(feed, n, "queueMetadata")
      /\ AskedFor(feed, n, "return") = AskedFor(feed, n, "queueMetadata")
      /\ Claims(feed, n, "return") = Claims(feed, n, "queueMetadata")
  BY <1>1 DEF Rowed, NotYet, Early, Finding, Learned, AskedFor, Claims
<1>4. /\ FirstTime(feed, n, "return", db') /\ ReadHolds(feed[n], "return", db')
      /\ feed[n].kind \notin TraitMoves
  BY <1>1 DEF FirstTime, ReadHolds, TraitMoves
<1>5. ValueEffect(feed[n], "return", db')
  BY <1>1, <1>2 DEF ValueEffect, Stocks, Votes
<1>. QED BY <1>1, <1>2, <1>3, <1>4, <1>5, QuietMove DEF Step
-------------------------------------------------------------------------------
(* Statements that leave something                                         *)

Leaves(n, s, next) ==
    /\ db'.event = db.event
    /\ Rowed(feed, n, next) <=> Rowed(feed, n, s)
    /\ Learned(feed, n, s) \subseteq Learned(feed, n, next)
    /\ db'.knownTraits = db.knownTraits \cup Learned(feed, n, next)
    /\ AskedFor(feed, n, s) \subseteq AskedFor(feed, n, next)
    /\ asked'.backpack = asked.backpack \cup AskedFor(feed, n, next)
    /\ Claims(feed, n, s) \subseteq Claims(feed, n, next)
    /\ db'.redemption = db.redemption \cup Claims(feed, n, next)
    /\ \A t \in Token : db'.backpack[t] = HolderAt(feed, [stage EXCEPT ![n] = next], t)

LEMMA LeavingMove ==
    ASSUME NEW w, NEW j, NEW s, AtCalm(w, j, s), ~Handled(j.event),
           NEW next \in Step \ {"idle"}, Goes(w, next), Leaves(j.event, s, next),
           FirstTime(feed, j.event, next, db'), ReadHolds(feed[j.event], next, db'),
           ValueEffect(feed[j.event], next, db')
    PROVE  CalmMove(w, j, next)
<1> DEFINE n == j.event
<1>1. /\ n \in DOMAIN feed /\ Consistent(feed, stage, db, asked) /\ DOMAIN stage = DOMAIN feed
      /\ stage[n] = s /\ Leaves(n, s, next)
  BY DEF AtCalm, At
<1> HIDE DEF n
<1>2. Consistent(feed, [stage EXCEPT ![n] = next], db', asked')
  <2>1. /\ db'.event[n] # None <=> Rowed(feed, n, next)
        /\ db'.event[n] = "MINT" <=> n \in MintsOf(feed) /\ Rowed(feed, n, next)
        /\ \A m \in DOMAIN feed \ {n} : db'.event[m] = db.event[m]
    BY <1>1 DEF Leaves, Consistent
  <2>2. /\ Learned(feed, n, stage[n]) \subseteq Learned(feed, n, next)
        /\ AskedFor(feed, n, stage[n]) \subseteq AskedFor(feed, n, next)
        /\ Claims(feed, n, stage[n]) \subseteq Claims(feed, n, next)
        /\ db'.knownTraits = db.knownTraits \cup Learned(feed, n, next)
        /\ asked'.backpack = asked.backpack \cup AskedFor(feed, n, next)
        /\ db'.redemption = db.redemption \cup Claims(feed, n, next)
        /\ BackpackIs(feed, [stage EXCEPT ![n] = next], db')
    BY <1>1 DEF Leaves, BackpackIs
  <2>3. n \in DOMAIN feed /\ Consistent(feed, stage, db, asked) /\ DOMAIN stage = DOMAIN feed
    BY <1>1
  <2>. QED BY <2>1, <2>2, <2>3, ConsistentStep
<1>. QED BY <1>2 DEF CalmMove, n

(* The backpack is as it was.                                              *)
LEMMA BackpackKept ==
    ASSUME NEW w, NEW j, NEW s, AtCalm(w, j, s), ~Handled(j.event), NEW next,
           db'.backpack = db.backpack,
           \/ s \in Moved <=> next \in Moved
           \/ feed[j.event].kind \notin TraitMoves
           \/ Prescriptions(feed, feed[j.event].token) # {}
    PROVE  \A t \in Token : db'.backpack[t] = HolderAt(feed, [stage EXCEPT ![j.event] = next], t)
<1> DEFINE n == j.event  g == [stage EXCEPT ![n] = next]
<1>1. /\ n \in DOMAIN feed /\ DOMAIN stage = DOMAIN feed
      /\ \/ stage[n] \in Moved <=> next \in Moved
         \/ feed[n].kind \notin TraitMoves
         \/ Prescriptions(feed, feed[n].token) # {}
  BY DEF AtCalm, At
<1>2. \A t \in Token : db'.backpack[t] = HolderAt(feed, stage, t)
  BY LeftSoFar
<1> HIDE DEF n
<1>3. \A t : HolderAt(feed, g, t) = HolderAt(feed, stage, t)
  BY <1>1, HolderKept
<1> HIDE DEF g
<1>4. \A t \in Token : db'.backpack[t] = HolderAt(feed, g, t)
  BY <1>2, <1>3
<1>. QED BY <1>4 DEF g, n
-------------------------------------------------------------------------------
(* The backpack                                                            *)

Moving == {"findBackpack", "updateBackpack", "createBackpack", "deleteBackpack"}

LEMMA BackpackSoFar ==
    ASSUME NEW w, NEW j, NEW s, AtCalm(w, j, s), ~Handled(j.event), s \notin Moved,
           NEW t \in Token, Prescriptions(feed, t) = {}
    PROVE  db.backpack[t] = HolderAfter(feed, j.event - 1, t)
<1>1. Frontier(feed, stage, j.event) /\ stage[j.event] \notin Moved
  BY DEF AtCalm
<1>2. HolderAt(feed, stage, t) = HolderAfter(feed, j.event - 1, t)
  BY <1>1, HolderSoFar
<1>. QED BY <1>2, LeftSoFar

LEMMA TraitAt ==
    ASSUME NEW w, NEW j, NEW s \in Moving, AtCalm(w, j, s)
    PROVE  /\ ~Handled(j.event) /\ feed[j.event].kind \in TraitMoves
           /\ Prescriptions(feed, feed[j.event].token) = {}
           /\ j.event \in EventsOf(feed, TraitMoves, feed[j.event].token)
           /\ feed[j.event].token \in Token /\ s \notin Moved /\ j.event \notin MintsOf(feed)
           /\ db.backpack[feed[j.event].token] =
                 HolderAfter(feed, j.event - 1, feed[j.event].token)
<1>1. /\ ~Handled(j.event) /\ FirstTime(feed, j.event, s, db) /\ j.event \in DOMAIN feed
      /\ feed[j.event].token \in Token /\ KindSound(feed[j.event].kind, s)
      /\ DOMAIN feed \subseteq 1..MaxLength
  BY NotAgain DEF Moving, Again, Finding, ValueStatements
<1>2. feed[j.event].kind \in TraitMoves /\ Prescriptions(feed, feed[j.event].token) = {}
  BY <1>1 DEF Moving, FirstTime, KindSound, TraitMoves
<1>3. s \notin Moved
  BY DEF Moving, Moved
<1>4. j.event \notin MintsOf(feed)
  BY <1>1, <1>2, MintKind DEF TraitMoves
<1>5. j.event \in EventsOf(feed, TraitMoves, feed[j.event].token)
  BY <1>1, <1>2 DEF EventsOf
<1>. QED BY <1>1, <1>2, <1>3, <1>4, <1>5, BackpackSoFar

(* What the events on the way to the backpack leave elsewhere stays.       *)
LEMMA TraitLeaves ==
    ASSUME NEW w, NEW j, NEW s \in Moving, AtCalm(w, j, s),
           NEW next \in Moving \cup {"return", "queueTrait"},
           feed[j.event].kind = "TRAIT_REDEMPTION" => s = "createBackpack" /\ next = "queueTrait"
    PROVE  /\ Rowed(feed, j.event, next) <=> Rowed(feed, j.event, s)
           /\ Learned(feed, j.event, next) = Learned(feed, j.event, s)
           /\ AskedFor(feed, j.event, next) = AskedFor(feed, j.event, s)
           /\ Claims(feed, j.event, next) = Claims(feed, j.event, s)
<1>1. /\ ~Handled(j.event) /\ feed[j.event].kind \in TraitMoves /\ j.event \notin MintsOf(feed)
  BY TraitAt
<1>2. /\ s \notin NotYet /\ next \notin NotYet
      /\ s # "return" /\ s # "done" /\ next # "done"
  BY DEF Moving, NotYet, Early, Finding
<1>3. CASE feed[j.event].kind = "TRAIT_REDEMPTION"
  BY <1>1, <1>2, <1>3 DEF Rowed, Learned, AskedFor, Claims, Moved
<1>4. CASE feed[j.event].kind # "TRAIT_REDEMPTION"
  BY <1>1, <1>2, <1>4 DEF Rowed, Learned, AskedFor, Claims
<1>. QED BY <1>3, <1>4

LEMMA OwnerMove ==
    ASSUME NEW w, NEW j, NEW s \in Moving, AtCalm(w, j, s),
           NEW next \in {"return", "queueTrait"}, Goes(w, next), asked' = asked,
           feed[j.event].kind = "TRAIT_REDEMPTION" => s = "createBackpack" /\ next = "queueTrait",
           db' = [db EXCEPT !.backpack[feed[j.event].token] =
                    IF feed[j.event].kind = "SCALAR_TRANSFER" THEN None ELSE feed[j.event].to]
    PROVE  CalmMove(w, j, next)
<1> DEFINE n == j.event  p == feed[n].token  g == [stage EXCEPT ![n] = next]
<1>1. /\ db'.event = db.event /\ db'.knownTraits = db.knownTraits
      /\ db'.redemption = db.redemption /\ db'.stock = db.stock /\ db'.vote = db.vote
      /\ db'.backpack = [db.backpack EXCEPT ![p] =
             IF feed[n].kind = "SCALAR_TRANSFER" THEN None ELSE feed[n].to]
      /\ DOMAIN db.backpack = Token
  BY DEF AtCalm, Tables
<1>2. /\ ~Handled(n) /\ feed[n].kind \in TraitMoves /\ p \in Token
      /\ Prescriptions(feed, p) = {}
  BY TraitAt
<1>3. Frontier(feed, stage, n) /\ next \in Moved
  BY <1>2 DEF AtCalm, Moved
<1>4. \A t \in Token : db.backpack[t] = HolderAt(feed, stage, t)
  BY <1>2, LeftSoFar
<1>5. \A t \in Token : db'.backpack[t] = HolderAt(feed, g, t)
  <2> HIDE DEF n
  <2>1. \A t : HolderAt(feed, g, t) =
           IF t # p THEN HolderAt(feed, stage, t)
           ELSE IF feed[n].kind = "SCALAR_TRANSFER" THEN None ELSE feed[n].to
    BY <1>2, <1>3, HolderMoves
  <2> HIDE DEF g, p
  <2>. QED BY <1>1, <1>4, <2>1
<1>6. Leaves(n, s, next)
  <2>1. /\ Learned(feed, n, s) \subseteq db.knownTraits
        /\ AskedFor(feed, n, s) \subseteq asked.backpack
        /\ Claims(feed, n, s) \subseteq db.redemption
    BY <1>2, LeftSoFar
  <2>2. /\ Rowed(feed, n, next) <=> Rowed(feed, n, s)
        /\ Learned(feed, n, next) = Learned(feed, n, s)
        /\ AskedFor(feed, n, next) = AskedFor(feed, n, s)
        /\ Claims(feed, n, next) = Claims(feed, n, s)
    BY TraitLeaves
  <2>. QED BY <1>1, <1>5, <2>1, <2>2 DEF Leaves
<1>7. FirstTime(feed, n, next, db') /\ ReadHolds(feed[n], next, db')
  BY DEF FirstTime, ReadHolds
<1>8. ValueEffect(feed[n], next, db')
  BY <1>1, <1>2 DEF ValueEffect, Stocks, Votes, TraitMoves
<1>. QED BY <1>2, <1>6, <1>7, <1>8, LeavingMove DEF Step

LEMMA FindBackpackMoves ==
    ASSUME NEW w, NEW j, AtCalm(w, j, "findBackpack"), FindBackpack(w)
    PROVE  \E next : CalmMove(w, j, next)
<1> DEFINE n == j.event  kind == feed[n].kind  p == feed[n].token
<1>1. /\ ~Handled(n) /\ kind \in {"Transfer", "SCALAR_REMOVE", "SCALAR_TRANSFER"}
      /\ Event(w) = feed[n] /\ n \in EventsOf(feed, TraitMoves, p) /\ p \in Token
      /\ Prescriptions(feed, p) = {} /\ db.backpack[p] = HolderAfter(feed, n - 1, p)
      /\ TraitsHeld(feed)
  BY TraitAt, NotAgain DEF Moving, Again, Finding, ValueStatements, KindSound, AtCalm
<1>2. db.backpack[p] # None => kind # "SCALAR_REMOVE"
  BY <1>1 DEF TraitsHeld
<1>3. PICK next \in Moving \cup {"return"} :
         /\ Reads(w, "findBackpack", next)
         /\ next = "return" => kind = "SCALAR_TRANSFER" /\ db.backpack[p] = None
         /\ next \in {"updateBackpack", "deleteBackpack"} => db.backpack[p] # None
         /\ next = "createBackpack" => db.backpack[p] = None
  BY <1>1, <1>2 DEF FindBackpack, Moving
<1>4. Goes(w, next) /\ UNCHANGED <<db, asked>>
  BY <1>3, ReadGoes
<1>5. CASE next = "return"
  <2>1. db' = [db EXCEPT !.backpack[p] = None]
    <3>1. db \in Tables
      BY DEF AtCalm
    <3>2. db.backpack = [db.backpack EXCEPT ![p] = None]
      BY <1>1, <1>3, <1>5, <3>1 DEF Tables
    <3>. QED BY <1>4, <3>1, <3>2 DEF Tables
  <2>. QED BY <1>3, <1>4, <1>5, <2>1, OwnerMove DEF Moving
<1>6. CASE next # "return"
  <2>1. /\ Rowed(feed, n, next) <=> Rowed(feed, n, "findBackpack")
        /\ Learned(feed, n, next) = Learned(feed, n, "findBackpack")
        /\ AskedFor(feed, n, next) = AskedFor(feed, n, "findBackpack")
        /\ Claims(feed, n, next) = Claims(feed, n, "findBackpack")
    BY <1>1, TraitLeaves DEF Moving
  <2>2. ("findBackpack" \in Moved <=> next \in Moved) /\ next \in Step \ {"idle"}
    BY <1>6 DEF Moving, Moved, Step
  <2>3. FirstTime(feed, n, next, db') /\ ReadHolds(feed[n], next, db')
    BY <1>1, <1>3, <1>4, <1>6 DEF FirstTime, ReadHolds, Moving
  <2>4. ValueEffect(feed[n], next, db')
    BY <1>4, <1>6 DEF ValueEffect
  <2>. QED BY <1>1, <1>4, <2>1, <2>2, <2>3, <2>4, QuietMove
<1>. QED BY <1>5, <1>6

LEMMA UpdateBackpackMoves ==
    ASSUME NEW w, NEW j, AtCalm(w, j, "updateBackpack"), UpdateBackpack(w)
    PROVE  \E next : CalmMove(w, j, next)
<1>1. /\ Event(w) = feed[j.event] /\ feed[j.event].kind = "Transfer"
      /\ db.backpack[feed[j.event].token] # None
  BY NotAgain DEF FirstTime, Again, Finding, ValueStatements, KindSound
<1>2. Writes(w, "updateBackpack", WithOwner(w, feed[j.event].to), "return")
  BY <1>1 DEF UpdateBackpack, Changes, Inserts, InBackpack
<1>3. /\ Goes(w, "return") /\ asked' = asked
      /\ db' = [db EXCEPT !.backpack[feed[j.event].token] = feed[j.event].to]
  BY <1>1, <1>2 DEF Writes, WithOwner, Goto, Goes, blocksQueue
<1>. QED BY <1>1, <1>3, OwnerMove DEF Moving

LEMMA DeleteBackpackMoves ==
    ASSUME NEW w, NEW j, AtCalm(w, j, "deleteBackpack"), DeleteBackpack(w)
    PROVE  \E next : CalmMove(w, j, next)
<1>1. /\ Event(w) = feed[j.event] /\ feed[j.event].kind = "SCALAR_TRANSFER"
      /\ db.backpack[feed[j.event].token] # None
  BY NotAgain DEF FirstTime, Again, Finding, ValueStatements, KindSound
<1>2. Writes(w, "deleteBackpack", WithOwner(w, None), "return")
  BY <1>1 DEF DeleteBackpack, Changes, Inserts, InBackpack
<1>3. /\ Goes(w, "return") /\ asked' = asked
      /\ db' = [db EXCEPT !.backpack[feed[j.event].token] = None]
  BY <1>1, <1>2 DEF Writes, WithOwner, Goto, Goes, blocksQueue
<1>. QED BY <1>1, <1>3, OwnerMove DEF Moving

LEMMA CreateBackpackMoves ==
    ASSUME NEW w, NEW j, AtCalm(w, j, "createBackpack"), CreateBackpack(w)
    PROVE  \E next : CalmMove(w, j, next)
<1>1. /\ Event(w) = feed[j.event]
      /\ feed[j.event].kind \in {"Transfer", "SCALAR_REMOVE", "TRAIT_REDEMPTION"}
      /\ db.backpack[feed[j.event].token] = None
  BY NotAgain DEF FirstTime, Again, Finding, ValueStatements, KindSound
<1>2. PICK next \in {"return", "queueTrait"} :
         /\ Writes(w, "createBackpack", WithOwner(w, feed[j.event].to), next)
         /\ feed[j.event].kind = "TRAIT_REDEMPTION" => next = "queueTrait"
  BY <1>1 DEF CreateBackpack, Inserts, InBackpack
<1>3. /\ Goes(w, next) /\ asked' = asked
      /\ db' = [db EXCEPT !.backpack[feed[j.event].token] = feed[j.event].to]
  BY <1>1, <1>2 DEF Writes, WithOwner, Goto, Goes, blocksQueue
<1>. QED BY <1>1, <1>2, <1>3, OwnerMove DEF Moving
-------------------------------------------------------------------------------
(* Redemptions                                                             *)

Redeeming == {"findRedemption", "createRedemption", "findKnown", "createKnown", "queueTrait"}

(* A trait is redeemed once, and no pill comes with it.                    *)
LEMMA RedeemedAt ==
    ASSUME NEW w, NEW j, NEW s \in Redeeming, AtCalm(w, j, s)
    PROVE  /\ feed[j.event].kind = "TRAIT_REDEMPTION" /\ Event(w) = feed[j.event]
           /\ feed[j.event].token \in Token /\ j.event \notin MintsOf(feed)
           /\ \A m \in MintsOf(feed) : feed[j.event].token \notin Traits(feed[m])
           /\ \A m \in EventsOf(feed, TraitMoves, feed[j.event].token) : j.event <= m
           /\ \A m \in DOMAIN feed :
                 feed[m].kind = "TRAIT_REDEMPTION" /\ feed[m].token = feed[j.event].token =>
                    m = j.event
           /\ Prescriptions(feed, feed[j.event].token) = {}
<1>1. /\ feed[j.event].kind = "TRAIT_REDEMPTION" /\ Event(w) = feed[j.event]
      /\ feed[j.event].token \in Token /\ j.event \in DOMAIN feed
      /\ DOMAIN feed \subseteq 1..MaxLength /\ TraitsHeld(feed)
  BY EventFields DEF AtCalm, At, Sound, KindSound, Redeeming
<1>2. j.event \notin MintsOf(feed)
  BY <1>1, MintKind
<1>3. /\ \A m \in MintsOf(feed) : feed[j.event].token \notin Traits(feed[m])
      /\ \A m \in EventsOf(feed, TraitMoves, feed[j.event].token) : j.event <= m
  BY <1>1 DEF TraitsHeld
<1>4. ASSUME NEW m \in DOMAIN feed, feed[m].kind = "TRAIT_REDEMPTION",
             feed[m].token = feed[j.event].token
      PROVE  m = j.event
  <2>1. m \in EventsOf(feed, TraitMoves, feed[j.event].token)
    BY <1>4 DEF EventsOf, TraitMoves
  <2>2. j.event \in EventsOf(feed, TraitMoves, feed[m].token)
    BY <1>1, <1>4 DEF EventsOf, TraitMoves
  <2>3. m <= j.event
    BY <1>1, <1>4, <2>2 DEF TraitsHeld
  <2>. QED BY <1>1, <1>3, <2>1, <2>3
<1>5. Prescriptions(feed, feed[j.event].token) = {}
  BY <1>1, NoPill DEF TraitMoves
<1>. QED BY <1>1, <1>2, <1>3, <1>4, <1>5

LEMMA RedemptionCheck ==
    ASSUME NEW w, NEW j, NEW s \in Redeeming, AtCalm(w, j, s), ~Handled(j.event)
    PROVE  /\ Redemption(w) \in db.redemption <=> s \notin NotYet
           /\ feed[j.event].token \in db.knownTraits <=> s = "queueTrait"
<1> DEFINE n == j.event  p == feed[n].token
<1>1. /\ feed[n].kind = "TRAIT_REDEMPTION" /\ Redemption(w) = <<feed[n].value, p>>
      /\ n \notin MintsOf(feed) /\ \A m \in MintsOf(feed) : p \notin Traits(feed[m])
      /\ \A m \in DOMAIN feed :
            feed[m].kind = "TRAIT_REDEMPTION" /\ feed[m].token = p => m = n
  BY RedeemedAt DEF Redemption
<1>2. /\ Consistent(feed, stage, db, asked) /\ stage[n] = s /\ n \in DOMAIN feed
  BY DEF AtCalm, At
<1>3. Redemption(w) \in db.redemption <=> \E m \in DOMAIN feed : Redemption(w) \in Claims(feed, m, stage[m])
  BY <1>2 DEF Consistent
<1>4. \A m \in DOMAIN feed : Redemption(w) \in Claims(feed, m, stage[m]) => m = n
  BY <1>1 DEF Claims
<1>5. Redemption(w) \in Claims(feed, n, s) <=> s \notin NotYet
  BY <1>1 DEF Claims
<1>6. p \in db.knownTraits <=> \E m \in DOMAIN feed : p \in Learned(feed, m, stage[m])
  BY <1>2 DEF Consistent
<1>7. \A m \in DOMAIN feed : p \in Learned(feed, m, stage[m]) => m = n
  BY <1>1 DEF Learned, Traits
<1>8. p \in Learned(feed, n, s) <=> s = "queueTrait"
  <2>1. s \in Moved \cup {"createBackpack"} <=> s = "queueTrait"
    BY DEF Redeeming, Moved
  <2>. QED BY <1>1, <2>1 DEF Learned
<1> HIDE DEF n
<1>9. Redemption(w) \in db.redemption <=> s \notin NotYet
  BY <1>2, <1>3, <1>4, <1>5
<1>10. p \in db.knownTraits <=> s = "queueTrait"
  BY <1>2, <1>6, <1>7, <1>8
<1>. QED BY <1>9, <1>10 DEF n

LEMMA FindRedemptionMoves ==
    ASSUME NEW w, NEW j, AtCalm(w, j, "findRedemption"), FindRedemption(w)
    PROVE  \E next : CalmMove(w, j, next)
<1> DEFINE n == j.event
<1>1. /\ feed[n].kind = "TRAIT_REDEMPTION" /\ Event(w) = feed[n] /\ n \notin MintsOf(feed)
      /\ n \in DOMAIN feed
  BY RedeemedAt DEF Redeeming, AtCalm, At
<1>2. CASE Handled(n)
  <2>1. <<feed[n].value, feed[n].token>> \in db.redemption
    <3>1. stage[n] = "done" /\ Consistent(feed, stage, db, asked)
      BY <1>2 DEF AtCalm
    <3>2. <<feed[n].value, feed[n].token>> \in Claims(feed, n, "done")
      BY <1>1 DEF Claims, NotYet, Early, Finding
    <3>. QED BY <1>1, <3>1, <3>2 DEF Consistent
  <2>2. Goes(w, "return") /\ UNCHANGED <<db, asked>>
    BY <1>1, <2>1, ReadGoes DEF FindRedemption, Redemption
  <2>3. ValueEffect(feed[n], "return", db')
    BY <1>1, <2>2 DEF ValueEffect, Stocks, Votes
  <2>. QED BY <1>2, <2>2, <2>3, QuietMove DEF Again, Step, ReadHolds
<1>3. CASE ~Handled(n)
  <2>1. Redemption(w) \notin db.redemption
    BY <1>3, RedemptionCheck DEF Redeeming, NotYet, Early, Finding
  <2>2. Goes(w, "createRedemption") /\ UNCHANGED <<db, asked>>
    BY <2>1, ReadGoes DEF FindRedemption
  <2>. QED BY <1>3, <2>2, EarlyMove DEF Early, Finding, FirstTime, ReadHolds
<1>. QED BY <1>2, <1>3

LEMMA FindKnownMoves ==
    ASSUME NEW w, NEW j, AtCalm(w, j, "findKnown"), FindKnown(w)
    PROVE  \E next : CalmMove(w, j, next)
<1> DEFINE n == j.event
<1>1. /\ feed[n].kind = "TRAIT_REDEMPTION" /\ Event(w) = feed[n] /\ n \notin MintsOf(feed)
      /\ ~Handled(n)
  BY RedeemedAt DEF Redeeming, AtCalm, Again, Finding, ValueStatements
<1>2. feed[n].token \notin db.knownTraits
  BY <1>1, RedemptionCheck DEF Redeeming
<1>3. Goes(w, "createKnown") /\ UNCHANGED <<db, asked>>
  BY <1>1, <1>2, ReadGoes DEF FindKnown
<1>4. /\ Rowed(feed, n, "createKnown") <=> Rowed(feed, n, "findKnown")
      /\ Learned(feed, n, "createKnown") = Learned(feed, n, "findKnown")
      /\ AskedFor(feed, n, "createKnown") = AskedFor(feed, n, "findKnown")
      /\ Claims(feed, n, "createKnown") = Claims(feed, n, "findKnown")
      /\ "findKnown" \in Moved <=> "createKnown" \in Moved
  BY <1>1 DEF Rowed, NotYet, Early, Finding, Learned, AskedFor, Claims, Moved
<1>5. /\ FirstTime(feed, n, "createKnown", db') /\ ReadHolds(feed[n], "createKnown", db')
      /\ ValueEffect(feed[n], "createKnown", db')
  BY <1>3 DEF FirstTime, ReadHolds, ValueEffect
<1>. QED BY <1>1, <1>3, <1>4, <1>5, QuietMove DEF Step

LEMMA CreateRedemptionMoves ==
    ASSUME NEW w, NEW j, AtCalm(w, j, "createRedemption"), CreateRedemption(w)
    PROVE  \E next : CalmMove(w, j, next)
<1> DEFINE n == j.event  s == "createRedemption"  next == "findKnown"
<1>1. /\ feed[n].kind = "TRAIT_REDEMPTION" /\ Event(w) = feed[n] /\ n \notin MintsOf(feed)
      /\ ~Handled(n) /\ Redemption(w) = <<feed[n].value, feed[n].token>>
  BY RedeemedAt DEF Redeeming, AtCalm, Again, Finding, ValueStatements, Redemption
<1>2. Redemption(w) \notin db.redemption
  BY <1>1, RedemptionCheck DEF Redeeming, NotYet, Early
<1>3. /\ Goes(w, next) /\ asked' = asked
      /\ db' = [db EXCEPT !.redemption = db.redemption \cup {Redemption(w)}]
  BY <1>2 DEF CreateRedemption, Inserts, Writes, Goto, Goes, blocksQueue
<1>4. /\ db'.event = db.event /\ db'.knownTraits = db.knownTraits
      /\ db'.redemption = db.redemption \cup {Redemption(w)}
      /\ db'.backpack = db.backpack /\ db'.stock = db.stock /\ db'.vote = db.vote
  BY <1>3 DEF AtCalm, Tables
<1>5. /\ Learned(feed, n, s) = {} /\ AskedFor(feed, n, s) = {} /\ Claims(feed, n, s) = {}
      /\ ~Rowed(feed, n, s)
  BY Unwritten DEF NotYet, Early
<1>6. /\ Learned(feed, n, next) = {} /\ AskedFor(feed, n, next) = {}
      /\ Claims(feed, n, next) = {Redemption(w)} /\ ~Rowed(feed, n, next)
      /\ s \in Moved <=> next \in Moved
  BY <1>1 DEF Rowed, KeepsRow, NotYet, Early, Finding, Learned, AskedFor, Claims, Moved
<1>7. \A t \in Token : db'.backpack[t] = HolderAt(feed, [stage EXCEPT ![n] = next], t)
  BY <1>1, <1>4, <1>6, BackpackKept
<1>8. Leaves(n, s, next)
  BY <1>3, <1>4, <1>5, <1>6, <1>7 DEF Leaves
<1>9. /\ FirstTime(feed, n, next, db') /\ ReadHolds(feed[n], next, db')
      /\ ValueEffect(feed[n], next, db')
  BY <1>4 DEF FirstTime, ReadHolds, ValueEffect
<1>. QED BY <1>1, <1>3, <1>8, <1>9, LeavingMove DEF Step

LEMMA CreateKnownMoves ==
    ASSUME NEW w, NEW j, AtCalm(w, j, "createKnown"), CreateKnown(w)
    PROVE  \E next : CalmMove(w, j, next)
<1> DEFINE n == j.event  s == "createKnown"  next == "createBackpack"  p == feed[n].token
<1>1. /\ feed[n].kind = "TRAIT_REDEMPTION" /\ Event(w) = feed[n] /\ n \notin MintsOf(feed)
      /\ ~Handled(n) /\ Prescriptions(feed, p) = {} /\ p \in Token
      /\ \A m \in EventsOf(feed, TraitMoves, p) : n <= m
  BY RedeemedAt DEF Redeeming, AtCalm, Again, Finding, ValueStatements
<1>2. p \notin db.knownTraits
  BY <1>1, RedemptionCheck DEF Redeeming
<1>3. /\ Goes(w, next) /\ asked' = asked
      /\ db' = [db EXCEPT !.knownTraits = db.knownTraits \cup {p}]
  BY <1>1, <1>2 DEF CreateKnown, WithTrait, Inserts, Writes, Goto, Goes, blocksQueue
<1>4. /\ db'.event = db.event /\ db'.knownTraits = db.knownTraits \cup {p}
      /\ db'.redemption = db.redemption
      /\ db'.backpack = db.backpack /\ db'.stock = db.stock /\ db'.vote = db.vote
  BY <1>3 DEF AtCalm, Tables
<1>5. /\ Learned(feed, n, s) = {} /\ AskedFor(feed, n, s) = {}
      /\ Learned(feed, n, next) = {p} /\ AskedFor(feed, n, next) = {}
      /\ Claims(feed, n, next) = Claims(feed, n, s)
      /\ Rowed(feed, n, next) <=> Rowed(feed, n, s)
      /\ s \in Moved <=> next \in Moved
  BY <1>1 DEF Rowed, KeepsRow, NotYet, Early, Finding, Learned, AskedFor, Claims, Moved
<1>6. Claims(feed, n, s) \subseteq db.redemption
  BY <1>1, LeftSoFar
<1>7. \A t \in Token : db'.backpack[t] = HolderAt(feed, [stage EXCEPT ![n] = next], t)
  BY <1>1, <1>4, <1>5, BackpackKept
<1>8. Leaves(n, s, next)
  BY <1>3, <1>4, <1>5, <1>6, <1>7 DEF Leaves
<1>9. db.backpack[p] = None
  <2>1. db.backpack[p] = HolderAfter(feed, n - 1, p)
    BY <1>1, BackpackSoFar DEF Moved
  <2>2. {m \in EventsOf(feed, TraitMoves, p) : m <= n - 1} = {}
    <3>1. n \in 1..MaxLength /\ DOMAIN feed \subseteq 1..MaxLength
      BY DEF AtCalm, At
    <3>2. EventsOf(feed, TraitMoves, p) \subseteq 1..MaxLength
      BY <3>1 DEF EventsOf
    <3>. QED BY <1>1, <3>1, <3>2
  <2>. QED BY <2>1, <2>2 DEF HolderAfter
<1>10. /\ FirstTime(feed, n, next, db') /\ ReadHolds(feed[n], next, db')
       /\ ValueEffect(feed[n], next, db')
  BY <1>1, <1>4, <1>9 DEF FirstTime, ReadHolds, ValueEffect
<1>. QED BY <1>1, <1>3, <1>8, <1>10, LeavingMove DEF Step

LEMMA QueueTraitMoves ==
    ASSUME NEW w, NEW j, AtCalm(w, j, "queueTrait"), QueueTrait(w)
    PROVE  \E next : CalmMove(w, j, next)
<1> DEFINE n == j.event  s == "queueTrait"  next == "return"  p == feed[n].token
<1>1. /\ feed[n].kind = "TRAIT_REDEMPTION" /\ Event(w) = feed[n] /\ n \notin MintsOf(feed)
      /\ ~Handled(n)
  BY RedeemedAt DEF Redeeming, AtCalm, Again, Finding, ValueStatements
<1>2. /\ Goes(w, next) /\ db' = db /\ asked'.backpack = asked.backpack \cup {p}
  BY <1>1 DEF QueueTrait, Asks, Goto, Goes, blocksQueue, AtCalm
<1>3. /\ Learned(feed, n, next) = Learned(feed, n, s) /\ AskedFor(feed, n, s) = {}
      /\ AskedFor(feed, n, next) = {p} /\ Claims(feed, n, next) = Claims(feed, n, s)
      /\ Rowed(feed, n, next) <=> Rowed(feed, n, s)
      /\ s \in Moved <=> next \in Moved
  BY <1>1 DEF Rowed, KeepsRow, NotYet, Early, Finding, Learned, AskedFor, Claims, Moved
<1>4. /\ Claims(feed, n, s) \subseteq db.redemption
      /\ Learned(feed, n, s) \subseteq db.knownTraits
  BY <1>1, LeftSoFar
<1>5. \A t \in Token : db'.backpack[t] = HolderAt(feed, [stage EXCEPT ![n] = next], t)
  BY <1>1, <1>2, <1>3, BackpackKept
<1>6. Leaves(n, s, next)
  BY <1>2, <1>3, <1>4, <1>5 DEF Leaves
<1>7. /\ FirstTime(feed, n, next, db') /\ ReadHolds(feed[n], next, db')
      /\ ValueEffect(feed[n], next, db')
  BY <1>1, <1>2 DEF FirstTime, ReadHolds, ValueEffect, Stocks, Votes
<1>. QED BY <1>1, <1>2, <1>6, <1>7, LeavingMove DEF Step
-------------------------------------------------------------------------------
(* The traits that come with a pill                                        *)

Equipping == {"createBG", "queueBG", "createIng", "queueIng"}

LEMMA MintAt ==
    ASSUME NEW w, NEW j, NEW s \in Equipping, AtCalm(w, j, s)
    PROVE  /\ ~Handled(j.event) /\ j.event \in MintsOf(feed) /\ Event(w) = feed[j.event]
           /\ feed[j.event].kind = "Prescription_Updated"
           /\ feed[j.event].bg = None \/ feed[j.event].bg # feed[j.event].ing
           /\ s \in {"createBG", "queueBG"} => feed[j.event].bg # None
           /\ s \in {"createIng", "queueIng"} => feed[j.event].ing # None
           /\ \A t \in Traits(feed[j.event]) :
                 t \in db.knownTraits <=> t \in Learned(feed, j.event, s)
<1> DEFINE n == j.event
<1>1. /\ ~Handled(n) /\ n \in DOMAIN feed /\ Event(w) = feed[n]
      /\ Consistent(feed, stage, db, asked) /\ stage[n] = s /\ TraitsHeld(feed)
      /\ db.knownTraits \subseteq Token
  BY NotAgain DEF Equipping, Again, Finding, ValueStatements, AtCalm, Tables
<1>2. n \in MintsOf(feed)
  <2>1. db.event[n] = "MINT"
    BY DEF AtCalm, At, Sound, Equipping
  <2>. QED BY <1>1, <2>1, LeftSoFar
<1>3. /\ feed[n].kind = "Prescription_Updated"
      /\ s \in {"createBG", "queueBG"} => feed[n].bg # None
      /\ s \in {"createIng", "queueIng"} => feed[n].ing # None
  BY <1>1, NoneAssumption DEF AtCalm, At, Sound, KindSound, Equipping
<1>4. feed[n].bg = None \/ feed[n].bg # feed[n].ing
  BY <1>1, <1>2 DEF TraitsHeld
<1>5. ASSUME NEW t \in Traits(feed[n])
      PROVE  t \in db.knownTraits <=> t \in Learned(feed, n, s)
  <2>1. t \in db.knownTraits <=> \E m \in DOMAIN feed : t \in Learned(feed, m, stage[m])
    BY <1>1 DEF Consistent
  <2>2. ASSUME NEW m \in DOMAIN feed, t \in Learned(feed, m, stage[m])
        PROVE  m = n
    <3>1. CASE m \in MintsOf(feed)
      <4>1. t \in Traits(feed[m])
        BY <2>2, <3>1 DEF Learned, Traits
      <4>. QED BY <1>1, <1>2, <1>5, <3>1, <4>1 DEF TraitsHeld
    <3>2. CASE m \notin MintsOf(feed)
      <4>1. feed[m].kind = "TRAIT_REDEMPTION" /\ feed[m].token = t
        BY <2>2, <3>2 DEF Learned
      <4>. QED BY <1>1, <1>2, <1>5, <4>1 DEF TraitsHeld
    <3>. QED BY <3>1, <3>2
  <2> HIDE DEF n
  <2>. QED BY <1>1, <2>1, <2>2
<1>. QED BY <1>1, <1>2, <1>3, <1>4, <1>5

(* What a statement of a mint learns and asks for.                          *)
LEMMA EquipMove ==
    ASSUME NEW w, NEW j, NEW s \in Equipping, AtCalm(w, j, s),
           NEW next \in Equipping \cup {"queueMetadata"}, Goes(w, next),
           NEW K, Learned(feed, j.event, next) = Learned(feed, j.event, s) \cup K,
           db' = db \/ db' = [db EXCEPT !.knownTraits = db.knownTraits \cup K],
           db' = db => K = {},
           NEW A, AskedFor(feed, j.event, next) = AskedFor(feed, j.event, s) \cup A,
           asked'.backpack = asked.backpack \cup A
    PROVE  CalmMove(w, j, next)
<1> DEFINE n == j.event
<1>1. ~Handled(n) /\ n \in MintsOf(feed) /\ feed[n].kind = "Prescription_Updated"
  BY MintAt
<1>2. /\ db'.event = db.event /\ db'.knownTraits = db.knownTraits \cup K
      /\ db'.redemption = db.redemption
      /\ db'.backpack = db.backpack /\ db'.stock = db.stock /\ db'.vote = db.vote
  BY DEF AtCalm, Tables
<1>3. /\ Rowed(feed, n, next) <=> Rowed(feed, n, s)
      /\ Claims(feed, n, next) = {} /\ Claims(feed, n, s) = {}
      /\ feed[n].kind \notin TraitMoves
  BY <1>1 DEF Rowed, KeepsRow, NotYet, Early, Finding, Equipping, Claims, TraitMoves
<1>4. /\ Learned(feed, n, s) \subseteq db.knownTraits
      /\ AskedFor(feed, n, s) \subseteq asked.backpack
  BY <1>1, LeftSoFar
<1>5. \A t \in Token : db'.backpack[t] = HolderAt(feed, [stage EXCEPT ![n] = next], t)
  BY <1>1, <1>2, <1>3, BackpackKept
<1>6. Leaves(n, s, next)
  BY <1>2, <1>3, <1>4, <1>5 DEF Leaves
<1>7. /\ FirstTime(feed, n, next, db') /\ ReadHolds(feed[n], next, db')
      /\ ValueEffect(feed[n], next, db') /\ next \in Step \ {"idle"}
  BY <1>2 DEF FirstTime, ReadHolds, ValueEffect, Equipping, Step
<1>. QED BY <1>1, <1>6, <1>7, LeavingMove

LEMMA CreateBGMoves ==
    ASSUME NEW w, NEW j, AtCalm(w, j, "createBG"), CreateBG(w)
    PROVE  \E next : CalmMove(w, j, next)
<1> DEFINE n == j.event  s == "createBG"  next == "queueBG"
<1>1. /\ n \in MintsOf(feed) /\ Event(w) = feed[n] /\ feed[n].bg # None
      /\ \A t \in Traits(feed[n]) : t \in db.knownTraits <=> t \in Learned(feed, n, s)
  BY MintAt DEF Equipping
<1>2. Learned(feed, n, s) = {} /\ Learned(feed, n, next) = Learned(feed, n, s) \cup {feed[n].bg}
  BY <1>1 DEF Learned, NotYet, Early, Finding
<1>3. feed[n].bg \notin db.knownTraits
  BY <1>1, <1>2 DEF Traits
<1>4. /\ Goes(w, next) /\ asked' = asked
      /\ db' = [db EXCEPT !.knownTraits = db.knownTraits \cup {feed[n].bg}]
  BY <1>1, <1>3 DEF CreateBG, WithTrait, Inserts, Writes, Goto, Goes, blocksQueue
<1>5. /\ AskedFor(feed, n, next) = AskedFor(feed, n, s) \cup {}
      /\ asked'.backpack = asked.backpack \cup {}
  BY <1>1, <1>4 DEF AskedFor
<1>6. db' # db
  <2>1. db'.knownTraits = db.knownTraits \cup {feed[n].bg}
    BY <1>4 DEF AtCalm, Tables
  <2>. QED BY <1>3, <2>1
<1>. QED BY <1>2, <1>4, <1>5, <1>6, EquipMove DEF Equipping

LEMMA CreateIngMoves ==
    ASSUME NEW w, NEW j, AtCalm(w, j, "createIng"), CreateIng(w)
    PROVE  \E next : CalmMove(w, j, next)
<1> DEFINE n == j.event  s == "createIng"  next == "queueIng"
<1>1. /\ n \in MintsOf(feed) /\ Event(w) = feed[n] /\ feed[n].ing # None
      /\ feed[n].bg = None \/ feed[n].bg # feed[n].ing
      /\ \A t \in Traits(feed[n]) : t \in db.knownTraits <=> t \in Learned(feed, n, s)
  BY MintAt DEF Equipping
<1>2. /\ Learned(feed, n, s) = {feed[n].bg} \ {None}
      /\ Learned(feed, n, next) = Learned(feed, n, s) \cup {feed[n].ing}
  <2>1. Learned(feed, n, s) = {feed[n].bg} \ {None}
    BY <1>1 DEF Learned, NotYet, Early, Finding
  <2>2. Learned(feed, n, next) = ({feed[n].bg} \ {None}) \cup ({feed[n].ing} \ {None})
    BY <1>1 DEF Learned, NotYet, Early, Finding
  <2>. QED BY <1>1, <2>1, <2>2
<1>3. feed[n].ing \notin db.knownTraits
  BY <1>1, <1>2 DEF Traits
<1>4. /\ Goes(w, next) /\ asked' = asked
      /\ db' = [db EXCEPT !.knownTraits = db.knownTraits \cup {feed[n].ing}]
  BY <1>1, <1>3 DEF CreateIng, WithTrait, Inserts, Writes, Goto, Goes, blocksQueue
<1>5. /\ AskedFor(feed, n, next) = AskedFor(feed, n, s) \cup {}
      /\ asked'.backpack = asked.backpack \cup {}
  BY <1>1, <1>4 DEF AskedFor, NotYet, Early, Finding
<1>6. db' # db
  <2>1. db'.knownTraits = db.knownTraits \cup {feed[n].ing}
    BY <1>4 DEF AtCalm, Tables
  <2>. QED BY <1>3, <2>1
<1>. QED BY <1>2, <1>4, <1>5, <1>6, EquipMove DEF Equipping

LEMMA QueueBGMoves ==
    ASSUME NEW w, NEW j, AtCalm(w, j, "queueBG"), QueueBG(w)
    PROVE  \E next : CalmMove(w, j, next)
<1> DEFINE n == j.event  s == "queueBG"
<1>1. n \in MintsOf(feed) /\ Event(w) = feed[n] /\ feed[n].bg # None
  BY MintAt DEF Equipping
<1>2. PICK next \in {"createIng", "queueMetadata"} :
         /\ Goes(w, next) /\ db' = db /\ asked'.backpack = asked.backpack \cup {feed[n].bg}
         /\ next = "queueMetadata" => feed[n].ing = None
  BY <1>1 DEF QueueBG, Asks, Goto, Goes, blocksQueue, AtCalm
<1>3. Learned(feed, n, next) = Learned(feed, n, s) \cup {}
  BY <1>1, <1>2 DEF Learned, NotYet, Early, Finding
<1>4. AskedFor(feed, n, next) = AskedFor(feed, n, s) \cup {feed[n].bg}
  BY <1>1, <1>2 DEF AskedFor, NotYet, Early, Finding
<1>. QED BY <1>2, <1>3, <1>4, EquipMove DEF Equipping

LEMMA QueueIngMoves ==
    ASSUME NEW w, NEW j, AtCalm(w, j, "queueIng"), QueueIng(w)
    PROVE  \E next : CalmMove(w, j, next)
<1> DEFINE n == j.event  s == "queueIng"  next == "queueMetadata"
<1>1. n \in MintsOf(feed) /\ Event(w) = feed[n] /\ feed[n].ing # None
  BY MintAt DEF Equipping
<1>2. Goes(w, next) /\ db' = db /\ asked'.backpack = asked.backpack \cup {feed[n].ing}
  BY <1>1 DEF QueueIng, Asks, Goto, Goes, blocksQueue, AtCalm
<1>3. Learned(feed, n, next) = Learned(feed, n, s) \cup {}
  BY <1>1 DEF Learned, NotYet, Early, Finding
<1>4. AskedFor(feed, n, next) = AskedFor(feed, n, s) \cup {feed[n].ing}
  BY <1>1 DEF AskedFor, NotYet, Early, Finding
<1>. QED BY <1>2, <1>3, <1>4, EquipMove DEF Equipping
-------------------------------------------------------------------------------
(* Stocks, votes and voting power                                          *)

ValueKinds == Stocks \cup Votes \cup {"ATTRIBUTE_ADDED"}

LEMMA ValueMove ==
    ASSUME NEW w, NEW j, NEW s, AtCalm(w, j, s), feed[j.event].kind \in ValueKinds,
           NEW next \in ValueStatements \cup {"createPower", "return"}, Goes(w, next),
           asked' = asked, db'.event = db.event, db'.knownTraits = db.knownTraits,
           db'.redemption = db.redemption, db'.backpack = db.backpack,
           Handled(j.event) => next # "createPower",
           ReadHolds(feed[j.event], next, db'), ValueEffect(feed[j.event], next, db')
    PROVE  CalmMove(w, j, next)
<1> DEFINE n == j.event
<1>1. /\ feed[n].kind \notin KeepsRow \cup {"SCALAR_TRANSFER"}
      /\ feed[n].kind \notin TraitMoves
      /\ feed[n].kind \notin {"Prescription_Updated", "TRAIT_REDEMPTION"}
  BY DEF ValueKinds, Stocks, Votes, KeepsRow, TraitMoves
<1>2. DOMAIN feed \subseteq 1..MaxLength
  BY DEF AtCalm
<1>3. \A x : /\ Learned(feed, n, x) = {} /\ AskedFor(feed, n, x) = {}
             /\ Claims(feed, n, x) = {} /\ ~Rowed(feed, n, x)
  BY <1>1, <1>2, OtherKinds DEF Rowed
<1>4. FirstTime(feed, n, next, db') /\ next \in Step \ {"idle"}
  BY DEF FirstTime, ValueStatements, Step
<1>5. Handled(n) => next \in Again
  BY DEF Again
<1>. QED BY <1>1, <1>3, <1>4, <1>5, QuietMove

(* A value that is written.                                                *)
LEMMA WrittenMove ==
    ASSUME NEW w, NEW j, NEW s, AtCalm(w, j, s), Goes(w, "return"), asked' = asked,
           \/ /\ feed[j.event].kind \in Stocks
              /\ db' = [db EXCEPT !.stock[feed[j.event].token] = feed[j.event].value]
           \/ /\ feed[j.event].kind \in Votes
              /\ db' = [db EXCEPT !.vote[feed[j.event].token] = feed[j.event].value]
           \/ /\ feed[j.event].kind = "ATTRIBUTE_ADDED"
              /\ \E x : db' = [db EXCEPT !.votingPower = x]
    PROVE  CalmMove(w, j, "return")
<1> DEFINE n == j.event
<1>1. /\ db'.event = db.event /\ db'.knownTraits = db.knownTraits
      /\ db'.redemption = db.redemption /\ db'.backpack = db.backpack
  BY DEF AtCalm, Tables
<1>2. ValueEffect(feed[n], "return", db')
  BY DEF ValueEffect, AtCalm, Tables, Stocks, Votes
<1>3. feed[n].kind \in ValueKinds /\ ReadHolds(feed[n], "return", db')
  BY DEF ValueKinds, ReadHolds
<1>. QED BY <1>1, <1>2, <1>3, ValueMove

LEMMA ValueAt ==
    ASSUME NEW w, NEW j,
           NEW s \in {"findStock", "updateStock", "createStock", "findVote", "updateVote",
                      "createVote", "findPower", "createPower"}, AtCalm(w, j, s)
    PROVE  /\ Event(w) = feed[j.event] /\ ReadHolds(feed[j.event], s, db)
           /\ s \in {"findStock", "updateStock", "createStock"} => feed[j.event].kind \in Stocks
           /\ s \in {"findVote", "updateVote", "createVote"} => feed[j.event].kind \in Votes
           /\ s \in {"findPower", "createPower"} => feed[j.event].kind = "ATTRIBUTE_ADDED"
BY DEF AtCalm, At, Sound, KindSound, Stocks, Votes

LEMMA FindStockMoves ==
    ASSUME NEW w, NEW j, AtCalm(w, j, "findStock"), FindStock(w)
    PROVE  \E next : CalmMove(w, j, next)
<1>1. Event(w) = feed[j.event] /\ feed[j.event].kind \in Stocks
  BY ValueAt
<1>2. PICK next \in {"createStock", "updateStock"} :
         /\ Reads(w, "findStock", next)
         /\ next = "createStock" <=> db.stock[feed[j.event].token] = 0
  BY <1>1 DEF FindStock
<1>3. Goes(w, next) /\ UNCHANGED <<db, asked>>
  BY <1>2, ReadGoes
<1>4. ReadHolds(feed[j.event], next, db') /\ ValueEffect(feed[j.event], next, db')
  BY <1>2, <1>3 DEF ReadHolds, ValueEffect
<1>. QED BY <1>1, <1>3, <1>4, ValueMove DEF ValueStatements, ValueKinds

LEMMA StockMoves ==
    ASSUME NEW w, NEW j, NEW s \in {"updateStock", "createStock"}, AtCalm(w, j, s),
           UpdateStock(w) \/ CreateStock(w)
    PROVE  \E next : CalmMove(w, j, next)
<1>1. /\ Event(w) = feed[j.event] /\ feed[j.event].kind \in Stocks
      /\ ReadHolds(feed[j.event], s, db) /\ pc[w] = s
  BY ValueAt DEF AtCalm, At
<1>2. Writes(w, s, WithStock(w), "return")
  <2>1. CASE UpdateStock(w)
    BY <1>1, <2>1 DEF UpdateStock, Changes, Inserts, ReadHolds
  <2>2. CASE CreateStock(w)
    BY <1>1, <2>2 DEF CreateStock, Inserts, ReadHolds
  <2>. QED BY <2>1, <2>2
<1>3. /\ Goes(w, "return") /\ asked' = asked
      /\ db' = [db EXCEPT !.stock[feed[j.event].token] = feed[j.event].value]
  BY <1>1, <1>2 DEF Writes, WithStock, Goto, Goes, blocksQueue
<1>. QED BY <1>1, <1>3, WrittenMove

LEMMA FindVoteMoves ==
    ASSUME NEW w, NEW j, AtCalm(w, j, "findVote"), FindVote(w)
    PROVE  \E next : CalmMove(w, j, next)
<1>1. Event(w) = feed[j.event] /\ feed[j.event].kind \in Votes
  BY ValueAt
<1>2. PICK next \in {"createVote", "updateVote"} :
         /\ Reads(w, "findVote", next)
         /\ next = "createVote" <=> db.vote[feed[j.event].token] = 0
  BY <1>1 DEF FindVote
<1>3. Goes(w, next) /\ UNCHANGED <<db, asked>>
  BY <1>2, ReadGoes
<1>4. ReadHolds(feed[j.event], next, db') /\ ValueEffect(feed[j.event], next, db')
  BY <1>2, <1>3 DEF ReadHolds, ValueEffect
<1>. QED BY <1>1, <1>3, <1>4, ValueMove DEF ValueStatements, ValueKinds

LEMMA VoteMoves ==
    ASSUME NEW w, NEW j, NEW s \in {"updateVote", "createVote"}, AtCalm(w, j, s),
           UpdateVote(w) \/ CreateVote(w)
    PROVE  \E next : CalmMove(w, j, next)
<1>1. /\ Event(w) = feed[j.event] /\ feed[j.event].kind \in Votes
      /\ ReadHolds(feed[j.event], s, db) /\ pc[w] = s
  BY ValueAt DEF AtCalm, At
<1>2. Writes(w, s, WithVote(w), "return")
  <2>1. CASE UpdateVote(w)
    BY <1>1, <2>1 DEF UpdateVote, Changes, Inserts, ReadHolds
  <2>2. CASE CreateVote(w)
    BY <1>1, <2>2 DEF CreateVote, Inserts, ReadHolds
  <2>. QED BY <2>1, <2>2
<1>3. /\ Goes(w, "return") /\ asked' = asked
      /\ db' = [db EXCEPT !.vote[feed[j.event].token] = feed[j.event].value]
  BY <1>1, <1>2 DEF Writes, WithVote, Goto, Goes, blocksQueue
<1>. QED BY <1>1, <1>3, WrittenMove

LEMMA FindPowerMoves ==
    ASSUME JobsInv, NEW w, NEW j, AtCalm(w, j, "findPower"), FindPower(w)
    PROVE  \E next : CalmMove(w, j, next)
<1> DEFINE e == feed[j.event]
<1>1. Event(w) = e /\ e.kind = "ATTRIBUTE_ADDED"
  BY ValueAt
<1>2. PICK next \in {"return", "createPower"} :
         /\ Reads(w, "findPower", next)
         /\ next = "createPower" <=> e.value = 1 /\ e.token \notin db.votingPower
  BY <1>1 DEF FindPower
<1>3. Goes(w, next) /\ UNCHANGED <<db, asked>>
  BY <1>2, ReadGoes
<1>4. ReadHolds(e, next, db') /\ ValueEffect(e, next, db')
  BY <1>1, <1>2, <1>3 DEF ReadHolds, ValueEffect, Stocks, Votes
<1>5. Handled(j.event) => next # "createPower"
  <2>1. Handled(j.event) => Kept(j.event)
    BY DEF Handled, JobsInv
  <2>. QED BY <1>1, <1>2, <2>1 DEF Kept, Settles, KeepsRow
<1>. QED BY <1>1, <1>3, <1>4, <1>5, ValueMove DEF ValueKinds

LEMMA CreatePowerMoves ==
    ASSUME NEW w, NEW j, AtCalm(w, j, "createPower"), CreatePower(w)
    PROVE  \E next : CalmMove(w, j, next)
<1>1. /\ Event(w) = feed[j.event] /\ feed[j.event].kind = "ATTRIBUTE_ADDED"
      /\ feed[j.event].token \notin db.votingPower
  BY ValueAt DEF ReadHolds
<1>2. /\ Goes(w, "return") /\ asked' = asked
      /\ db' = [db EXCEPT !.votingPower = db.votingPower \cup {feed[j.event].token}]
  BY <1>1 DEF CreatePower, Inserts, Writes, Goto, Goes, blocksQueue
<1>. QED BY <1>1, <1>2, WrittenMove

LEMMA StatementCalm ==
    ASSUME HandlersInv, RowsMatch, Calm, InOrder, CalmInv, NEW w \in Worker, Statement(w)
    PROVE  \E j \in Job : \E next : running[w] = j /\ CalmMove(w, j, next)
<1>1. pc[w] \in Step \ {"idle"}
  BY StatementEffect DEF Effect, At
<1>2. PICK j \in Job : AtCalm(w, j, pc[w])
  BY <1>1, AtCalmStatement
<1>3. running[w] = j /\ JobsInv
  BY <1>2 DEF AtCalm, At, HandlersInv
<1>4. CASE FindEvent(w) \/ FindMinted(w) \/ CreateChange(w) \/ CreateMint(w) \/ CreateEvent(w)
  BY <1>2, <1>3, <1>4, FindEventMoves, FindMintedMoves, CreateChangeMoves, CreateMintMoves,
     CreateEventMoves
     DEF FindEvent, FindMinted, CreateChange, CreateMint, CreateEvent, Reads, Inserts
<1>5. CASE CreateBG(w) \/ QueueBG(w) \/ CreateIng(w) \/ QueueIng(w) \/ QueueMetadata(w)
  BY <1>2, <1>3, <1>5, CreateBGMoves, QueueBGMoves, CreateIngMoves, QueueIngMoves,
     QueueMetadataMoves
     DEF CreateBG, QueueBG, CreateIng, QueueIng, QueueMetadata, Asks, Inserts
<1>6. CASE CheckIfIsPill(w) \/ FindPicture(w) \/ ClearPicture(w)
  BY <1>2, <1>3, <1>6, CheckIfIsPillMoves, FindPictureMoves, ClearPictureMoves
     DEF CheckIfIsPill, FindPicture, ClearPicture, Reads, Writes
<1>7. CASE FindBackpack(w) \/ UpdateBackpack(w) \/ CreateBackpack(w) \/ DeleteBackpack(w)
  BY <1>2, <1>3, <1>7, FindBackpackMoves, UpdateBackpackMoves, CreateBackpackMoves,
     DeleteBackpackMoves
     DEF FindBackpack, UpdateBackpack, CreateBackpack, DeleteBackpack, Reads, Changes, Inserts
<1>8. CASE FindStock(w) \/ UpdateStock(w) \/ CreateStock(w)
  <2>1. CASE FindStock(w)
    BY <1>2, <1>3, <2>1, FindStockMoves DEF FindStock, Reads
  <2>2. CASE UpdateStock(w) \/ CreateStock(w)
    <3>1. pc[w] \in {"updateStock", "createStock"}
      BY <2>2 DEF UpdateStock, CreateStock, Changes, Inserts
    <3>. QED BY <1>2, <1>3, <2>2, <3>1, StockMoves
  <2>. QED BY <1>8, <2>1, <2>2
<1>9. CASE FindVote(w) \/ UpdateVote(w) \/ CreateVote(w)
  <2>1. CASE FindVote(w)
    BY <1>2, <1>3, <2>1, FindVoteMoves DEF FindVote, Reads
  <2>2. CASE UpdateVote(w) \/ CreateVote(w)
    <3>1. pc[w] \in {"updateVote", "createVote"}
      BY <2>2 DEF UpdateVote, CreateVote, Changes, Inserts
    <3>. QED BY <1>2, <1>3, <2>2, <3>1, VoteMoves
  <2>. QED BY <1>9, <2>1, <2>2
<1>10. CASE \/ FindRedemption(w) \/ CreateRedemption(w) \/ FindKnown(w) \/ CreateKnown(w)
            \/ QueueTrait(w)
  BY <1>2, <1>3, <1>10, FindRedemptionMoves, CreateRedemptionMoves, FindKnownMoves,
     CreateKnownMoves, QueueTraitMoves
     DEF FindRedemption, CreateRedemption, FindKnown, CreateKnown, QueueTrait, Reads, Asks,
         Inserts
<1>11. CASE FindPower(w) \/ CreatePower(w)
  BY <1>2, <1>3, <1>11, FindPowerMoves, CreatePowerMoves DEF FindPower, CreatePower, Reads, Inserts
<1>. QED BY <1>4, <1>5, <1>6, <1>7, <1>8, <1>9, <1>10, <1>11 DEF Statement
-------------------------------------------------------------------------------
(* Values                                                                  *)

LEMMA LastOfKind ==
    ASSUME scenario \in Scenarios, NEW kinds, NEW t, Of(kinds, t) # {}
    PROVE  /\ LastOf(Of(kinds, t)) \in DOMAIN feed /\ LastOf(Of(kinds, t)) \in 1..MaxLength
           /\ feed[LastOf(Of(kinds, t))].kind \in kinds
           /\ feed[LastOf(Of(kinds, t))].token = t
           /\ \A n \in Of(kinds, t) : n <= LastOf(Of(kinds, t))
<1>1. Of(kinds, t) \subseteq DOMAIN feed /\ DOMAIN feed \subseteq 1..MaxLength
  BY FeedType DEF Of, EventsOf
<1>2. LastOf(Of(kinds, t)) \in Of(kinds, t) /\ \A n \in Of(kinds, t) : n <= LastOf(Of(kinds, t))
  BY <1>1, LastExists
<1>. QED BY <1>1, <1>2 DEF Of, EventsOf

(* Events of other kinds are written.                                      *)
LEMMA NewestStays ==
    ASSUME scenario \in Scenarios, NEW kinds, NEW value, NEW W, NEW W2,
           Newest(kinds, value, W),
           \A k \in Job : k \in W2 /\ k \notin W => feed[k.event].kind \notin kinds
    PROVE  Newest(kinds, value, W2)
<1> SUFFICES ASSUME NEW t \in Token, Of(kinds, t) # {},
                    \A j \in Job : j.event = LastOf(Of(kinds, t)) /\ j.copy <= scenario.copies =>
                       j \in W2
             PROVE  value[t] = feed[LastOf(Of(kinds, t))].value
  BY DEF Newest
<1>1. feed[LastOf(Of(kinds, t))].kind \in kinds
  BY LastOfKind
<1>2. \A j \in Job : j.event = LastOf(Of(kinds, t)) /\ j.copy <= scenario.copies => j \in W
  BY <1>1
<1>. QED BY <1>2 DEF Newest

(* A job writes its value: it is the last one, or a later one is to come.   *)
LEMMA NewestWritten ==
    ASSUME scenario \in Scenarios, NEW kinds, NEW value \in [Token -> Nat], NEW W, NEW W2,
           Newest(kinds, value, W), NEW j \in Job, j.event \in DOMAIN feed,
           feed[j.event].kind \in kinds, j.copy <= scenario.copies,
           \A k \in Job : k \in W2 => k \in W \/ k = j,
           \A k \in Job : k.copy = j.copy /\ j.event < k.event => k \notin W2
    PROVE  Newest(kinds, [value EXCEPT ![feed[j.event].token] = feed[j.event].value], W2)
<1> DEFINE v == [value EXCEPT ![feed[j.event].token] = feed[j.event].value]
<1> SUFFICES ASSUME NEW t \in Token
             PROVE  IF Of(kinds, t) = {} THEN v[t] = 0
                    ELSE (\A k \in Job : k.event = LastOf(Of(kinds, t)) /\ k.copy <= scenario.copies =>
                             k \in W2) => v[t] = feed[LastOf(Of(kinds, t))].value
  BY DEF Newest
<1>1. feed[j.event].token = t => j.event \in Of(kinds, t)
  BY DEF Of, EventsOf
<1>2. CASE Of(kinds, t) = {}
  <2>1. v[t] = value[t]
    BY <1>1, <1>2
  <2>. QED BY <1>2, <2>1 DEF Newest
<1>3. CASE Of(kinds, t) # {}
  <2> DEFINE m == LastOf(Of(kinds, t))
  <2> SUFFICES ASSUME \A k \in Job : k.event = m /\ k.copy <= scenario.copies => k \in W2
               PROVE  v[t] = feed[m].value
    BY <1>3
  <2>1. /\ m \in DOMAIN feed /\ m \in 1..MaxLength /\ feed[m].token = t
        /\ \A n \in Of(kinds, t) : n <= m
    BY <1>3, LastOfKind
  <2> HIDE DEF m
  <2>2. CASE feed[j.event].token = t
    <3> DEFINE k == [copy |-> j.copy, event |-> m]
    <3>1. k \in Job /\ k.copy = j.copy /\ k.event = m /\ j.event \in 1..MaxLength
      BY <2>1 DEF Job
    <3> HIDE DEF k
    <3>2. k \in W2
      BY <3>1
    <3>3. ~(j.event < m)
      BY <3>1, <3>2
    <3>4. j.event = m
      BY <1>1, <2>1, <2>2, <3>1, <3>3
    <3>. QED BY <2>2, <3>4
  <2>3. CASE feed[j.event].token # t
    <3>1. \A k \in Job : k.event = m => k # j
      BY <2>1, <2>3
    <3>2. \A k \in Job : k.event = m /\ k.copy <= scenario.copies => k \in W
      BY <3>1
    <3>3. value[t] = feed[m].value
      BY <1>3, <3>2 DEF Newest, m
    <3>. QED BY <2>3, <3>3
  <2>. QED BY <2>2, <2>3
<1>. QED BY <1>2, <1>3
-------------------------------------------------------------------------------
(* Steps of the one worker and its queue                                   *)

LEMMA MoveCalm ==
    ASSUME HandlersInv, SentInv, Calm, InOrder, CalmInv,
           NEW w \in Worker, NEW j \in Job, running[w] = j, NEW next, CalmMove(w, j, next)
    PROVE  CalmInv'
<1> DEFINE n == j.event  e == feed[n]
<1>1. /\ scenario \in Scenarios /\ pc \in [Worker -> Step] /\ db \in Tables
      /\ state[j] = "active" /\ n \in DOMAIN feed /\ n \in 1..MaxLength /\ feed' = feed
      /\ UNCHANGED <<scenario, sent, state, running>> /\ pc' = [pc EXCEPT ![w] = next]
  <2>1. running[w] # NoJob
    BY QueueAssumption
  <2>. QED BY <2>1, Order DEF HandlersInv, QueueInv, Types, CalmMove, Goes, feed, CalmInv
<1>2. \A v \in Worker, k \in Job : running[v] = k => v = w /\ k = j
  BY OnlyWorker
<1>3. /\ Handled(n) => stage' = stage
      /\ ~Handled(n) => stage' = [stage EXCEPT ![n] = next]
      /\ \A m : Handled(m)' <=> Handled(m)
  <2>1. UNCHANGED <<scenario, state, running>> /\ pc' = [pc EXCEPT ![w] = next]
    BY <1>1
  <2>. QED BY <2>1, StageAdvances
<1>4. Served'
  BY <1>1 DEF CalmInv, Served
<1>5. Consistent(feed, stage, db, asked)'
  BY <1>1, <1>3 DEF CalmMove
<1>6. Serving'
  <2>1. pc'[w] = next
    BY <1>1
  <2>. QED BY <1>1, <1>2, <1>3, <2>1 DEF CalmMove, Serving
<1>7. /\ \A k \in Job : k \in Written' => k \in Written \/ (k = j /\ next = "return")
  <2>1. \A v \in Worker, k \in Job : running'[v] = k /\ pc'[v] = "return" =>
           k = j /\ next = "return"
    BY <1>1, <1>2
  <2>. QED BY <1>1, <2>1 DEF Written
<1>8. \A k \in Job : k.copy = j.copy /\ j.event < k.event => k \notin Written'
  <2>1. \A k \in Job : j.event < k.event => k # j
    BY <1>1
  <2>2. \A k \in Job : k.copy = j.copy /\ j.event < k.event => state[k] # "done"
    BY <1>1 DEF CalmInv, Served
  <2>3. \A v \in Worker, k \in Job : running'[v] = k => k = j
    BY <1>1, <1>2
  <2>. QED BY <1>1, <2>1, <2>2, <2>3 DEF Written
<1>9. j.copy <= scenario.copies
  <2>1. j.copy \in 1..Copies /\ scenario.copies \in 1..Copies /\ Copies \in Nat
    BY <1>1, ScenarioAssumption, BoundsAssumption DEF Job
  <2>2. state[j] # "new"
    BY <1>1
  <2>3. ~(sent[j.copy] < j.event)
    BY <2>2 DEF SentInv
  <2>4. j.copy > scenario.copies => sent[j.copy] = 0
    BY <2>1 DEF CalmInv, Served
  <2>5. n > 0
    BY <1>1
  <2>. QED BY <2>1, <2>3, <2>4, <2>5
<1>10. ASSUME NEW kinds, NEW value \in [Token -> Nat], NEW value2, Newest(kinds, value, Written),
              \/ value2 = value /\ (next = "return" => e.kind \notin kinds)
              \/ e.kind \in kinds /\ value2 = [value EXCEPT ![e.token] = e.value]
       PROVE  Newest(kinds, value2, Written')
  <2>1. CASE value2 = value /\ (next = "return" => e.kind \notin kinds)
    <3>1. \A k \in Job : k \in Written' /\ k \notin Written => feed[k.event].kind \notin kinds
      BY <1>7, <2>1
    <3>. QED BY <1>1, <1>10, <2>1, <3>1, NewestStays
  <2>2. CASE e.kind \in kinds /\ value2 = [value EXCEPT ![e.token] = e.value]
    <3>1. \A k \in Job : k \in Written' => k \in Written \/ k = j
      BY <1>7
    <3>. QED BY <1>1, <1>8, <1>9, <1>10, <2>2, <3>1, NewestWritten
  <2>. QED BY <1>10, <2>1, <2>2
<1>11. ValueEffect(e, next, db') /\ db.stock \in [Token -> Nat] /\ db.vote \in [Token -> Nat]
  BY <1>1 DEF CalmMove, Tables
<1>12. e.kind \in Stocks => e.kind \notin Votes
  BY DEF Stocks, Votes
<1>13. Newest(Stocks, db'.stock, Written')
  <2>1. \/ db'.stock = db.stock /\ (next = "return" => e.kind \notin Stocks)
        \/ e.kind \in Stocks /\ db'.stock = [db.stock EXCEPT ![e.token] = e.value]
    BY <1>11, <1>12 DEF ValueEffect
  <2>. QED BY <1>10, <1>11, <2>1 DEF CalmInv
<1>14. Newest(Votes, db'.vote, Written')
  <2>1. \/ db'.vote = db.vote /\ (next = "return" => e.kind \notin Votes)
        \/ e.kind \in Votes /\ db'.vote = [db.vote EXCEPT ![e.token] = e.value]
    BY <1>11, <1>12 DEF ValueEffect
  <2>. QED BY <1>10, <1>11, <2>1 DEF CalmInv
<1>15. Newest(Stocks, db.stock, Written)' /\ Newest(Votes, db.vote, Written)'
  BY <1>1, <1>13, <1>14 DEF Newest, Of
<1>. QED BY <1>4, <1>5, <1>6, <1>15 DEF CalmInv

(* The queue moves on, the tables stay.                                    *)
LEMMA QueueCalm ==
    ASSUME CalmInv, Served', UNCHANGED <<scenario, db, asked>>, Written' = Written,
           Consistent(feed, stage', db, asked), Serving'
    PROVE  CalmInv'
<1>1. feed' = feed
  BY DEF feed
<1>2. Newest(Stocks, db.stock, Written)' /\ Newest(Votes, db.vote, Written)'
  BY <1>1 DEF CalmInv, Newest, Of
<1>. QED BY <1>1, <1>2 DEF CalmInv

LEMMA StageStays ==
    ASSUME UNCHANGED <<scenario, running, pc>>, \A n : Handled(n)' <=> Handled(n)
    PROVE  stage' = stage
<1>1. feed' = feed /\ \A n : Begun(n)' <=> Begun(n)
  BY DEF feed, Begun
<1>2. \A n : Stage(n)' = Stage(n)
  BY <1>1 DEF Stage
<1>. QED BY <1>1, <1>2 DEF stage

LEMMA CalmStays ==
    ASSUME CalmInv, UNCHANGED <<scenario, sent, state, running, pc, asked>>,
           db' = db \/ \E a, x : db' = [db EXCEPT !.picture[a] = x], db \in Tables
    PROVE  CalmInv'
<1>1. /\ db'.event = db.event /\ db'.knownTraits = db.knownTraits
      /\ db'.redemption = db.redemption /\ db'.backpack = db.backpack
      /\ db'.stock = db.stock /\ db'.vote = db.vote /\ db'.votingPower = db.votingPower
  BY DEF Tables
<1>2. feed' = feed /\ Written' = Written /\ \A n : Handled(n)' <=> Handled(n)
  BY DEF feed, Written, Handled
<1>3. stage' = stage
  BY <1>2, StageStays
<1>4. Served'
  BY DEF CalmInv, Served
<1>5. Serving'
  BY <1>1, <1>2 DEF CalmInv, Serving, ReadHolds, FirstTime
<1>6. Consistent(feed, stage, db, asked)'
  <2>1. Consistent(feed, stage, db', asked')
    BY <1>1, ConsistentSame DEF CalmInv
  <2>. QED BY <1>2, <1>3, <2>1
<1>7. Newest(Stocks, db.stock, Written)' /\ Newest(Votes, db.vote, Written)'
  BY <1>1, <1>2 DEF CalmInv, Newest, Of
<1>. QED BY <1>4, <1>5, <1>6, <1>7 DEF CalmInv

LEMMA SendCalm ==
    ASSUME HandlersInv, SentInv, InOrder, CalmInv, NEW c \in 1..Copies, QueueIndexBlockData(c)
    PROVE  CalmInv'
<1> DEFINE k == [copy |-> c, event |-> sent'[c]]
<1>1. /\ c <= scenario.copies /\ sent' = [sent EXCEPT ![c] = @ + 1]
      /\ state[k] = "new" /\ state' = [state EXCEPT ![k] = "wait"]
      /\ UNCHANGED <<scenario, running, pc, db, asked>>
  BY DEF QueueIndexBlockData, Add, handler
<1>2. /\ state \in [Job -> JobState] /\ sent \in [1..Copies -> 0..MaxLength]
      /\ Copies \in Nat /\ scenario.copies \in 1..Copies
      /\ \A w \in Worker : running[w] # NoJob => state[running[w]] = "active"
  BY BoundsAssumption, ScenarioAssumption DEF HandlersInv, QueueInv, Types, QueueTypeOK
<1>3. \A i \in Job : state'[i] = state[i] \/ (state[i] = "new" /\ state'[i] = "wait")
  BY <1>1, <1>2
<1> HIDE DEF k
<1>4. /\ \A i \in Job : (state'[i] = "done" <=> state[i] = "done")
      /\ \A i \in Job : (state'[i] = "active" <=> state[i] = "active")
  BY <1>3
<1>5. \A n : Handled(n)' <=> Handled(n)
  BY <1>4 DEF Handled
<1>6. Written' = Written
  BY <1>1, <1>4 DEF Written
<1>7. Served'
  <2>1. \A d \in 1..Copies : d > scenario.copies => d # c
    BY <1>1, <1>2
  <2>2. \A d \in 1..Copies : d > scenario'.copies => sent'[d] = 0
    BY <1>1, <1>2, <2>1 DEF CalmInv, Served
  <2>3. \A j \in Job : state'[j] \in {"new", "wait", "active", "done"}
    BY <1>3 DEF CalmInv, Served
  <2>4. \A j, i \in Job :
           j.copy = i.copy /\ i.event < j.event /\ state'[j] \in {"active", "done"} =>
              state'[i] = "done"
    BY <1>4 DEF CalmInv, Served
  <2>. QED BY <2>2, <2>3, <2>4 DEF Served
<1>8. stage' = stage
  BY <1>1, <1>5, StageStays
<1>9. Serving'
  BY <1>1, <1>5 DEF CalmInv, Serving, feed
<1>10. Consistent(feed, stage', db, asked)
  BY <1>8 DEF CalmInv
<1>. QED BY <1>1, <1>6, <1>7, <1>9, <1>10, QueueCalm

LEMMA NobodyServed ==
    ASSUME Calm, InOrder, NEW w \in Worker, NEW j \in Job, IndexBlock(w, j)
    PROVE  \A v \in Worker : running[v] = NoJob
<1> DEFINE busy == {v \in Worker : running[v] # NoJob}
<1>1. Cardinality(busy) < 1
  BY DEF IndexBlock, Calm, IsCalm
<1> SUFFICES ASSUME NEW v \in busy
             PROVE  FALSE
  OBVIOUS
<1>2. busy = {v}
  BY DEF InOrder
<1>3. Cardinality(busy) = 1
  BY <1>2, FS_Singleton
<1>. QED BY <1>1, <1>3

LEMMA TakeCalm ==
    ASSUME HandlersInv, SentInv, Calm, InOrder, CalmInv,
           NEW w \in Worker, NEW j \in Job, IndexBlock(w, j)
    PROVE  CalmInv'
<1> DEFINE n == j.event  start == HandlerStart(feed[n].kind)
<1>1. /\ state \in [Job -> JobState] /\ running \in [Worker -> Job \cup {NoJob}]
      /\ pc \in [Worker -> Step] /\ sent \in [1..Copies -> 0..MaxLength]
      /\ \A k \in Job : state[k] # "new" => k.event \in DOMAIN feed
      /\ DOMAIN feed \subseteq 1..MaxLength
  BY FeedType DEF HandlersInv, QueueInv, Types, QueueTypeOK
<1>2. /\ IsHead(j)
      /\ state' = [state EXCEPT ![j] = "active"] /\ running' = [running EXCEPT ![w] = j]
      /\ pc' = [pc EXCEPT ![w] = start]
      /\ UNCHANGED <<scenario, sent, db, asked>>
  BY DEF IndexBlock, Take, Goto
<1>3. \A v \in Worker : running[v] = NoJob
  BY NobodyServed
<1>4. /\ state[j] = "wait" /\ n \in DOMAIN feed
      /\ \A k \in Job : state[k] = "wait" => Priority[j] <= Priority[k]
  BY <1>1, <1>2 DEF IsHead, InOrder
<1>5. start \in Finding
  <2>1. feed[n].kind \in EventKind
    BY <1>4, FeedType, EventFields DEF HandlersInv, Types
  <2>. QED BY <2>1 DEF HandlerStart, EventKind, Finding
<1>6. /\ state'[j] = "active" /\ \A k \in Job \ {j} : state'[k] = state[k]
      /\ running'[w] = j /\ pc'[w] = start /\ feed' = feed
      /\ \A v \in Worker, k \in Job : running'[v] = k => v = w /\ k = j
  BY <1>1, <1>2, <1>3, QueueAssumption DEF feed
<1> HIDE DEF start
<1>7. \A k \in Job : k.copy = j.copy /\ k.event < j.event => state[k] = "done"
  <2> SUFFICES ASSUME NEW k \in Job, k.copy = j.copy, k.event < j.event
               PROVE  state[k] = "done"
    OBVIOUS
  <2>1. k.event \in 1..MaxLength /\ j.event \in 1..MaxLength /\ j.copy \in 1..Copies
    BY DEF Job
  <2>2. ~(sent[j.copy] < j.event) /\ sent[j.copy] \in Nat
    BY <1>1, <1>4, <2>1 DEF SentInv
  <2>3. state[k] # "new"
    BY <2>1, <2>2 DEF SentInv
  <2>4. state[k] # "wait"
    BY <1>4, <2>1 DEF Priority
  <2>5. state[k] # "active"
    BY <1>3, QueueAssumption DEF InOrder
  <2>. QED BY <2>3, <2>4, <2>5 DEF CalmInv, Served
<1>8. Served'
  <2>1. \A d \in 1..Copies : d > scenario'.copies => sent'[d] = 0
    BY <1>2 DEF CalmInv, Served
  <2>2. \A k \in Job : state'[k] \in {"new", "wait", "active", "done"}
    BY <1>6 DEF CalmInv, Served
  <2>3. ASSUME NEW i \in Job, NEW k \in Job, i.copy = k.copy, k.event < i.event,
               state'[i] \in {"active", "done"}
        PROVE  state'[k] = "done"
    <3>1. state[k] = "done"
      BY <1>6, <1>7, <2>3 DEF CalmInv, Served
    <3>. QED BY <1>4, <1>6, <3>1
  <2>. QED BY <2>1, <2>2, <2>3 DEF Served
<1>9. \A m : Handled(m)' <=> Handled(m)
  BY <1>4, <1>6 DEF Handled
<1>10. Written' = Written
  <2>1. \A k \in Job : state'[k] = "done" <=> state[k] = "done"
    BY <1>4, <1>6
  <2>2. \A v \in Worker, k \in Job : ~(running'[v] = k /\ pc'[v] = "return")
    BY <1>5, <1>6 DEF Finding
  <2>3. \A v \in Worker, k \in Job : running[v] # k
    BY <1>3, QueueAssumption
  <2>. QED BY <2>1, <2>2, <2>3 DEF Written
<1>11. Serving'
  <2>1. ReadHolds(feed[n], start, db') /\ FirstTime(feed, n, start, db')
    BY <1>5 DEF ReadHolds, FirstTime, Finding
  <2>. QED BY <1>5, <1>6, <1>9, <2>1 DEF Serving, Again
<1>12. \A m \in DOMAIN feed : stage[m] = IF Handled(m) THEN "done" ELSE "none"
  <2>1. \A m : ~Begun(m)
    BY <1>3, QueueAssumption DEF Begun
  <2>. QED BY <2>1 DEF stage, Stage
<1>13. stage' = IF Handled(n) THEN stage ELSE [stage EXCEPT ![n] = start]
  <2>1. \A m : Begun(m)' <=> m = n
    BY <1>6 DEF Begun
  <2>2. (CHOOSE v \in Worker : running'[v] # NoJob) = w
    <3>1. running'[w] # NoJob /\ \A v \in Worker : running'[v] # NoJob => v = w
      BY <1>1, <1>2, <1>3, <1>6, QueueAssumption
    <3>. QED BY <3>1
  <2> HIDE DEF n
  <2>3. \A m \in DOMAIN feed : Stage(m)' = IF Handled(m) THEN "done"
                                          ELSE IF m = n THEN start ELSE "none"
    <3>1. pc'[CHOOSE v \in Worker : running'[v] # NoJob] = start
      BY <1>6, <2>2
    <3>. QED BY <1>9, <2>1, <3>1 DEF Stage
  <2>4. stage' = [m \in DOMAIN feed |-> Stage(m)'] /\ stage = [m \in DOMAIN feed |-> stage[m]]
    BY <1>6 DEF stage
  <2>5. CASE Handled(n)
    BY <1>12, <2>3, <2>4, <2>5
  <2>6. CASE ~Handled(n)
    BY <1>12, <2>3, <2>4, <2>6
  <2>. QED BY <2>5, <2>6
<1>14. Consistent(feed, stage', db, asked)
  <2> HIDE DEF n
  <2>1. CASE Handled(n)
    BY <1>13, <2>1 DEF CalmInv
  <2>2. CASE ~Handled(n)
    <3>1. /\ Consistent(feed, stage, db, asked) /\ stage[n] = "none" /\ DOMAIN stage = DOMAIN feed
          /\ n \in DOMAIN feed
      BY <1>4, <1>12, <2>2 DEF CalmInv, stage, n
    <3>2. stage[n] \in NotYet /\ start \in NotYet
      BY <1>5, <3>1 DEF NotYet, Early
    <3>3. Consistent(feed, [stage EXCEPT ![n] = start], db, asked)
      BY <3>1, <3>2, Unwritten, Silent
    <3>. QED BY <1>13, <2>2, <3>3
  <2>. QED BY <2>1, <2>2
<1>. QED BY <1>2, <1>8, <1>10, <1>11, <1>14, QueueCalm

LEMMA CompleteCalm ==
    ASSUME HandlersInv, InOrder, CalmInv, NEW w \in Worker, CompleteJob(w)
    PROVE  CalmInv'
<1>1. PICK j \in Job : At(w, j, "return")
  BY AtStatement DEF CompleteJob, Step
<1> DEFINE n == j.event
<1>2. /\ state' = [state EXCEPT ![j] = "done"] /\ running' = [running EXCEPT ![w] = NoJob]
      /\ UNCHANGED <<scenario, sent, db, asked>>
      /\ pc[w] = "return" /\ running[w] = j /\ n \in DOMAIN feed /\ feed' = feed
  BY <1>1 DEF CompleteJob, Complete, At, feed
<1>3. /\ state \in [Job -> JobState] /\ running \in [Worker -> Job \cup {NoJob}]
      /\ state[j] = "active"
  <2>1. running[w] # NoJob
    BY <1>2, QueueAssumption
  <2>. QED BY <1>2, <2>1 DEF HandlersInv, QueueInv, Types, QueueTypeOK
<1>4. /\ state'[j] = "done" /\ \A k \in Job \ {j} : state'[k] = state[k]
      /\ \A v \in Worker, k \in Job : running[v] = k => v = w /\ k = j
  BY <1>2, <1>3, OnlyWorker
<1>5. \A v \in Worker, k \in Job : running'[v] # k
  BY <1>2, <1>3, <1>4, QueueAssumption
<1>6. Served'
  <2>1. \A d \in 1..Copies : d > scenario'.copies => sent'[d] = 0
    BY <1>2 DEF CalmInv, Served
  <2>2. \A k \in Job : state'[k] \in {"new", "wait", "active", "done"}
    BY <1>4 DEF CalmInv, Served
  <2>3. ASSUME NEW i \in Job, NEW k \in Job, i.copy = k.copy, k.event < i.event,
               state'[i] \in {"active", "done"}
        PROVE  state'[k] = "done"
    <3>1. state[i] \in {"active", "done"}
      BY <1>3, <1>4, <2>3
    <3>2. state[k] = "done"
      BY <2>3, <3>1 DEF CalmInv, Served
    <3>. QED BY <1>4, <3>2
  <2>. QED BY <2>1, <2>2, <2>3 DEF Served
<1>7. Serving'
  BY <1>5 DEF Serving
<1>8. Written' = Written
  <2>1. \A k \in Job : k \in Written <=> state[k] = "done" \/ k = j
    BY <1>2, <1>4 DEF Written
  <2>2. \A k \in Job : k \in Written' <=> state'[k] = "done"
    BY <1>5 DEF Written
  <2>. QED BY <1>4, <2>1, <2>2 DEF Written
<1>9. \A m : Handled(m)' <=> Handled(m) \/ m = n
  BY <1>4 DEF Handled
<1>10. /\ stage[n] = IF Handled(n) THEN "done" ELSE "return"
       /\ \A m \in DOMAIN feed \ {n} : stage[m] = IF Handled(m) THEN "done" ELSE "none"
  <2>1. \A m : Begun(m) <=> m = n
    BY <1>2, <1>4 DEF Begun
  <2>2. (CHOOSE v \in Worker : running[v] # NoJob) = w
    BY <1>2, OnlyWorker
  <2> HIDE DEF n
  <2>3. pc[CHOOSE v \in Worker : running[v] # NoJob] = "return"
    BY <1>2, <2>2
  <2>. QED BY <1>2, <2>1, <2>3 DEF stage, Stage
<1>11. \A m \in DOMAIN feed : stage'[m] = IF Handled(m) \/ m = n THEN "done" ELSE "none"
  <2>1. \A m : ~Begun(m)'
    BY <1>5 DEF Begun
  <2>. QED BY <1>2, <1>9, <2>1 DEF stage, Stage
<1>12. stage' = [stage EXCEPT ![n] = "done"]
  <2>1. stage' = [m \in DOMAIN feed |-> stage'[m]] /\ stage = [m \in DOMAIN feed |-> stage[m]]
    BY <1>2 DEF stage
  <2> HIDE DEF n
  <2>. QED BY <1>10, <1>11, <2>1
<1>13. Consistent(feed, stage', db, asked)
  <2>1. n \notin MintsOf(feed) \/ n \in MintsOf(feed)
    OBVIOUS
  <2> HIDE DEF n
  <2>2. /\ Consistent(feed, stage, db, asked) /\ DOMAIN stage = DOMAIN feed
        /\ n \in DOMAIN feed /\ stage[n] \in {"done", "return"}
    BY <1>2, <1>10 DEF CalmInv, stage
  <2>3. /\ Rowed(feed, n, "done") <=> Rowed(feed, n, stage[n])
        /\ Learned(feed, n, "done") = Learned(feed, n, stage[n])
        /\ AskedFor(feed, n, "done") = AskedFor(feed, n, stage[n])
        /\ Claims(feed, n, "done") = Claims(feed, n, stage[n])
        /\ stage[n] \in Moved <=> "done" \in Moved
    BY <2>2 DEF Rowed, Learned, AskedFor, Claims, Moved, NotYet, Early, Finding
  <2>4. Consistent(feed, [stage EXCEPT ![n] = "done"], db, asked)
    BY <2>2, <2>3, Silent
  <2>. QED BY <1>12, <2>4
<1>. QED BY <1>2, <1>6, <1>7, <1>8, <1>13, QueueCalm

LEMMA CalmInit == Init => CalmInv
<1> SUFFICES ASSUME Init
             PROVE  CalmInv
  OBVIOUS
<1>1. /\ scenario \in Scenarios
      /\ \A c \in 1..Copies : sent[c] = 0
      /\ \A j \in Job : state[j] = "new"
      /\ \A w \in Worker : running[w] = NoJob
      /\ db = EmptyDb /\ asked = [metadata |-> {}, backpack |-> {}]
  BY DEF Init, QueueInit
<1>2. DOMAIN feed \subseteq 1..MaxLength
  BY <1>1, FeedType
<1>3. \A w \in Worker, j \in Job : running[w] # j
  BY <1>1, QueueAssumption
<1>4. Served
  BY <1>1 DEF Served
<1>5. Serving
  BY <1>3 DEF Serving
<1>6. \A n \in DOMAIN feed : stage[n] = "none"
  BY <1>1, <1>3 DEF stage, Stage, Handled, Begun
<1>7. Consistent(feed, stage, db, asked)
  <2>1. \A n \in DOMAIN feed :
           /\ ~Rowed(feed, n, stage[n]) /\ Learned(feed, n, stage[n]) = {}
           /\ AskedFor(feed, n, stage[n]) = {} /\ Claims(feed, n, stage[n]) = {}
           /\ stage[n] \notin Moved
    BY <1>6, Unwritten DEF NotYet
  <2>2. \A t : MovesDone(feed, stage, t) = {}
    BY <2>1 DEF MovesDone, EventsOf
  <2>3. \A t : HolderAt(feed, stage, t) = None
    BY <2>2 DEF HolderAt, HolderBy
  <2>4. /\ \A n \in DOMAIN feed : db.event[n] = None
        /\ db.knownTraits = {} /\ asked.backpack = {} /\ db.redemption = {}
        /\ \A t \in Token : db.backpack[t] = None
    BY <1>1, <1>2 DEF EmptyDb
  <2>5. None # "MINT"
    BY NoneAssumption DEF EventType
  <2>. QED BY <2>1, <2>3, <2>4, <2>5 DEF Consistent
<1>8. Written = {}
  BY <1>1, <1>3 DEF Written
<1>9. ASSUME NEW kinds, NEW value, \A t \in Token : value[t] = 0
      PROVE  Newest(kinds, value, Written)
  <2> SUFFICES ASSUME NEW t \in Token, Of(kinds, t) # {}
               PROVE  \E j \in Job : j.event = LastOf(Of(kinds, t)) /\ j.copy <= scenario.copies
    BY <1>8, <1>9 DEF Newest
  <2>1. LastOf(Of(kinds, t)) \in 1..MaxLength
    BY <1>1, LastOfKind
  <2>2. scenario.copies \in 1..Copies /\ Copies \in Nat
    BY <1>1, ScenarioAssumption, BoundsAssumption
  <2> DEFINE m == LastOf(Of(kinds, t))  j == [copy |-> 1, event |-> m]
  <2> HIDE DEF m
  <2>3. j \in Job /\ j.event = m /\ j.copy <= scenario.copies
    BY <2>1, <2>2 DEF Job, m
  <2>. QED BY <2>3 DEF m
<1>10. Newest(Stocks, db.stock, Written) /\ Newest(Votes, db.vote, Written)
  BY <1>1, <1>9 DEF EmptyDb
<1>. QED BY <1>4, <1>5, <1>7, <1>10 DEF CalmInv

LEMMA CalmNext ==
    ASSUME HandlersInv, RowsMatch, SentInv, Calm, InOrder, CalmInv, [Next]_vars
    PROVE  CalmInv'
<1>1. /\ db \in Tables /\ throws + crashes <= 0 /\ requests <= 0
      /\ throws \in Nat /\ crashes \in Nat /\ requests \in Nat
  BY DEF HandlersInv, Types, Calm, IsCalm
<1>2. ASSUME NEW w \in Worker, Statement(w)
      PROVE  CalmInv'
  <2>1. PICK j \in Job : \E next : running[w] = j /\ CalmMove(w, j, next)
    BY <1>2, StatementCalm
  <2>2. PICK next : running[w] = j /\ CalmMove(w, j, next)
    BY <2>1
  <2>. QED BY <2>2, MoveCalm
<1>3. ~Crash /\ \A w \in Worker : ~HandlerThrows(w) /\ ~SwallowError(w)
  BY <1>1 DEF Crash, HandlerThrows, SwallowError, Calm, IsCalm
<1>4. \A j \in Job : ~CheckStalled(j) /\ ~PromoteDelayed(j)
  BY DEF CheckStalled, RecoverStalled, PromoteDelayed, Promote, CalmInv, Served
<1>5. \A t \in Token : ~GetVotingPower(t)
  BY <1>1 DEF GetVotingPower, Calm, IsCalm
<1>6. \A a \in Address, t \in Token : ~CheckProfilePicture(a, t)
  BY <1>1 DEF CheckProfilePicture, Calm, IsCalm
<1>7. ASSUME NEW a \in Address, SetProfilePicture(a)
      PROVE  CalmInv'
  BY <1>1, <1>7, CalmStays DEF SetProfilePicture, handler, blocksQueue
<1>8. CASE UNCHANGED vars
  BY <1>1, <1>8, CalmStays DEF vars, handler, blocksQueue
<1>. QED
  BY <1>2, <1>3, <1>4, <1>5, <1>6, <1>7, <1>8, SendCalm, TakeCalm, CompleteCalm DEF Next

(* With one worker and no fault, the tables hold at every moment exactly what
   the events handled so far have left, whatever the streams repeat: each
   handler finds the tables as the events before its own have left them.   *)
THEOREM CalmInvariant == Spec => [](Calm => CalmInv)
<1>1. HandlersInv /\ FeedOrder /\ (Calm => CalmInv) /\ [Next]_vars => (Calm => CalmInv)'
  <2> SUFFICES ASSUME HandlersInv, FeedOrder, Calm => CalmInv, [Next]_vars, Calm'
               PROVE  CalmInv'
    OBVIOUS
  <2>1. Calm
    BY ScenarioStays DEF Calm, IsCalm
  <2>. QED BY <2>1, CalmNext DEF FeedOrder
<1>2. Init => (Calm => CalmInv)
  BY CalmInit
<1>. QED BY <1>1, <1>2, HandlersInvariant, FeedOrderInvariant, PTL DEF Spec
-------------------------------------------------------------------------------
(* The empty queue                                                         *)

LEMMA AllHandled ==
    ASSUME HandlersInv, SentInv, CalmInv, Settled
    PROVE  /\ \A n \in DOMAIN feed : stage[n] = "done"
           /\ \A j \in Job : j.event \in DOMAIN feed /\ j.copy <= scenario.copies => j \in Written
<1>1. /\ scenario.copies \in 1..Copies /\ Copies \in Nat /\ DOMAIN feed \subseteq 1..MaxLength
      /\ DOMAIN feed = 1..Len(feed) /\ Len(feed) \in Nat
  BY FeedType, ScenarioAssumption, BoundsAssumption DEF HandlersInv, Types, feed
<1>2. ASSUME NEW j \in Job, j.event \in DOMAIN feed, j.copy <= scenario.copies
      PROVE  state[j] = "done"
  <2>1. j.copy \in 1..Copies
    BY DEF Job
  <2>2. j.copy \in 1..scenario.copies
    BY <1>1, <1>2, <2>1
  <2>3. sent[j.copy] = Len(feed)
    BY <2>2 DEF Settled
  <2>4. ~(sent[j.copy] < j.event)
    BY <1>1, <1>2, <2>3
  <2>5. state[j] # "new"
    BY <2>4 DEF SentInv
  <2>. QED BY <2>5 DEF Settled, CalmInv, Served
<1>3. \A n \in DOMAIN feed : Handled(n)
  <2> SUFFICES ASSUME NEW n \in DOMAIN feed
               PROVE  Handled(n)
    OBVIOUS
  <2> DEFINE j == [copy |-> 1, event |-> n]
  <2>1. j \in Job /\ j.event = n /\ j.copy <= scenario.copies
    BY <1>1 DEF Job
  <2>. QED BY <1>2, <2>1 DEF Handled
<1>. QED BY <1>2, <1>3 DEF stage, Stage, Written

LEMMA InTraitsOnChain ==
    ASSUME NEW t
    PROVE  t \in TraitsOnChain <=>
              \/ \E n \in MintsOf(feed) : t \in Traits(feed[n])
              \/ t \in Token /\ Of({"TRAIT_REDEMPTION"}, t) # {}
<1> DEFINE S == {Traits(feed[n]) : n \in MintsOf(feed)}
           R == {x \in Token : Of({"TRAIT_REDEMPTION"}, x) # {}}
<1>1. TraitsOnChain = R \cup UNION S
  BY DEF TraitsOnChain
<1>2. t \in R <=> t \in Token /\ Of({"TRAIT_REDEMPTION"}, t) # {}
  OBVIOUS
<1>3. \A x : x \in S <=> \E n \in MintsOf(feed) : x = Traits(feed[n])
  OBVIOUS
<1> HIDE DEF S, R
<1>4. t \in UNION S => \E n \in MintsOf(feed) : t \in Traits(feed[n])
  <2> SUFFICES ASSUME NEW x \in S, t \in x
               PROVE  \E n \in MintsOf(feed) : t \in Traits(feed[n])
    OBVIOUS
  <2>. QED BY <1>3
<1>5. ASSUME NEW n \in MintsOf(feed), t \in Traits(feed[n])
      PROVE  t \in UNION S
  <2>1. Traits(feed[n]) \in S
    BY <1>3
  <2>. QED BY <1>5, <2>1
<1>6. (\E n \in MintsOf(feed) : t \in Traits(feed[n])) => t \in UNION S
  BY <1>5
<1>7. t \in TraitsOnChain <=> t \in UNION S \/ t \in R
  BY <1>1
<1>. QED BY <1>2, <1>4, <1>6, <1>7

LEMMA SettledHolds == HandlersInv /\ FeedOrder /\ (Calm => CalmInv) => SettledIsChain
<1> SUFFICES ASSUME HandlersInv, FeedOrder, CalmInv, Settled
             PROVE  /\ \A n \in DOMAIN feed : db.event[n] = "MINT" <=>
                          Minted(feed[n].token) /\ n = MintOf(feed[n].token)
                    /\ db.knownTraits = TraitsOnChain
                    /\ asked.backpack = db.knownTraits
                    /\ \A t \in Token :
                          /\ db.backpack[t] = HolderOnChain(t)
                          /\ db.stock[t] = LastValue(Stocks, t)
                          /\ db.vote[t] = LastValue(Votes, t)
  BY DEF SettledIsChain, Stocks, Votes
<1>1. /\ \A n \in DOMAIN feed : stage[n] = "done"
      /\ \A j \in Job : j.event \in DOMAIN feed /\ j.copy <= scenario.copies => j \in Written
  BY AllHandled DEF FeedOrder
<1>2. /\ scenario \in Scenarios /\ DOMAIN feed \subseteq 1..MaxLength
      /\ \A n \in DOMAIN feed : feed[n] \in ChainEvent
      /\ \A n \in DOMAIN feed : feed[n].token \in Token
      /\ DOMAIN feed = 1..Len(feed)
      /\ db \in Tables /\ asked.backpack \subseteq Token
      /\ Consistent(feed, stage, db, asked)
  BY FeedType, EventFields, ScenarioAssumption DEF HandlersInv, Types, CalmInv, feed
<1>3. \A n \in DOMAIN feed :
         /\ Rowed(feed, n, "done") <=> feed[n].kind \in KeepsRow \cup {"SCALAR_TRANSFER"}
         /\ Learned(feed, n, "done") = IF n \in MintsOf(feed) THEN Traits(feed[n])
                                       ELSE IF feed[n].kind = "TRAIT_REDEMPTION"
                                       THEN {feed[n].token} ELSE {}
         /\ AskedFor(feed, n, "done") = Learned(feed, n, "done")
  BY DEF Rowed, Learned, AskedFor, Traits, NotYet, Early, Finding, Moved
<1>4. \A n \in DOMAIN feed :
         n \in MintsOf(feed) <=> Minted(feed[n].token) /\ n = MintOf(feed[n].token)
  BY <1>2, MintKind DEF MintsOf, Pills, Minted, MintOf
<1>5. ASSUME NEW n \in DOMAIN feed
      PROVE  db.event[n] = "MINT" <=> Minted(feed[n].token) /\ n = MintOf(feed[n].token)
  <2>1. db.event[n] = "MINT" <=> n \in MintsOf(feed) /\ Rowed(feed, n, "done")
    BY <1>1, <1>2 DEF Consistent
  <2>2. n \in MintsOf(feed) => Rowed(feed, n, "done")
    BY <1>2, <1>3, MintKind DEF KeepsRow
  <2>. QED BY <1>4, <2>1, <2>2
<1>6. \A t : t \in db.knownTraits <=> \E n \in DOMAIN feed : t \in Learned(feed, n, "done")
  BY <1>1, <1>2 DEF Consistent
<1>7. \A t : t \in asked.backpack <=> \E n \in DOMAIN feed : t \in Learned(feed, n, "done")
  BY <1>1, <1>2, <1>3 DEF Consistent
<1>8. db.knownTraits = TraitsOnChain
  <2>1. ASSUME NEW t, t \in TraitsOnChain
        PROVE  \E n \in DOMAIN feed : t \in Learned(feed, n, "done")
    <3>1. CASE \E n \in MintsOf(feed) : t \in Traits(feed[n])
      BY <1>2, <1>3, <3>1, MintKind
    <3>2. CASE Of({"TRAIT_REDEMPTION"}, t) # {}
      <4>1. PICK n \in DOMAIN feed : feed[n].kind = "TRAIT_REDEMPTION" /\ feed[n].token = t
        BY <3>2 DEF Of, EventsOf
      <4>2. n \notin MintsOf(feed)
        BY <1>2, <4>1, MintKind
      <4>. QED BY <1>3, <4>1, <4>2
    <3>. QED BY <2>1, <3>1, <3>2, InTraitsOnChain
  <2>2. ASSUME NEW t, NEW n \in DOMAIN feed, t \in Learned(feed, n, "done")
        PROVE  t \in TraitsOnChain
    <3>1. CASE n \in MintsOf(feed)
      <4>1. t \in Traits(feed[n])
        BY <1>3, <2>2, <3>1
      <4>. QED BY <3>1, <4>1, InTraitsOnChain
    <3>2. CASE n \notin MintsOf(feed)
      <4>1. feed[n].kind = "TRAIT_REDEMPTION" /\ t = feed[n].token
        BY <1>3, <2>2, <3>2
      <4>2. n \in Of({"TRAIT_REDEMPTION"}, t) /\ t \in Token
        BY <1>2, <4>1 DEF Of, EventsOf
      <4>. QED BY <4>2, InTraitsOnChain
    <3>. QED BY <3>1, <3>2
  <2>. QED BY <1>6, <2>1, <2>2
<1>9. asked.backpack = db.knownTraits
  BY <1>6, <1>7
<1>10. ASSUME NEW t \in Token
       PROVE  db.backpack[t] = HolderOnChain(t)
  <2>1. MovesDone(feed, stage, t) = EventsOf(feed, TraitMoves, t)
    BY <1>1 DEF MovesDone, EventsOf, Moved
  <2>2. {n \in EventsOf(feed, TraitMoves, t) : n <= Len(feed)} = EventsOf(feed, TraitMoves, t)
    BY <1>2 DEF EventsOf
  <2>3. HolderAt(feed, stage, t) = HolderOnChain(t)
    BY <2>1, <2>2 DEF HolderAt, HolderBy, HolderOnChain, HolderAfter, Minted
  <2>. QED BY <1>2, <2>3 DEF Consistent
<1>11. ASSUME NEW kinds, NEW value, Newest(kinds, value, Written), NEW t \in Token
       PROVE  value[t] = LastValue(kinds, t)
  <2>1. CASE Of(kinds, t) = {}
    BY <1>11, <2>1 DEF Newest, LastValue
  <2>2. CASE Of(kinds, t) # {}
    <3>1. LastOf(Of(kinds, t)) \in DOMAIN feed
      BY <1>2, <2>2, LastOfKind
    <3>. QED BY <1>1, <1>11, <2>2, <3>1 DEF Newest, LastValue
  <2>. QED BY <2>1, <2>2
<1>12. ASSUME NEW t \in Token
       PROVE  db.stock[t] = LastValue(Stocks, t) /\ db.vote[t] = LastValue(Votes, t)
  BY <1>11 DEF CalmInv
<1>. QED BY <1>5, <1>8, <1>9, <1>10, <1>12

(* When every stream has sent the whole chain and the queue is empty, the
   tables are what the chain says, however often the events were delivered
   and however the copies interleaved: the pills' mints, the traits known and
   asked for, the owners of the backpack, the stocks and the votes.         *)
THEOREM SettledAsTheChain == Spec => []SettledIsChain
BY SettledHolds, HandlersInvariant, FeedOrderInvariant, CalmInvariant, PTL

-------------------------------------------------------------------------------
(* Which jobs have no row but an error of their own to show for it         *)

(* The handler of the job is past its row, or complete.                    *)
BeforeRow == {"idle", "findEvent", "createEvent"}
Passed(j) ==
    \/ state[j] = "done"
    \/ \E w \in Worker : running[w] = j /\ pc[w] \notin BeforeRow

Missing(j) ==
    /\ j.event \in DOMAIN feed /\ feed[j.event].kind = "SCALAR_TRANSFER"
    /\ db.event[j.event] = None

Skipped == {j \in Job : Passed(j) /\ Missing(j)}
SkippedInv == IsFiniteSet(Skipped) /\ Cardinality(Skipped) <= throws

(* No step takes a row back.                                               *)
LEMMA MissingBefore ==
    ASSUME HandlersInv, [Next]_vars, NEW j \in Job, Missing(j)'
    PROVE  Missing(j)
<1>1. db \in Tables /\ scenario \in Scenarios /\ scenario' = scenario /\ feed' = feed
  BY ScenarioStays DEF HandlersInv, Types, feed
<1>2. j.event \in 1..MaxLength
  BY <1>1, FeedType DEF Missing
<1>3. ASSUME NEW w \in Worker, Statement(w)
      PROVE  Missing(j)
  <2>1. PICK i \in Job, s \in Step \ {"idle"} :
           At(w, i, s) /\ (Advances(w, i, s) \/ GivesUp(w, i, s))
    BY <1>3, StatementEffect DEF Effect
  <2>2. CASE GivesUp(w, i, s) \/ db'.event = db.event
    BY <1>1, <2>2 DEF GivesUp, Refused, Missing
  <2>3. ASSUME NEW x \in EventType, db'.event = [db.event EXCEPT ![i.event] = x]
        PROVE  Missing(j)
    BY <1>1, <1>2, <2>3, NoneAssumption DEF Missing, Tables
  <2>. QED BY <2>1, <2>2, <2>3 DEF Advances, RowEffect
<1>4. ASSUME NEW a \in Address, SetProfilePicture(a)
      PROVE  Missing(j)
  BY <1>1, <1>4, OtherTables DEF SetProfilePicture, Missing
<1>5. ASSUME NEW t \in Token, GetVotingPower(t)
      PROVE  Missing(j)
  <2>1. db'.event = db.event
    BY <1>1, <1>5 DEF GetVotingPower, Tables
  <2>. QED BY <1>1, <2>1 DEF Missing
<1>6. CASE db' = db
  BY <1>1, <1>6 DEF Missing
<1>7. Next => \/ \E w \in Worker : Statement(w)
              \/ \E a \in Address : SetProfilePicture(a)
              \/ \E t \in Token : GetVotingPower(t)
              \/ db' = db
  BY DEF Next, QueueIndexBlockData, IndexBlock, CompleteJob, HandlerThrows, SwallowError,
         PromoteDelayed, CheckStalled, Crash, CheckProfilePicture
<1>. QED BY <1>3, <1>4, <1>5, <1>6, <1>7 DEF vars

(* Each statement is awaited at a place of its own.                        *)
LEMMA StatementAt ==
    ASSUME NEW w, Statement(w)
    PROVE  /\ pc[w] = "findEvent" => FindEvent(w)
           /\ pc[w] = "createEvent" => CreateEvent(w)
<1> USE DEF Reads, Writes, Asks, Inserts, Changes, Refused
<1>1. CASE FindMinted(w) \/ CreateChange(w) \/ CreateMint(w) \/ CreateBG(w) \/ QueueBG(w)
  BY <1>1 DEF FindMinted, CreateChange, CreateMint, CreateBG, QueueBG
<1>2. CASE CreateIng(w) \/ QueueIng(w) \/ QueueMetadata(w) \/ CheckIfIsPill(w)
  BY <1>2 DEF CreateIng, QueueIng, QueueMetadata, CheckIfIsPill
<1>3. CASE FindPicture(w) \/ ClearPicture(w) \/ FindBackpack(w) \/ UpdateBackpack(w)
  BY <1>3 DEF FindPicture, ClearPicture, FindBackpack, UpdateBackpack
<1>4. CASE CreateBackpack(w) \/ DeleteBackpack(w) \/ FindStock(w) \/ UpdateStock(w)
  BY <1>4 DEF CreateBackpack, DeleteBackpack, FindStock, UpdateStock
<1>5. CASE CreateStock(w) \/ FindVote(w) \/ UpdateVote(w) \/ CreateVote(w)
  BY <1>5 DEF CreateStock, FindVote, UpdateVote, CreateVote
<1>6. CASE FindRedemption(w) \/ CreateRedemption(w) \/ FindKnown(w) \/ CreateKnown(w)
  BY <1>6 DEF FindRedemption, CreateRedemption, FindKnown, CreateKnown
<1>7. CASE QueueTrait(w) \/ FindPower(w) \/ CreatePower(w)
  BY <1>7 DEF QueueTrait, FindPower, CreatePower
<1>8. CASE FindEvent(w)
  BY <1>8 DEF FindEvent
<1>9. CASE CreateEvent(w)
  BY <1>9 DEF CreateEvent
<1>. QED BY <1>1, <1>2, <1>3, <1>4, <1>5, <1>6, <1>7, <1>8, <1>9 DEF Statement

LEMMA StatementThrows ==
    ASSUME NEW w, Statement(w)
    PROVE  throws' = throws
<1> USE DEF Reads, Writes, Asks, Inserts, Changes, Refused, faults
<1>1. CASE FindMinted(w) \/ CreateChange(w) \/ CreateMint(w) \/ CreateBG(w) \/ QueueBG(w)
  BY <1>1 DEF FindMinted, CreateChange, CreateMint, CreateBG, QueueBG
<1>2. CASE CreateIng(w) \/ QueueIng(w) \/ QueueMetadata(w) \/ CheckIfIsPill(w)
  BY <1>2 DEF CreateIng, QueueIng, QueueMetadata, CheckIfIsPill
<1>3. CASE FindPicture(w) \/ ClearPicture(w) \/ FindBackpack(w) \/ UpdateBackpack(w)
  BY <1>3 DEF FindPicture, ClearPicture, FindBackpack, UpdateBackpack
<1>4. CASE CreateBackpack(w) \/ DeleteBackpack(w) \/ FindStock(w) \/ UpdateStock(w)
  BY <1>4 DEF CreateBackpack, DeleteBackpack, FindStock, UpdateStock
<1>5. CASE CreateStock(w) \/ FindVote(w) \/ UpdateVote(w) \/ CreateVote(w)
  BY <1>5 DEF CreateStock, FindVote, UpdateVote, CreateVote
<1>6. CASE FindRedemption(w) \/ CreateRedemption(w) \/ FindKnown(w) \/ CreateKnown(w)
  BY <1>6 DEF FindRedemption, CreateRedemption, FindKnown, CreateKnown
<1>7. CASE QueueTrait(w) \/ FindPower(w) \/ CreatePower(w)
  BY <1>7 DEF QueueTrait, FindPower, CreatePower
<1>8. CASE FindEvent(w)
  BY <1>8 DEF FindEvent
<1>9. CASE CreateEvent(w)
  BY <1>9 DEF CreateEvent
<1>. QED BY <1>1, <1>2, <1>3, <1>4, <1>5, <1>6, <1>7, <1>8, <1>9 DEF Statement

(* A handler passes its row only with the row, unless it swallows an error. *)
LEMMA StatementSkips ==
    ASSUME HandlersInv, NEW w \in Worker, Statement(w), NEW j \in Job, Passed(j)', Missing(j)'
    PROVE  Passed(j)
<1>1. /\ db \in Tables /\ pc \in [Worker -> Step] /\ state \in [Job -> JobState]
      /\ running \in [Worker -> Job \cup {NoJob}] /\ j # NoJob
  BY QueueAssumption DEF HandlersInv, Types, QueueTypeOK
<1>2. PICK i \in Job, s \in Step \ {"idle"} :
         At(w, i, s) /\ (Advances(w, i, s) \/ GivesUp(w, i, s))
  BY StatementEffect DEF Effect
<1>3. CASE GivesUp(w, i, s)
  <2>1. /\ state'[i] # "done" /\ \A k \in Job \ {i} : state'[k] = state[k]
        /\ running'[w] = NoJob
        /\ \A v \in Worker \ {w} : pc'[v] = pc[v] /\ running'[v] = running[v]
    BY <1>1, <1>2, <1>3 DEF GivesUp, Refused, Reject, Goto, At
  <2>. QED BY <1>1, <2>1 DEF Passed
<1>4. CASE Advances(w, i, s)
  <2>1. /\ UNCHANGED <<scenario, state, running>>
        /\ \A v \in Worker \ {w} : pc'[v] = pc[v]
    BY <1>1, <1>4 DEF Advances
  <2>2. CASE j # i \/ s \notin BeforeRow
    BY <1>2, <2>1, <2>2 DEF Passed, At
  <2>3. CASE pc'[w] \in BeforeRow
    BY <1>2, <2>1, <2>3 DEF Passed, BeforeRow
  <2>4. /\ feed' = feed /\ feed[i.event].kind = Event(w).kind /\ running[w] = i
        /\ i.event \in 1..MaxLength
    BY <1>2, <2>1 DEF At, feed
  <2>5. ASSUME j = i, s = "findEvent", pc'[w] \notin BeforeRow
        PROVE  FALSE
    <3>1. FindEvent(w)
      BY <1>2, <2>5, StatementAt DEF At
    <3>2. db' = db /\ Event(w).kind = "SCALAR_TRANSFER" /\ ~Indexed(w)
      BY <2>4, <2>5, <3>1 DEF FindEvent, Reads, Missing, Indexed
    <3>. QED BY <1>1, <2>5, <3>1, <3>2 DEF FindEvent, Reads, Goto, BeforeRow
  <2>6. ASSUME j = i, s = "createEvent", pc'[w] \notin BeforeRow
        PROVE  FALSE
    <3>1. CreateEvent(w)
      BY <1>2, <2>6, StatementAt DEF At
    <3>2. Event(w).kind = "SCALAR_TRANSFER"
      BY <2>4, <2>6 DEF Missing
    <3>3. CASE Indexed(w) /\ db' = db
      BY <2>4, <2>6, <3>3 DEF Missing, Indexed
    <3>4. CASE db' = WithRow(w, "SCALAR_TRANSFER")
      BY <1>1, <2>4, <2>6, <3>4, NoneAssumption DEF Missing, WithRow, Tables, EventType
    <3>5. ~Refused(w, "createEvent")
      BY <1>1, <2>6 DEF Refused, Goto, BeforeRow
    <3>. QED BY <3>1, <3>2, <3>3, <3>4, <3>5 DEF CreateEvent, Inserts, Reads, Writes, RowType
  <2>. QED BY <1>2, <2>2, <2>3, <2>5, <2>6 DEF BeforeRow
<1>. QED BY <1>2, <1>3, <1>4

(* So each step adds no job, but for an error that is swallowed, one.      *)
LEMMA SkippedNext ==
    ASSUME HandlersInv, SkippedInv, [Next]_vars
    PROVE  SkippedInv'
<1>1. /\ db \in Tables /\ pc \in [Worker -> Step] /\ state \in [Job -> JobState]
      /\ running \in [Worker -> Job \cup {NoJob}] /\ NoJob \notin Job
      /\ throws \in Nat /\ scenario \in Scenarios
  BY QueueAssumption DEF HandlersInv, Types, QueueTypeOK
<1>2. IsFiniteSet(Skipped) /\ Cardinality(Skipped) \in Nat /\ Cardinality(Skipped) <= throws
  BY FS_CardinalityType DEF SkippedInv
<1>3. ASSUME throws' \in Nat, throws <= throws',
             \A j \in Job : Passed(j)' /\ Missing(j)' => Passed(j)
      PROVE  SkippedInv'
  <2>1. Skipped' \subseteq Skipped
    BY <1>3, MissingBefore DEF Skipped
  <2>2. /\ IsFiniteSet(Skipped') /\ Cardinality(Skipped') <= Cardinality(Skipped)
        /\ Cardinality(Skipped') \in Nat
    BY <1>2, <2>1, FS_Subset, FS_CardinalityType
  <2>. QED BY <1>1, <1>2, <1>3, <2>2 DEF SkippedInv
<1>4. ASSUME NEW w \in Worker, Statement(w)
      PROVE  SkippedInv'
  <2>1. throws' = throws
    BY <1>4, StatementThrows
  <2>. QED BY <1>1, <1>3, <1>4, <2>1, StatementSkips
<1>5. ASSUME NEW w \in Worker, NEW i \in Job, IndexBlock(w, i)
      PROVE  SkippedInv'
  <2>1. /\ throws' = throws /\ feed' = feed
        /\ \A v \in Worker \ {w} : pc'[v] = pc[v] /\ running'[v] = running[v]
        /\ running'[w] = i /\ pc'[w] = HandlerStart(feed[i.event].kind)
        /\ state'[i] = "active" /\ \A k \in Job \ {i} : state'[k] = state[k]
    BY <1>1, <1>5 DEF IndexBlock, Take, Goto, faults, feed
  <2>2. Missing(i)' => pc'[w] = "findEvent"
    BY <2>1 DEF Missing, HandlerStart
  <2>. QED BY <1>1, <1>3, <2>1, <2>2 DEF Passed, BeforeRow
<1>6. ASSUME NEW w \in Worker, CompleteJob(w)
      PROVE  SkippedInv'
  <2>1. PICK i \in Job : running[w] = i
    BY <1>1, <1>6 DEF CompleteJob, Complete
  <2>2. /\ throws' = throws /\ pc[w] = "return"
        /\ \A v \in Worker \ {w} : pc'[v] = pc[v] /\ running'[v] = running[v]
        /\ running'[w] = NoJob /\ \A k \in Job \ {i} : state'[k] = state[k]
    BY <1>1, <1>6, <2>1 DEF CompleteJob, Complete, Goto, faults
  <2>3. Passed(i)
    BY <2>1, <2>2 DEF Passed, BeforeRow
  <2>. QED BY <1>1, <1>3, <2>2, <2>3 DEF Passed
<1>7. ASSUME NEW w \in Worker, HandlerThrows(w)
      PROVE  SkippedInv'
  <2>1. PICK i \in Job : running[w] = i
    BY <1>1, <1>7 DEF HandlerThrows, Reject
  <2>2. /\ throws' = throws + 1
        /\ \A v \in Worker \ {w} : pc'[v] = pc[v] /\ running'[v] = running[v]
        /\ running'[w] = NoJob
        /\ state'[i] # "done" /\ \A k \in Job \ {i} : state'[k] = state[k]
    BY <1>1, <1>7, <2>1 DEF HandlerThrows, Reject, Goto
  <2>. QED BY <1>1, <1>3, <2>2 DEF Passed
<1>8. ASSUME NEW w \in Worker, SwallowError(w)
      PROVE  SkippedInv'
  <2>1. /\ throws' = throws + 1 /\ UNCHANGED <<state, running>>
        /\ \A v \in Worker \ {w} : pc'[v] = pc[v]
    BY <1>1, <1>8 DEF SwallowError, Goto, blocksQueue
  <2>2. \A j \in Job : Passed(j)' => Passed(j) \/ j = running[w]
    BY <2>1 DEF Passed
  <2>3. Skipped' \subseteq Skipped \cup {running[w]}
    BY <2>2, MissingBefore DEF Skipped
  <2>4. /\ IsFiniteSet(Skipped \cup {running[w]})
        /\ Cardinality(Skipped \cup {running[w]}) <= Cardinality(Skipped) + 1
        /\ Cardinality(Skipped \cup {running[w]}) \in Nat
    <3>1. /\ IsFiniteSet(Skipped \cup {running[w]})
          /\ Cardinality(Skipped \cup {running[w]}) =
                IF running[w] \in Skipped THEN Cardinality(Skipped)
                ELSE Cardinality(Skipped) + 1
      BY <1>2, FS_AddElement
    <3>. QED BY <1>2, <3>1
  <2>5. /\ IsFiniteSet(Skipped') /\ Cardinality(Skipped') \in Nat
        /\ Cardinality(Skipped') <= Cardinality(Skipped \cup {running[w]})
    BY <2>3, <2>4, FS_Subset, FS_CardinalityType
  <2>. QED BY <1>1, <1>2, <2>1, <2>4, <2>5 DEF SkippedInv
<1>9. CASE Crash
  <2>1. throws' = throws /\ \A w \in Worker : running'[w] = NoJob
    BY <1>9 DEF Crash, LoseWorkers
  <2>2. \A j \in Job : state'[j] = "done" => state[j] = "done"
    BY <1>1, <1>9 DEF Crash, LoseWorkers
  <2>. QED BY <1>1, <1>3, <2>1, <2>2 DEF Passed
<1>10. ASSUME UNCHANGED <<running, pc, throws>>,
              \A j \in Job : state'[j] = "done" => state[j] = "done"
       PROVE  SkippedInv'
  BY <1>1, <1>3, <1>10 DEF Passed
<1>11. ASSUME NEW c \in 1..Copies, QueueIndexBlockData(c)
       PROVE  SkippedInv'
  BY <1>1, <1>10, <1>11 DEF QueueIndexBlockData, Add, handler, faults
<1>12. ASSUME NEW j \in Job, PromoteDelayed(j) \/ CheckStalled(j)
       PROVE  SkippedInv'
  BY <1>1, <1>10, <1>12
     DEF PromoteDelayed, CheckStalled, Promote, RecoverStalled, handler, faults
<1>13. CASE UNCHANGED <<state, running, pc, throws>>
  BY <1>10, <1>13
<1>14. ASSUME NEW a \in Address, NEW t \in Token, CheckProfilePicture(a, t)
       PROVE  UNCHANGED <<state, running, pc, throws>>
  BY <1>14 DEF CheckProfilePicture, handler, blocksQueue, faults
<1>15. ASSUME NEW a \in Address, SetProfilePicture(a)
       PROVE  UNCHANGED <<state, running, pc, throws>>
  BY <1>15 DEF SetProfilePicture, handler, blocksQueue, faults
<1>16. ASSUME NEW t \in Token, GetVotingPower(t)
       PROVE  UNCHANGED <<state, running, pc, throws>>
  BY <1>16 DEF GetVotingPower, handler, blocksQueue, faults
<1>17. UNCHANGED vars => UNCHANGED <<state, running, pc, throws>>
  BY DEF vars, handler, blocksQueue, faults
<1>. QED
  BY <1>4, <1>5, <1>6, <1>7, <1>8, <1>9, <1>11, <1>12, <1>13, <1>14, <1>15, <1>16, <1>17
     DEF Next

(* A job that completes without its row has met an error of its own in
   handleScalarTransfer, which swallows it: no race, retry, crash or second
   stream ever adds one.                                                   *)
THEOREM RowsOnlyLostToErrors == Spec => []RowsLostToErrors
<1>1. Init => SkippedInv
  <2> SUFFICES ASSUME Init
               PROVE  SkippedInv
    OBVIOUS
  <2>1. Skipped = {}
    BY DEF Init, QueueInit, Skipped, Passed, BeforeRow
  <2>. QED BY <2>1, FS_EmptySet DEF Init, SkippedInv
<1>2. HandlersInv /\ SkippedInv => RowsLostToErrors
  <2> SUFFICES ASSUME HandlersInv, SkippedInv
               PROVE  RowsLostToErrors
    OBVIOUS
  <2>1. WithoutRow \subseteq Skipped
    <3> SUFFICES ASSUME NEW j \in WithoutRow
                 PROVE  j \in Skipped
      OBVIOUS
    <3>1. j \in Job /\ state[j] = "done"
      BY DEF WithoutRow
    <3>2. j.event \in DOMAIN feed
      BY <3>1 DEF HandlersInv, QueueInv
    <3>. QED BY <3>1, <3>2 DEF WithoutRow, Skipped, Passed, Missing
  <2>2. /\ Cardinality(WithoutRow) <= Cardinality(Skipped)
        /\ Cardinality(WithoutRow) \in Nat /\ Cardinality(Skipped) \in Nat
    BY <2>1, FS_Subset, FS_CardinalityType DEF SkippedInv
  <2>. QED BY <2>2 DEF SkippedInv, RowsLostToErrors, HandlersInv, Types
<1>. QED BY <1>1, <1>2, SkippedNext, HandlersInvariant, PTL DEF Spec
===============================================================================
