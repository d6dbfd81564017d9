-------------------------- MODULE BlockHandlersProofs --------------------------
(***************************************************************************)
(* Types, NoOrphans, AcknowledgedIsIndexed and OneRefusal for any chain,   *)
(* any number of streams, loops, failed statements, crashes and requests.  *)
(***************************************************************************)
EXTENDS BlockHandlers, TLAPS

Tables ==
    [event : [1..MaxLength -> EventType \cup {None}], knownTraits : SUBSET Token,
     backpack : [Token -> Address \cup {None}], redemption : SUBSET (Nat \X Token),
     stock : [Token -> Nat], vote : [Token -> Nat], votingPower : SUBSET Token,
     picture : [Address -> Token \cup {None}]]

Types ==
    /\ scenario \in Scenarios
    /\ sent \in [1..Copies -> 0..MaxLength]
    /\ QueueTypeOK
    /\ pc \in [Worker -> Step]
    /\ found \in [Worker -> Address \cup {None}]
    /\ db \in Tables
    /\ asked \in [metadata : SUBSET Token, backpack : SUBSET Token]
    /\ checked \in [Address -> Token \cup {None}]
    /\ throws \in Nat /\ crashes \in Nat /\ requests \in Nat
    /\ throws + crashes <= scenario.faults /\ requests <= scenario.requests

QueueInv ==
    /\ \A w \in Worker : pc[w] = "idle" <=> running[w] = NoJob
    /\ \A w \in Worker : running[w] # NoJob => state[running[w]] = "active"
    /\ \A v, w \in Worker : running[v] = running[w] => v = w \/ running[v] = NoJob
    /\ \A j \in Job : state[j] # "new" => j.event \in DOMAIN feed
    /\ \A j \in Job : state[j] # "failed" => attempts[j] < Attempts

(* The row, or the value, by which a repeated handler of the event ends early
   or goes a way that is not refused.                                      *)
Settles(n) ==
    \/ feed[n].kind \in KeepsRow \cup {"SCALAR_TRANSFER"} /\ db.event[n] # None
    \/ feed[n].kind = "TRAIT_REDEMPTION" /\ <<feed[n].value, feed[n].token>> \in db.redemption
    \/ feed[n].kind = "PHARMACY_STOCK_UPDATED" /\ db.stock[feed[n].token] # 0
    \/ feed[n].kind = "ATTRIBUTE_ADDED" /\ feed[n].token \in db.votingPower

(* What a complete handler leaves, with the handlers that may leave nothing. *)
Kept(n) ==
    \/ Settles(n)
    \/ feed[n].kind \in {"SCALAR_TRANSFER", "PILL_VOTE_TIMESTAMP", "TRAIT_VOTE_TIME_STAMP"}
    \/ feed[n].kind = "ATTRIBUTE_ADDED" /\ feed[n].value # 1

(* The first statements, and all those up to the row.                      *)
Finding == {"findEvent", "findStock", "findVote", "findRedemption", "findPower"}
Early == Finding \cup
    {"findMinted", "createChange", "createMint", "createEvent", "updateStock",
     "createStock", "updateVote", "createVote", "createRedemption", "createPower"}

(* Which handlers have the statement.                                      *)
KindSound(kind, s) ==
    /\ s \in Step \ {"idle"}
    /\ s = "findEvent" => kind \in KeepsRow \cup {"SCALAR_TRANSFER"}
    /\ s \in {"findMinted", "createChange", "createMint", "createBG", "queueBG",
              "createIng", "queueIng"} => kind = "Prescription_Updated"
    /\ s = "queueMetadata" =>
          kind \in {"Prescription_Updated", "PILL_FAME_UPDATED", "PILL_DEFAME_UPDATED"}
    /\ s = "createEvent" => kind \in DOMAIN RowType
    /\ s \in {"checkIfIsPill", "findPicture", "clearPicture", "updateBackpack"} =>
          kind = "Transfer"
    /\ s = "findBackpack" => kind \in {"Transfer", "SCALAR_REMOVE", "SCALAR_TRANSFER"}
    /\ s = "createBackpack" => kind \in {"Transfer", "SCALAR_REMOVE", "TRAIT_REDEMPTION"}
    /\ s = "deleteBackpack" => kind = "SCALAR_TRANSFER"
    /\ s \in {"findStock", "updateStock", "createStock"} => kind = "PHARMACY_STOCK_UPDATED"
    /\ s \in {"findVote", "updateVote", "createVote"} =>
          kind \in {"PILL_VOTE_TIMESTAMP", "TRAIT_VOTE_TIME_STAMP"}
    /\ s \in {"findRedemption", "createRedemption", "findKnown", "createKnown",
              "queueTrait"} => kind = "TRAIT_REDEMPTION"
    /\ s \in {"findPower", "createPower"} => kind = "ATTRIBUTE_ADDED"

(* What a handler has left behind and has read when it comes to statement s. *)
Sound(j, s) ==
    LET n == j.event  e == feed[n] IN
    /\ KindSound(e.kind, s)
    /\ s \notin Early => Kept(n)
    /\ s \in {"createBG", "queueBG", "createIng", "queueIng"} => db.event[n] = "MINT"
    /\ s = "createBG" => e.bg # None
    /\ s = "queueBG" => e.bg \in db.knownTraits
    /\ s = "createIng" => e.ing # None
    /\ s = "queueIng" => e.ing \in db.knownTraits
    /\ s \in {"checkIfIsPill", "findBackpack", "updateBackpack", "createBackpack"} =>
          /\ e.kind = "Transfer" => db.event[n] = "TRANSFER"
          /\ e.kind = "SCALAR_REMOVE" => db.event[n] = "SCALAR_REMOVE"
    /\ s \in {"createBackpack", "queueTrait"} /\ e.kind = "TRAIT_REDEMPTION" =>
          e.token \in db.knownTraits
    /\ s = "updateStock" => db.stock[e.token] # 0

(* Attempts are lost to errors, and one to a race: not before the statement
   that may be refused, for then the row is there.                         *)
Tries(j, s) ==
    LET t == feed[j.event].token IN
    /\ s = "createVote" => attempts[j] <= throws + 2 * requests
    /\ s = "updateVote" /\ db.vote[t] = 0 => attempts[j] < throws + 2 * requests
    /\ s \notin Finding \cup {"return", "updateStock", "createVote", "updateVote"} =>
          attempts[j] <= throws
    /\ s \notin Early \cup {"return"} /\ ~Settles(j.event) => attempts[j] < throws

Bound(j) ==
    IF IsVote(j)
    THEN throws + 2 * requests + (IF db.vote[feed[j.event].token] # 0 THEN 1 ELSE 0)
    ELSE throws + (IF Settles(j.event) THEN 1 ELSE 0)

WorkersSound ==
    \A w \in Worker, j \in Job, s \in Step :
        running[w] = j /\ pc[w] = s => Sound(j, s) /\ Tries(j, s)

JobsInv ==
    \A j \in Job : /\ state[j] = "new" => attempts[j] = 0
                   /\ state[j] # "new" => attempts[j] <= Bound(j)
                   /\ state[j] = "done" => Kept(j.event)

HandlersInv == Types /\ QueueInv /\ WorkersSound /\ JobsInv /\ NoOrphans
-------------------------------------------------------------------------------
(* The chain and the tables                                                *)

LEMMA FeedType ==
    ASSUME scenario \in Scenarios
    PROVE  /\ DOMAIN feed \subseteq 1..MaxLength
           /\ \A n \in DOMAIN feed : feed[n] \in ChainEvent
<1>1. feed \in Seq(ChainEvent) /\ Len(feed) <= MaxLength
  BY ScenarioAssumption DEF feed
<1>2. DOMAIN feed = 1..Len(feed) /\ Len(feed) \in Nat
  BY <1>1
<1>. QED BY <1>1, <1>2, BoundsAssumption

LEMMA EventFields ==
    ASSUME NEW e \in ChainEvent
    PROVE  /\ e.kind \in EventKind /\ e.token \in Token /\ e.value \in Nat
           /\ e.bg \in Token \cup {None} /\ e.ing \in Token \cup {None}
           /\ e.kind \in {"Transfer", "SCALAR_REMOVE", "TRAIT_REDEMPTION"} =>
                 e.to \in Address
           /\ e.kind \in {"PHARMACY_STOCK_UPDATED", "PILL_VOTE_TIMESTAMP",
                          "TRAIT_VOTE_TIME_STAMP"} => e.value # 0
BY DEF ChainEvent

(* The job of a worker and its event.                                      *)
LEMMA JobOf ==
    ASSUME HandlersInv, NEW w \in Worker, pc[w] # "idle"
    PROVE  \E j \in Job : /\ running[w] = j /\ state[j] = "active"
                          /\ j.event \in DOMAIN feed /\ j.event \in 1..MaxLength
                          /\ Event(w) = feed[j.event] /\ feed[j.event] \in ChainEvent
<1>1. running[w] \in Job /\ state[running[w]] = "active"
  BY DEF HandlersInv, QueueInv, Types, QueueTypeOK
<1>2. running[w].event \in DOMAIN feed
  BY <1>1 DEF HandlersInv, QueueInv
<1>3. running[w].event \in 1..MaxLength /\ feed[running[w].event] \in ChainEvent
  BY <1>2, FeedType DEF HandlersInv, Types
<1>. QED BY <1>1, <1>2, <1>3 DEF Event

(* One table changes, the others stay.                                     *)
LEMMA EventTable ==
    ASSUME db \in Tables, NEW n \in 1..MaxLength, NEW x \in EventType,
           db' = [db EXCEPT !.event[n] = x]
    PROVE  /\ db' \in Tables
           /\ db'.event = [db.event EXCEPT ![n] = x]
           /\ UNCHANGED <<db.knownTraits, db.backpack, db.redemption, db.stock, db.vote,
                          db.votingPower>>
BY DEF Tables

LEMMA KnownTable ==
    ASSUME db \in Tables, NEW t \in Token, db' = [db EXCEPT !.knownTraits = @ \cup {t}]
    PROVE  /\ db' \in Tables
           /\ db'.knownTraits = db.knownTraits \cup {t}
           /\ UNCHANGED <<db.event, db.backpack, db.redemption, db.stock, db.vote,
                          db.votingPower>>
BY DEF Tables

LEMMA BackpackTable ==
    ASSUME db \in Tables, NEW t \in Token, NEW a \in Address \cup {None},
           db' = [db EXCEPT !.backpack[t] = a]
    PROVE  /\ db' \in Tables
           /\ db'.backpack = [db.backpack EXCEPT ![t] = a]
           /\ UNCHANGED <<db.event, db.knownTraits, db.redemption, db.stock, db.vote,
                          db.votingPower>>
BY DEF Tables

LEMMA StockTable ==
    ASSUME db \in Tables, NEW t \in Token, NEW v \in Nat,
           db' = [db EXCEPT !.stock[t] = v]
    PROVE  /\ db' \in Tables
           /\ db'.stock = [db.stock EXCEPT ![t] = v]
           /\ UNCHANGED <<db.event, db.knownTraits, db.backpack, db.redemption, db.vote,
                          db.votingPower>>
BY DEF Tables

LEMMA VoteTable ==
    ASSUME db \in Tables, NEW t \in Token, NEW v \in Nat,
           db' = [db EXCEPT !.vote[t] = v]
    PROVE  /\ db' \in Tables
           /\ db'.vote = [db.vote EXCEPT ![t] = v]
           /\ UNCHANGED <<db.event, db.knownTraits, db.backpack, db.redemption, db.stock,
                          db.votingPower>>
BY DEF Tables

LEMMA RedemptionTable ==
    ASSUME db \in Tables, NEW r \in Nat \X Token,
           db' = [db EXCEPT !.redemption = @ \cup {r}]
    PROVE  /\ db' \in Tables
           /\ db'.redemption = db.redemption \cup {r}
           /\ UNCHANGED <<db.event, db.knownTraits, db.backpack, db.stock, db.vote,
                          db.votingPower>>
BY DEF Tables

LEMMA PowerTable ==
    ASSUME db \in Tables, NEW t \in Token, db' = [db EXCEPT !.votingPower = @ \cup {t}]
    PROVE  /\ db' \in Tables
           /\ db'.votingPower = db.votingPower \cup {t}
           /\ UNCHANGED <<db.event, db.knownTraits, db.backpack, db.redemption, db.stock,
                          db.vote>>
BY DEF Tables

LEMMA PictureTable ==
    ASSUME db \in Tables, NEW a, NEW t \in Token \cup {None},
           db' = [db EXCEPT !.picture[a] = t]
    PROVE  /\ db' \in Tables
           /\ UNCHANGED <<db.event, db.knownTraits, db.backpack, db.redemption, db.stock,
                          db.vote, db.votingPower>>
BY DEF Tables

(* What no statement takes back.                                           *)
Grows ==
    /\ scenario' = scenario
    /\ db' \in Tables
    /\ \A n \in 1..MaxLength : db.event[n] # None => db'.event[n] = db.event[n]
    /\ db.knownTraits \subseteq db'.knownTraits
    /\ db.redemption \subseteq db'.redemption
    /\ db.votingPower \subseteq db'.votingPower
    /\ \A t \in Token : db.stock[t] # 0 => db'.stock[t] # 0

VotesStay == \A t \in Token : db.vote[t] # 0 => db'.vote[t] # 0

LEMMA SettlesStays ==
    ASSUME Types, Grows, NEW n \in DOMAIN feed
    PROVE  /\ Settles(n) => Settles(n)'
           /\ Kept(n) => Kept(n)'
<1>1. feed' = feed
  BY DEF Grows, feed
<1>2. n \in 1..MaxLength /\ feed[n].token \in Token
  BY FeedType, EventFields DEF Types
<1>3. Settles(n) => Settles(n)'
  BY <1>1, <1>2 DEF Settles, Grows
<1>. QED BY <1>1, <1>3 DEF Kept

LEMMA SoundStays ==
    ASSUME Types, Grows, NEW j \in Job, j.event \in DOMAIN feed, NEW s \in Step, Sound(j, s)
    PROVE  Sound(j, s)'
<1> DEFINE n == j.event
<1>1. feed' = feed
  BY DEF Grows, feed
<1>2. n \in 1..MaxLength /\ feed[n].token \in Token
  BY FeedType, EventFields DEF Types
<1>3. Kept(n) => Kept(n)'
  BY SettlesStays
<1>4. \A x \in {"MINT", "TRANSFER", "SCALAR_REMOVE"} :
         db.event[n] = x => db'.event[n] = x
  BY <1>2, NoneAssumption DEF Grows, EventType
<1>. QED BY <1>1, <1>2, <1>3, <1>4 DEF Sound, Grows

LEMMA TriesStay ==
    ASSUME Types, Types', Grows, VotesStay, throws <= throws', requests <= requests',
           NEW j \in Job, j.event \in DOMAIN feed, attempts'[j] = attempts[j],
           NEW s \in Step, Tries(j, s)
    PROVE  Tries(j, s)'
<1>1. feed' = feed
  BY DEF Grows, feed
<1>2. feed[j.event].token \in Token
  BY FeedType, EventFields DEF Types
<1>3. Settles(j.event) => Settles(j.event)'
  BY SettlesStays
<1>4. /\ attempts[j] \in Nat /\ throws \in Nat /\ throws' \in Nat
      /\ requests \in Nat /\ requests' \in Nat
  BY QueueAssumption DEF Types, QueueTypeOK
<1>5. db'.vote[feed[j.event].token] = 0 => db.vote[feed[j.event].token] = 0
  BY <1>2 DEF VotesStay
<1>. QED BY <1>1, <1>3, <1>4, <1>5 DEF Tries

LEMMA BoundStays ==
    ASSUME Types, Types', Grows, VotesStay, throws <= throws', requests <= requests',
           NEW j \in Job, j.event \in DOMAIN feed
    PROVE  Bound(j) <= Bound(j)' /\ Bound(j) \in Nat /\ Bound(j)' \in Nat
<1>1. feed' = feed
  BY DEF Grows, feed
<1>2. feed[j.event].token \in Token
  BY FeedType, EventFields DEF Types
<1>3. Settles(j.event) => Settles(j.event)'
  BY SettlesStays
<1>4. /\ throws \in Nat /\ throws' \in Nat /\ requests \in Nat /\ requests' \in Nat
  BY DEF Types
<1>5. db'.vote[feed[j.event].token] = 0 => db.vote[feed[j.event].token] = 0
  BY <1>2 DEF VotesStay
<1>6. IsVote(j)' = IsVote(j)
  BY <1>1 DEF IsVote
<1>. QED BY <1>1, <1>3, <1>4, <1>5, <1>6 DEF Bound
-------------------------------------------------------------------------------
(* Shapes of steps                                                         *)

(* The jobs, but for one that is handled by itself.                        *)
LEMMA JobsStay ==
    ASSUME HandlersInv, Types', Grows, VotesStay, throws <= throws', requests <= requests',
           NEW k \in Job, attempts'[k] = attempts[k], state[k] # "new", state'[k] # "new",
           state'[k] = "done" => state[k] = "done"
    PROVE  attempts'[k] <= Bound(k)' /\ (state'[k] = "done" => Kept(k.event)')
<1>1. k.event \in DOMAIN feed
  BY DEF HandlersInv, QueueInv
<1>2. Bound(k) <= Bound(k)' /\ Bound(k) \in Nat /\ Bound(k)' \in Nat
  BY <1>1, BoundStays DEF HandlersInv
<1>3. attempts[k] \in Nat /\ attempts[k] <= Bound(k)
  BY QueueAssumption DEF HandlersInv, JobsInv, Types, QueueTypeOK
<1>4. state[k] = "done" => Kept(k.event)'
  BY <1>1, SettlesStays DEF HandlersInv, JobsInv
<1>. QED BY <1>2, <1>3, <1>4

(* The worker loops that stay where they are.                              *)
LEMMA OthersStay ==
    ASSUME HandlersInv, Types', Grows, VotesStay, throws <= throws', requests <= requests',
           NEW v \in Worker, NEW k \in Job, NEW s \in Step,
           running[v] = k, pc[v] = s, attempts'[k] = attempts[k]
    PROVE  Sound(k, s)' /\ Tries(k, s)'
<1>1. state[k] = "active"
  BY QueueAssumption DEF HandlersInv, QueueInv
<1>2. k.event \in DOMAIN feed
  BY <1>1 DEF HandlersInv, QueueInv
<1>3. Sound(k, s) /\ Tries(k, s)
  BY DEF HandlersInv, WorkersSound
<1>. QED BY <1>2, <1>3, SoundStays, TriesStay DEF HandlersInv

(* The queue and the handlers stay.                                        *)
LEMMA QuietStep ==
    ASSUME HandlersInv, Types', Grows, VotesStay, throws <= throws', requests <= requests',
           UNCHANGED <<blocksQueue, pc>>, NoOrphans'
    PROVE  HandlersInv'
<1>1. UNCHANGED <<state, attempts, running, pc>> /\ feed' = feed
  BY DEF blocksQueue, Grows, feed
<1>2. QueueInv'
  BY <1>1 DEF HandlersInv, QueueInv
<1>3. WorkersSound'
  BY <1>1, OthersStay DEF WorkersSound
<1>4. JobsInv'
  BY <1>1, JobsStay DEF HandlersInv, JobsInv
<1>. QED BY <1>2, <1>3, <1>4 DEF HandlersInv

(* A handler comes to its next statement.                                  *)
LEMMA HandlerStep ==
    ASSUME HandlersInv, Types', Grows, VotesStay, throws <= throws', requests <= requests',
           UNCHANGED blocksQueue, NoOrphans',
           NEW w \in Worker, NEW j \in Job, running[w] = j,
           NEW next \in Step \ {"idle"}, pc' = [pc EXCEPT ![w] = next],
           Sound(j, next)', Tries(j, next)'
    PROVE  HandlersInv'
<1>1. UNCHANGED <<state, attempts, running>> /\ feed' = feed
  BY DEF blocksQueue, Grows, feed
<1>2. pc'[w] = next /\ \A v \in Worker \ {w} : pc'[v] = pc[v]
  BY DEF HandlersInv, Types
<1>3. QueueInv'
  <2>1. pc[w] # "idle"
    BY QueueAssumption DEF HandlersInv, QueueInv
  <2>. QED BY <1>1, <1>2, <2>1 DEF HandlersInv, QueueInv
<1>4. WorkersSound'
  <2> SUFFICES ASSUME NEW v \in Worker, NEW k \in Job, NEW s \in Step,
                      running'[v] = k, pc'[v] = s
               PROVE  Sound(k, s)' /\ Tries(k, s)'
    BY DEF WorkersSound
  <2>1. CASE v = w
    <3>1. k = j /\ s = next
      BY <1>1, <1>2, <2>1
    <3>. QED BY <3>1
  <2>2. CASE v # w
    BY <1>1, <1>2, <2>2, OthersStay
  <2>. QED BY <2>1, <2>2
<1>5. JobsInv'
  BY <1>1, JobsStay DEF HandlersInv, JobsInv
<1>. QED BY <1>3, <1>4, <1>5 DEF HandlersInv

(* A handler throws, or its statement is refused.                           *)
LEMMA RejectStep ==
    ASSUME HandlersInv, throws <= throws', requests' = requests,
           NEW w \in Worker, NEW j \in Job, running[w] = j, Reject(w),
           pc' = [pc EXCEPT ![w] = "idle"],
           UNCHANGED <<scenario, sent, found, db, asked, checked, crashes>>,
           throws' \in Nat, throws' + crashes <= scenario.faults,
           attempts[j] + 1 <= Bound(j)'
    PROVE  HandlersInv'
<1>1. /\ attempts' = [attempts EXCEPT ![j] = @ + 1]
      /\ state' = [state EXCEPT ![j] = IF attempts'[j] < Attempts
                                      THEN "delayed" ELSE "failed"]
      /\ running' = [running EXCEPT ![w] = NoJob]
      /\ stalls' = stalls
  BY DEF Reject
<1>2. Types
  BY DEF HandlersInv
<1>3. state[j] = "active" /\ attempts[j] < Attempts /\ attempts[j] \in Nat /\ Attempts \in Nat
  BY <1>2, QueueAssumption DEF HandlersInv, QueueInv, Types, QueueTypeOK
<1>4. /\ attempts'[j] = attempts[j] + 1
      /\ \A k \in Job \ {j} : attempts'[k] = attempts[k] /\ state'[k] = state[k]
      /\ state'[j] \in {"delayed", "failed"}
      /\ state'[j] # "failed" => attempts'[j] < Attempts
      /\ pc'[w] = "idle" /\ running'[w] = NoJob
      /\ \A v \in Worker \ {w} : pc'[v] = pc[v] /\ running'[v] = running[v]
  BY <1>1, <1>2, <1>3 DEF Types, QueueTypeOK
<1>5. QueueTypeOK'
  BY <1>1, <1>2, <1>3, <1>4, QueueAssumption DEF Types, QueueTypeOK, JobState
<1>6. Types'
  BY <1>2, <1>5 DEF Types, Step
<1>7. Grows /\ VotesStay /\ requests <= requests' /\ feed' = feed
  BY <1>2 DEF Types, Grows, VotesStay, feed
<1>8. \A v \in Worker \ {w} : running[v] # j
  BY QueueAssumption DEF HandlersInv, QueueInv
<1>9. QueueInv'
  <2>1. \A v \in Worker : running'[v] # NoJob => state'[running'[v]] = "active"
    BY <1>2, <1>4, <1>8 DEF HandlersInv, QueueInv, Types, QueueTypeOK
  <2>2. \A k \in Job : state'[k] # "new" => k.event \in DOMAIN feed
    BY <1>3, <1>4 DEF HandlersInv, QueueInv
  <2>3. \A k \in Job : state'[k] # "failed" => attempts'[k] < Attempts
    BY <1>4 DEF HandlersInv, QueueInv
  <2>4. \A v, u \in Worker : running'[v] = running'[u] => v = u \/ running'[v] = NoJob
    BY <1>4 DEF HandlersInv, QueueInv
  <2>5. \A v \in Worker : pc'[v] = "idle" <=> running'[v] = NoJob
    BY <1>4 DEF HandlersInv, QueueInv
  <2>. QED BY <1>7, <2>1, <2>2, <2>3, <2>4, <2>5 DEF QueueInv
<1>10. WorkersSound'
  <2> SUFFICES ASSUME NEW v \in Worker, NEW k \in Job, NEW s \in Step,
                      running'[v] = k, pc'[v] = s
               PROVE  Sound(k, s)' /\ Tries(k, s)'
    BY DEF WorkersSound
  <2>1. v # w /\ running[v] = k /\ pc[v] = s /\ k # j
    BY <1>4, <1>8, QueueAssumption
  <2>. QED BY <1>4, <1>6, <1>7, <2>1, OthersStay
<1>11. JobsInv'
  <2> SUFFICES ASSUME NEW k \in Job
               PROVE  /\ state'[k] = "new" => attempts'[k] = 0
                      /\ state'[k] # "new" => attempts'[k] <= Bound(k)'
                      /\ state'[k] = "done" => Kept(k.event)'
    BY DEF JobsInv
  <2>1. CASE k = j
    BY <1>4, <2>1
  <2>2. CASE k # j
    BY <1>4, <1>6, <1>7, <2>2, JobsStay DEF HandlersInv, JobsInv
  <2>. QED BY <2>1, <2>2
<1>12. NoOrphans'
  BY <1>7 DEF HandlersInv, NoOrphans, RowsOf
<1>. QED BY <1>6, <1>9, <1>10, <1>11, <1>12 DEF HandlersInv

(* A job moves in the queue, no worker has it before or after, and no attempt
   is counted.                                                             *)
LEMMA QueueStep ==
    ASSUME HandlersInv, Types', UNCHANGED <<scenario, running, pc, db, asked, throws, requests, attempts>>,
           NEW j \in Job, state[j] # "active",
           \A k \in Job \ {j} : state'[k] = state[k],
           state'[j] \notin {"new", "done"}, j.event \in DOMAIN feed,
           state[j] = "failed" => state'[j] = "failed"
    PROVE  HandlersInv'
<1>1. Types /\ feed' = feed
  BY DEF HandlersInv, feed
<1>2. Grows /\ VotesStay /\ throws <= throws' /\ requests <= requests'
  BY <1>1 DEF Types, Grows, VotesStay
<1>3. \A v \in Worker : running[v] # NoJob => running[v] \in Job \ {j}
  BY <1>1 DEF HandlersInv, QueueInv, Types, QueueTypeOK
<1>4. QueueInv'
  BY <1>1, <1>3 DEF HandlersInv, QueueInv
<1>5. WorkersSound'
  BY <1>2, OthersStay DEF WorkersSound
<1>6. JobsInv'
  <2> SUFFICES ASSUME NEW k \in Job
               PROVE  /\ state'[k] = "new" => attempts'[k] = 0
                      /\ state'[k] # "new" => attempts'[k] <= Bound(k)'
                      /\ state'[k] = "done" => Kept(k.event)'
    BY DEF JobsInv
  <2>1. CASE state[k] # "new"
    BY <1>2, <2>1, JobsStay DEF HandlersInv, JobsInv
  <2>2. CASE state[k] = "new" /\ k # j
    BY <2>2 DEF HandlersInv, JobsInv
  <2>3. CASE state[k] = "new" /\ k = j
    <3>1. attempts'[k] = 0 /\ Bound(k)' \in Nat
      BY <1>1, <1>2, <2>3, BoundStays DEF HandlersInv, JobsInv
    <3>. QED BY <2>3, <3>1
  <2>. QED BY <2>1, <2>2, <2>3
<1>7. NoOrphans'
  BY <1>1 DEF HandlersInv, NoOrphans, RowsOf
<1>. QED BY <1>4, <1>5, <1>6, <1>7 DEF HandlersInv
-------------------------------------------------------------------------------
(* Shapes of statements                                                    *)

(* Worker w awaits statement s of the handler of job j.                     *)
At(w, j, s) ==
    /\ pc[w] = s /\ running[w] = j
    /\ j.event \in DOMAIN feed /\ j.event \in 1..MaxLength
    /\ Event(w) = feed[j.event] /\ feed[j.event] \in ChainEvent
    /\ Sound(j, s) /\ Tries(j, s)

LEMMA AtStatement ==
    ASSUME HandlersInv, NEW w \in Worker, NEW s \in Step \ {"idle"}, pc[w] = s
    PROVE  \E j \in Job : At(w, j, s)
<1>1. PICK j \in Job : /\ running[w] = j /\ state[j] = "active"
                       /\ j.event \in DOMAIN feed /\ j.event \in 1..MaxLength
                       /\ Event(w) = feed[j.event] /\ feed[j.event] \in ChainEvent
  BY JobOf
<1>2. Sound(j, s) /\ Tries(j, s)
  BY <1>1 DEF HandlersInv, WorkersSound
<1>. QED BY <1>1, <1>2 DEF At

LEMMA ReadStep ==
    ASSUME HandlersInv, NEW w \in Worker, NEW j \in Job, NEW s, At(w, j, s),
           NEW next \in Step \ {"idle"}, Reads(w, s, next), Sound(j, next), Tries(j, next)
    PROVE  HandlersInv'
<1>1. /\ UNCHANGED <<scenario, sent, blocksQueue, found, db, asked, checked, requests,
                     throws, crashes>>
      /\ pc' = [pc EXCEPT ![w] = next]
  BY DEF Reads, Goto, profile, faults
<1>2. Types /\ Types'
  BY <1>1 DEF HandlersInv, Types, QueueTypeOK, blocksQueue
<1>3. /\ Grows /\ VotesStay /\ throws <= throws' /\ requests <= requests'
      /\ attempts' = attempts
  BY <1>1, <1>2 DEF Types, Grows, VotesStay, blocksQueue
<1>4. Sound(j, next)' /\ Tries(j, next)'
  BY <1>2, <1>3, SoundStays, TriesStay DEF At
<1>5. NoOrphans'
  BY <1>1 DEF HandlersInv, NoOrphans, RowsOf, feed
<1>. QED BY <1>1, <1>2, <1>3, <1>4, <1>5, HandlerStep DEF At

LEMMA AskStep ==
    ASSUME HandlersInv, NEW w \in Worker, NEW j \in Job, NEW s, At(w, j, s),
           NEW jobs \in [metadata : SUBSET Token, backpack : SUBSET db.knownTraits],
           NEW next \in Step \ {"idle"}, Asks(w, s, jobs, next), Sound(j, next), Tries(j, next)
    PROVE  HandlersInv'
<1>1. /\ UNCHANGED <<scenario, sent, blocksQueue, found, db, checked, requests,
                     throws, crashes>>
      /\ pc' = [pc EXCEPT ![w] = next] /\ asked' = jobs
  BY DEF Asks, Goto, profile, faults
<1>2. db.knownTraits \subseteq Token
  BY DEF HandlersInv, Types, Tables
<1>3. Types /\ Types'
  BY <1>1, <1>2 DEF HandlersInv, Types, QueueTypeOK, blocksQueue
<1>4. /\ Grows /\ VotesStay /\ throws <= throws' /\ requests <= requests'
      /\ attempts' = attempts
  BY <1>1, <1>3 DEF Types, Grows, VotesStay, blocksQueue
<1>5. Sound(j, next)' /\ Tries(j, next)'
  BY <1>3, <1>4, SoundStays, TriesStay DEF At
<1>6. NoOrphans'
  BY <1>1 DEF HandlersInv, NoOrphans, RowsOf, feed
<1>. QED BY <1>1, <1>3, <1>4, <1>5, <1>6, HandlerStep DEF At

LEMMA WriteStep ==
    ASSUME HandlersInv, NEW w \in Worker, NEW j \in Job, NEW s, At(w, j, s), NEW tables,
           NEW next \in Step \ {"idle"}, Writes(w, s, tables, next),
           Grows, VotesStay, NoOrphans', Sound(j, next)', Tries(j, next)'
    PROVE  HandlersInv'
<1>1. /\ UNCHANGED <<scenario, sent, blocksQueue, found, asked, checked, requests,
                     throws, crashes>>
      /\ pc' = [pc EXCEPT ![w] = next]
  BY DEF Writes, Goto, profile, faults
<1>2. Types /\ Types'
  BY <1>1 DEF HandlersInv, Types, QueueTypeOK, blocksQueue, Grows
<1>3. throws <= throws' /\ requests <= requests'
  BY <1>1, <1>2 DEF Types
<1>. QED BY <1>1, <1>2, <1>3, HandlerStep DEF At

LEMMA RefusedStep ==
    ASSUME HandlersInv, NEW w \in Worker, NEW j \in Job, NEW s, At(w, j, s),
           Refused(w, s), attempts[j] + 1 <= Bound(j)
    PROVE  HandlersInv'
<1>1. /\ UNCHANGED <<scenario, sent, found, db, asked, checked, requests, throws, crashes>>
      /\ pc' = [pc EXCEPT ![w] = "idle"] /\ Reject(w)
  BY DEF Refused, Goto, profile, faults
<1>2. /\ throws <= throws' /\ throws' \in Nat /\ throws' + crashes <= scenario.faults
  BY <1>1 DEF HandlersInv, Types
<1>3. Bound(j)' = Bound(j)
  BY <1>1 DEF Bound, IsVote, Settles, feed
<1>. QED BY <1>1, <1>2, <1>3, RejectStep DEF At

(* What was not there before was not refused before.                       *)
LEMMA Unsettled ==
    ASSUME HandlersInv, NEW w \in Worker, NEW j \in Job, NEW s, At(w, j, s),
           s # "idle", ~IsVote(j), ~Settles(j.event)
    PROVE  attempts[j] <= throws
<1>1. state[j] # "new"
  BY QueueAssumption DEF HandlersInv, QueueInv, At
<1>2. attempts[j] <= Bound(j) /\ throws \in Nat
  BY <1>1 DEF HandlersInv, JobsInv, Types
<1>. QED BY <1>2 DEF Bound

(* A statement that may be refused once more.                              *)
LEMMA Refusable ==
    ASSUME HandlersInv, NEW w \in Worker, NEW j \in Job, NEW s, At(w, j, s), ~IsVote(j),
           s \notin Finding \cup {"return", "updateStock", "createVote", "updateVote"},
           s \in Early => Settles(j.event)
    PROVE  attempts[j] + 1 <= Bound(j)
<1>1. attempts[j] \in Nat /\ throws \in Nat
  BY QueueAssumption DEF HandlersInv, Types, QueueTypeOK
<1>2. attempts[j] <= throws /\ (~Settles(j.event) => attempts[j] < throws)
  BY DEF At, Tries
<1>. QED BY <1>1, <1>2 DEF Bound

LEMMA OrphansStay ==
    ASSUME Types, Grows, NoOrphans, db'.knownTraits = db.knownTraits,
           db'.backpack = db.backpack, asked' = asked
    PROVE  NoOrphans'
<1>1. feed' = feed /\ DOMAIN feed \subseteq 1..MaxLength
  BY FeedType DEF Grows, feed, Types
<1>2. \A n \in DOMAIN feed : db.event[n] # None => db'.event[n] = db.event[n]
  BY <1>1 DEF Grows
<1>3. \A t \in db.knownTraits :
         \/ \E n \in DOMAIN feed :
               db'.event[n] = "MINT" /\ t \in {feed[n].bg, feed[n].ing}
         \/ \E r \in db'.redemption : r[2] = t
  BY <1>2, NoneAssumption DEF NoOrphans, Grows, EventType
<1>4. ASSUME NEW t \in Token, db.backpack[t] # None
      PROVE  \/ \E n \in RowsOf(t)' :
                   /\ db'.event[n] \in {"TRANSFER", "SCALAR_REMOVE"}
                   /\ feed[n].to = db.backpack[t]
             \/ /\ t \in db.knownTraits
                /\ \E n \in DOMAIN feed :
                      /\ feed[n].kind = "TRAIT_REDEMPTION"
                      /\ feed[n].token = t /\ feed[n].to = db.backpack[t]
                      /\ <<feed[n].value, t>> \in db'.redemption
  <2>1. \A n \in RowsOf(t) : n \in RowsOf(t)' /\ db'.event[n] = db.event[n]
    BY <1>1, <1>2 DEF RowsOf
  <2>. QED BY <1>4, <2>1 DEF NoOrphans, Grows
<1>. QED BY <1>1, <1>3, <1>4 DEF NoOrphans
-------------------------------------------------------------------------------
(* The statements of handlePrescriptionUpdated, handleFame and handleDefame  *)

LEMMA FindEventStep ==
    ASSUME HandlersInv, NEW w \in Worker, FindEvent(w)
    PROVE  HandlersInv'
<1>1. pc[w] = "findEvent"
  BY DEF FindEvent, Reads
<1>2. PICK j \in Job : At(w, j, "findEvent")
  BY <1>1, AtStatement DEF Step
<1>3. /\ feed[j.event].kind \in KeepsRow \cup {"SCALAR_TRANSFER"} /\ ~IsVote(j)
      /\ Indexed(w) <=> Settles(j.event)
  BY <1>2 DEF At, Sound, KindSound, IsVote, KeepsRow, Settles, Indexed
<1>4. CASE Indexed(w)
  <2>1. Reads(w, "findEvent", "return")
    BY <1>4 DEF FindEvent
  <2>2. Sound(j, "return") /\ Tries(j, "return")
    BY <1>3, <1>4 DEF Sound, KindSound, Tries, Kept, Early, Finding, Step
  <2>. QED BY <1>2, <2>1, <2>2, ReadStep DEF Step
<1>5. CASE ~Indexed(w) /\ feed[j.event].kind = "Prescription_Updated"
  <2>1. Reads(w, "findEvent", "findMinted")
    BY <1>2, <1>5 DEF FindEvent, At
  <2>2. attempts[j] <= throws
    BY <1>2, <1>3, <1>5, Unsettled
  <2>3. Sound(j, "findMinted") /\ Tries(j, "findMinted")
    BY <1>5, <2>2 DEF Sound, KindSound, Tries, Early, Finding, Step
  <2>. QED BY <1>2, <2>1, <2>3, ReadStep DEF Step
<1>6. CASE ~Indexed(w) /\ feed[j.event].kind # "Prescription_Updated"
  <2>1. Reads(w, "findEvent", "createEvent")
    BY <1>2, <1>6 DEF FindEvent, At
  <2>2. attempts[j] <= throws
    BY <1>2, <1>3, <1>6, Unsettled
  <2>3. feed[j.event].kind \in DOMAIN RowType
    BY <1>3, <1>6 DEF KeepsRow, RowType
  <2>4. Sound(j, "createEvent") /\ Tries(j, "createEvent")
    BY <2>2, <2>3 DEF Sound, KindSound, Tries, Early, Finding, Step
  <2>. QED BY <1>2, <2>1, <2>4, ReadStep DEF Step
<1>. QED BY <1>4, <1>5, <1>6

LEMMA FindMintedStep ==
    ASSUME HandlersInv, NEW w \in Worker, FindMinted(w)
    PROVE  HandlersInv'
<1>1. pc[w] = "findMinted"
  BY DEF FindMinted, Reads
<1>2. PICK j \in Job : At(w, j, "findMinted")
  BY <1>1, AtStatement DEF Step
<1>3. PICK next \in {"createChange", "createMint"} : Reads(w, "findMinted", next)
  BY DEF FindMinted
<1>4. Sound(j, next) /\ Tries(j, next)
  BY <1>2 DEF At, Sound, KindSound, Tries, Early, Finding, Step
<1>. QED BY <1>2, <1>3, <1>4, ReadStep DEF Step

(* A handler creates its row.                                              *)
LEMMA RowWritten ==
    ASSUME HandlersInv, NEW w \in Worker, NEW j \in Job,
           NEW s \in {"createChange", "createMint", "createEvent"}, At(w, j, s),
           ~Indexed(w), NEW type \in EventType, db' = WithRow(w, type), scenario' = scenario,
           UNCHANGED <<attempts, throws, requests, asked>>, NEW next \in Step
    PROVE  /\ Grows /\ VotesStay /\ NoOrphans' /\ feed' = feed
           /\ db'.event[j.event] = type /\ db'.knownTraits = db.knownTraits
           /\ Settles(j.event)'
           /\ next \notin {"createVote", "updateVote"} => Tries(j, next)'
<1> DEFINE n == j.event
<1>1. /\ db' = [db EXCEPT !.event[n] = type] /\ db.event[n] = None
      /\ n \in 1..MaxLength /\ db \in Tables /\ Types
  BY DEF WithRow, At, Indexed, HandlersInv, Types
<1>2. /\ db' \in Tables
      /\ db'.event = [db.event EXCEPT ![n] = type]
      /\ UNCHANGED <<db.knownTraits, db.backpack, db.redemption, db.stock, db.vote,
                     db.votingPower>>
  BY <1>1, EventTable
<1>3. /\ db'.event[n] = type
      /\ \A m \in 1..MaxLength : db.event[m] # None => db'.event[m] = db.event[m]
  BY <1>1, <1>2 DEF Tables
<1>4. Grows /\ VotesStay /\ feed' = feed
  BY <1>2, <1>3 DEF Grows, VotesStay, feed
<1>5. NoOrphans'
  BY <1>1, <1>2, <1>4, OrphansStay DEF HandlersInv
<1>6. feed[n].kind \in KeepsRow \cup {"SCALAR_TRANSFER"}
  BY DEF At, Sound, KindSound, RowType, KeepsRow
<1>7. Settles(n)'
  BY <1>3, <1>4, <1>6, NoneAssumption DEF Settles
<1>8. attempts[j] <= throws
  BY DEF At, Tries, Finding
<1>9. next \notin {"createVote", "updateVote"} => Tries(j, next)'
  BY <1>7, <1>8 DEF Tries
<1>. QED BY <1>2, <1>3, <1>4, <1>5, <1>7, <1>9

LEMMA CreateChangeStep ==
    ASSUME HandlersInv, NEW w \in Worker, CreateChange(w)
    PROVE  HandlersInv'
<1> DEFINE s == "createChange"  next == "queueMetadata"
<1>1. pc[w] = s
  BY DEF CreateChange, Inserts
<1>2. PICK j \in Job : At(w, j, s)
  BY <1>1, AtStatement DEF Step
<1>3. feed[j.event].kind = "Prescription_Updated" /\ ~IsVote(j)
  BY <1>2 DEF At, Sound, KindSound, IsVote
<1>4. CASE ~Indexed(w) /\ Writes(w, s, WithRow(w, "CHANGE_ATTRIBUTE"), next)
  <2>1. /\ Grows /\ VotesStay /\ NoOrphans' /\ feed' = feed
        /\ Settles(j.event)' /\ Tries(j, next)'
    BY <1>2, <1>4, RowWritten DEF Writes, blocksQueue, profile, faults, EventType, Step
  <2>2. Sound(j, next)'
    BY <1>3, <2>1 DEF Sound, KindSound, Kept, Early, Finding, Step
  <2>. QED BY <1>2, <1>4, <2>1, <2>2, WriteStep DEF Step
<1>5. CASE Indexed(w) /\ Refused(w, s)
  <2>1. Settles(j.event)
    BY <1>2, <1>3, <1>5 DEF At, Indexed, Settles, KeepsRow
  <2>. QED BY <1>2, <1>3, <1>5, <2>1, Refusable, RefusedStep DEF Finding
<1>. QED BY <1>4, <1>5 DEF CreateChange, Inserts

LEMMA CreateMintStep ==
    ASSUME HandlersInv, NEW w \in Worker, CreateMint(w)
    PROVE  HandlersInv'
<1> DEFINE s == "createMint"
<1>1. pc[w] = s
  BY DEF CreateMint, Inserts
<1>2. PICK j \in Job : At(w, j, s)
  BY <1>1, AtStatement DEF Step
<1>3. feed[j.event].kind = "Prescription_Updated" /\ ~IsVote(j) /\ Event(w) = feed[j.event]
  BY <1>2 DEF At, Sound, KindSound, IsVote
<1>4. ASSUME NEW next \in {"createBG", "createIng", "queueMetadata"},
             ~Indexed(w), Writes(w, s, WithRow(w, "MINT"), next),
             next = "createBG" => feed[j.event].bg # None,
             next = "createIng" => feed[j.event].ing # None
      PROVE  HandlersInv'
  <2>1. /\ Grows /\ VotesStay /\ NoOrphans' /\ feed' = feed /\ Settles(j.event)'
        /\ db'.event[j.event] = "MINT" /\ Tries(j, next)'
    BY <1>2, <1>4, RowWritten DEF Writes, blocksQueue, profile, faults, EventType, Step
  <2>2. Sound(j, next)'
    BY <1>3, <1>4, <2>1 DEF Sound, KindSound, Kept, Early, Finding, Step
  <2>. QED BY <1>2, <1>4, <2>1, <2>2, WriteStep DEF Step
<1>5. CASE Indexed(w) /\ Refused(w, s)
  <2>1. Settles(j.event)
    BY <1>2, <1>3, <1>5 DEF At, Indexed, Settles, KeepsRow
  <2>. QED BY <1>2, <1>3, <1>5, <2>1, Refusable, RefusedStep DEF Finding
<1>6. CASE ~Indexed(w) /\ Event(w).bg # None
  BY <1>3, <1>4, <1>6 DEF CreateMint, Inserts
<1>7. CASE ~Indexed(w) /\ Event(w).bg = None /\ Event(w).ing # None
  BY <1>3, <1>4, <1>7 DEF CreateMint, Inserts
<1>8. CASE ~Indexed(w) /\ Event(w).bg = None /\ Event(w).ing = None
  BY <1>3, <1>4, <1>8 DEF CreateMint, Inserts
<1>. QED BY <1>5, <1>6, <1>7, <1>8 DEF CreateMint, Inserts

(* A trait becomes known, and something explains it.                       *)
LEMMA TraitKnown ==
    ASSUME HandlersInv, NEW t \in Token, db' = WithTrait(t), scenario' = scenario,
           asked' = asked,
           \/ \E n \in DOMAIN feed : db.event[n] = "MINT" /\ t \in {feed[n].bg, feed[n].ing}
           \/ \E r \in db.redemption : r[2] = t
    PROVE  Grows /\ VotesStay /\ NoOrphans' /\ feed' = feed /\ t \in db'.knownTraits
           /\ UNCHANGED <<db.event, db.redemption>>
<1>1. db' = [db EXCEPT !.knownTraits = @ \cup {t}] /\ db \in Tables
  BY DEF WithTrait, HandlersInv, Types
<1>2. /\ db' \in Tables
      /\ db'.knownTraits = db.knownTraits \cup {t}
      /\ UNCHANGED <<db.event, db.backpack, db.redemption, db.stock, db.vote,
                     db.votingPower>>
  BY <1>1, KnownTable
<1>3. Grows /\ VotesStay /\ feed' = feed
  BY <1>2 DEF Grows, VotesStay, feed
<1>4. NoOrphans'
  BY <1>2, <1>3 DEF HandlersInv, NoOrphans, RowsOf
<1>. QED BY <1>2, <1>3, <1>4

LEMMA CreateBGStep ==
    ASSUME HandlersInv, NEW w \in Worker, CreateBG(w)
    PROVE  HandlersInv'
<1> DEFINE s == "createBG"  next == "queueBG"  t == Event(w).bg
<1>1. pc[w] = s
  BY DEF CreateBG, Inserts
<1>2. PICK j \in Job : At(w, j, s)
  BY <1>1, AtStatement DEF Step
<1>3. /\ feed[j.event].kind = "Prescription_Updated" /\ ~IsVote(j)
      /\ t = feed[j.event].bg /\ t \in Token /\ db.event[j.event] = "MINT"
      /\ j.event \in DOMAIN feed
  BY <1>2, EventFields DEF At, Sound, KindSound, IsVote
<1>4. CASE t \notin db.knownTraits /\ Writes(w, s, WithTrait(t), next)
  <2>1. UNCHANGED <<scenario, asked, attempts, throws, requests>> /\ db' = WithTrait(t)
    BY <1>4 DEF Writes, blocksQueue, profile, faults
  <2>2. /\ Grows /\ VotesStay /\ NoOrphans' /\ feed' = feed /\ t \in db'.knownTraits
        /\ db'.event = db.event
    BY <1>3, <2>1, TraitKnown
  <2>3. Settles(j.event)' /\ attempts[j] <= throws
    BY <1>2, <1>3, <2>2, NoneAssumption DEF At, Tries, Early, Finding, Settles, KeepsRow, EventType
  <2>4. Sound(j, next)' /\ Tries(j, next)'
    BY <1>3, <2>1, <2>2, <2>3 DEF Sound, KindSound, Kept, Tries, Early, Finding, Step
  <2>. QED BY <1>2, <1>4, <2>2, <2>4, WriteStep DEF Step
<1>5. CASE Refused(w, s)
  BY <1>2, <1>3, <1>5, Refusable, RefusedStep DEF Finding, Early
<1>. QED BY <1>4, <1>5 DEF CreateBG, Inserts

LEMMA CreateIngStep ==
    ASSUME HandlersInv, NEW w \in Worker, CreateIng(w)
    PROVE  HandlersInv'
<1> DEFINE s == "createIng"  next == "queueIng"  t == Event(w).ing
<1>1. pc[w] = s
  BY DEF CreateIng, Inserts
<1>2. PICK j \in Job : At(w, j, s)
  BY <1>1, AtStatement DEF Step
<1>3. /\ feed[j.event].kind = "Prescription_Updated" /\ ~IsVote(j)
      /\ t = feed[j.event].ing /\ t \in Token /\ db.event[j.event] = "MINT"
      /\ j.event \in DOMAIN feed
  BY <1>2, EventFields DEF At, Sound, KindSound, IsVote
<1>4. CASE t \notin db.knownTraits /\ Writes(w, s, WithTrait(t), next)
  <2>1. UNCHANGED <<scenario, asked, attempts, throws, requests>> /\ db' = WithTrait(t)
    BY <1>4 DEF Writes, blocksQueue, profile, faults
  <2>2. /\ Grows /\ VotesStay /\ NoOrphans' /\ feed' = feed /\ t \in db'.knownTraits
        /\ db'.event = db.event
    BY <1>3, <2>1, TraitKnown
  <2>3. Settles(j.event)' /\ attempts[j] <= throws
    BY <1>2, <1>3, <2>2, NoneAssumption DEF At, Tries, Early, Finding, Settles, KeepsRow, EventType
  <2>4. Sound(j, next)' /\ Tries(j, next)'
    BY <1>3, <2>1, <2>2, <2>3 DEF Sound, KindSound, Kept, Tries, Early, Finding, Step
  <2>. QED BY <1>2, <1>4, <2>2, <2>4, WriteStep DEF Step
<1>5. CASE Refused(w, s)
  BY <1>2, <1>3, <1>5, Refusable, RefusedStep DEF Finding, Early
<1>. QED BY <1>4, <1>5 DEF CreateIng, Inserts

(* queueIndexMetadata is not awaited.                                       *)
LEMMA QueueBGStep ==
    ASSUME HandlersInv, NEW w \in Worker, QueueBG(w)
    PROVE  HandlersInv'
<1> DEFINE s == "queueBG"  jobs == [asked EXCEPT !.backpack = @ \cup {Event(w).bg}]
<1>1. pc[w] = s
  BY DEF QueueBG, Asks
<1>2. PICK j \in Job : At(w, j, s)
  BY <1>1, AtStatement DEF Step
<1>3. /\ feed[j.event].kind = "Prescription_Updated" /\ Event(w) = feed[j.event]
      /\ Event(w).bg \in db.knownTraits
  BY <1>2 DEF At, Sound, KindSound
<1>4. jobs \in [metadata : SUBSET Token, backpack : SUBSET db.knownTraits]
  BY <1>3 DEF HandlersInv, Types, NoOrphans
<1>5. ASSUME NEW next \in {"createIng", "queueMetadata"}, Asks(w, s, jobs, next),
             next = "createIng" => feed[j.event].ing # None
      PROVE  HandlersInv'
  <2>1. Sound(j, next) /\ Tries(j, next)
    BY <1>2, <1>3, <1>5 DEF At, Sound, KindSound, Tries, Early, Finding, Step
  <2>. QED BY <1>2, <1>4, <1>5, <2>1, AskStep DEF Step
<1>6. CASE Event(w).ing # None
  BY <1>3, <1>5, <1>6 DEF QueueBG
<1>7. CASE Event(w).ing = None
  BY <1>3, <1>5, <1>7 DEF QueueBG
<1>. QED BY <1>6, <1>7

LEMMA QueueIngStep ==
    ASSUME HandlersInv, NEW w \in Worker, QueueIng(w)
    PROVE  HandlersInv'
<1> DEFINE s == "queueIng"  jobs == [asked EXCEPT !.backpack = @ \cup {Event(w).ing}]
           next == "queueMetadata"
<1>1. pc[w] = s
  BY DEF QueueIng, Asks
<1>2. PICK j \in Job : At(w, j, s)
  BY <1>1, AtStatement DEF Step
<1>3. /\ feed[j.event].kind = "Prescription_Updated" /\ Event(w) = feed[j.event]
      /\ Event(w).ing \in db.knownTraits
  BY <1>2 DEF At, Sound, KindSound
<1>4. jobs \in [metadata : SUBSET Token, backpack : SUBSET db.knownTraits]
  BY <1>3 DEF HandlersInv, Types, NoOrphans
<1>5. Sound(j, next) /\ Tries(j, next)
  BY <1>2, <1>3 DEF At, Sound, KindSound, Tries, Early, Finding, Step
<1>6. Asks(w, s, jobs, next)
  BY DEF QueueIng
<1>. QED BY <1>2, <1>4, <1>5, <1>6, AskStep DEF Step

LEMMA QueueMetadataStep ==
    ASSUME HandlersInv, NEW w \in Worker, QueueMetadata(w)
    PROVE  HandlersInv'
<1> DEFINE s == "queueMetadata"  jobs == [asked EXCEPT !.metadata = @ \cup {Event(w).token}]
           next == "return"
<1>1. pc[w] = s
  BY DEF QueueMetadata, Asks
<1>2. PICK j \in Job : At(w, j, s)
  BY <1>1, AtStatement DEF Step
<1>3. Event(w).token \in Token
  BY <1>2, EventFields DEF At
<1>4. jobs \in [metadata : SUBSET Token, backpack : SUBSET db.knownTraits]
  BY <1>3 DEF HandlersInv, Types, NoOrphans
<1>5. Sound(j, next) /\ Tries(j, next)
  BY <1>2 DEF At, Sound, KindSound, Tries, Early, Finding, Step
<1>6. Asks(w, s, jobs, next)
  BY DEF QueueMetadata
<1>. QED BY <1>2, <1>4, <1>5, <1>6, AskStep DEF Step

LEMMA CreateEventStep ==
    ASSUME HandlersInv, NEW w \in Worker, CreateEvent(w)
    PROVE  HandlersInv'
<1> DEFINE s == "createEvent"
<1>1. pc[w] = s
  BY DEF CreateEvent
<1>2. PICK j \in Job : At(w, j, s)
  BY <1>1, AtStatement DEF Step
<1> DEFINE kind == feed[j.event].kind  next == AfterRow(kind)  type == RowType[kind]
<1>3. /\ kind \in {"PILL_FAME_UPDATED", "PILL_DEFAME_UPDATED", "Transfer",
                   "SCALAR_REMOVE", "SCALAR_TRANSFER"}
      /\ Event(w) = feed[j.event] /\ ~IsVote(j)
      /\ Indexed(w) <=> Settles(j.event)
  BY <1>2 DEF At, Sound, KindSound, RowType, IsVote, Indexed, Settles, KeepsRow
<1>4. /\ next \in {"queueMetadata", "checkIfIsPill", "findBackpack"}
      /\ next = "queueMetadata" => kind \in {"PILL_FAME_UPDATED", "PILL_DEFAME_UPDATED"}
      /\ next = "checkIfIsPill" => kind = "Transfer" /\ type = "TRANSFER"
      /\ next = "findBackpack" => kind \in {"SCALAR_REMOVE", "SCALAR_TRANSFER"}
      /\ kind = "SCALAR_REMOVE" => type = "SCALAR_REMOVE"
      /\ type \in EventType
  BY <1>3 DEF AfterRow, RowType, EventType
<1>5. CASE kind = "SCALAR_TRANSFER" /\ Indexed(w)
  <2>1. Reads(w, s, "findBackpack")
    BY <1>3, <1>5 DEF CreateEvent, AfterRow
  <2>2. Sound(j, "findBackpack") /\ Tries(j, "findBackpack")
    BY <1>2, <1>3, <1>5 DEF At, Sound, KindSound, Kept, Tries, Early, Finding, Step
  <2>. QED BY <1>2, <2>1, <2>2, ReadStep DEF Step
<1>6. ASSUME NEW after \in {"queueMetadata", "checkIfIsPill", "findBackpack"}, after = next,
             NEW row \in EventType, row = type,
             ~Indexed(w), Writes(w, s, WithRow(w, row), after)
      PROVE  HandlersInv'
  <2> HIDE DEF next, type
  <2>1. UNCHANGED <<scenario, attempts, throws, requests, asked>> /\ db' = WithRow(w, row)
    BY <1>6 DEF Writes, blocksQueue, profile, faults
  <2>2. /\ Grows /\ VotesStay /\ NoOrphans' /\ feed' = feed /\ Settles(j.event)'
        /\ db'.event[j.event] = row /\ Tries(j, after)'
    BY <1>2, <1>6, <2>1, RowWritten DEF Step
  <2>3. Sound(j, after)'
    BY <1>3, <1>4, <1>6, <2>2 DEF Sound, KindSound, Kept, Early, Finding, Step
  <2>. QED BY <1>2, <1>6, <2>2, <2>3, WriteStep DEF Step
<1>7. CASE Indexed(w) /\ Refused(w, s)
  BY <1>2, <1>3, <1>7, Refusable, RefusedStep DEF Finding
<1>8. CASE ~Indexed(w)
  BY <1>3, <1>4, <1>6, <1>8 DEF CreateEvent, Inserts
<1>. QED BY <1>3, <1>5, <1>7, <1>8 DEF CreateEvent, Inserts
-------------------------------------------------------------------------------
(* Transfers and the backpack                                              *)

LEMMA CheckIfIsPillStep ==
    ASSUME HandlersInv, NEW w \in Worker, CheckIfIsPill(w)
    PROVE  HandlersInv'
<1>1. pc[w] = "checkIfIsPill"
  BY DEF CheckIfIsPill, Reads
<1>2. PICK j \in Job : At(w, j, "checkIfIsPill")
  BY <1>1, AtStatement DEF Step
<1>3. PICK next \in {"findPicture", "findBackpack"} : Reads(w, "checkIfIsPill", next)
  BY DEF CheckIfIsPill
<1>4. Sound(j, next) /\ Tries(j, next)
  BY <1>2 DEF At, Sound, KindSound, Tries, Early, Finding, Step
<1>. QED BY <1>2, <1>3, <1>4, ReadStep DEF Step

LEMMA FindPictureStep ==
    ASSUME HandlersInv, NEW w \in Worker, FindPicture(w)
    PROVE  HandlersInv'
<1>1. pc[w] = "findPicture"
  BY DEF FindPicture
<1>2. PICK j \in Job : At(w, j, "findPicture")
  BY <1>1, AtStatement DEF Step
<1>3. PICK next \in {"return", "clearPicture"} :
         /\ pc' = [pc EXCEPT ![w] = next]
         /\ found' = found \/ \E a \in Address : found' = [found EXCEPT ![w] = a]
  BY DEF FindPicture, Goto
<1>4. UNCHANGED <<scenario, sent, blocksQueue, db, asked, checked, requests, throws, crashes>>
  BY DEF FindPicture, profile, faults
<1>5. Types /\ Types'
  BY <1>3, <1>4 DEF HandlersInv, Types, QueueTypeOK, blocksQueue, Step
<1>6. /\ Grows /\ VotesStay /\ throws <= throws' /\ requests <= requests'
      /\ attempts' = attempts
  BY <1>4, <1>5 DEF Types, Grows, VotesStay, blocksQueue
<1>7. Sound(j, next) /\ Tries(j, next)
  BY <1>2 DEF At, Sound, KindSound, Tries, Early, Finding, Step
<1>8. Sound(j, next)' /\ Tries(j, next)'
  BY <1>2, <1>5, <1>6, <1>7, SoundStays, TriesStay DEF At, Step
<1>9. NoOrphans'
  BY <1>4 DEF HandlersInv, NoOrphans, RowsOf, feed
<1>. QED BY <1>2, <1>3, <1>4, <1>5, <1>6, <1>8, <1>9, HandlerStep DEF At, Step

LEMMA ClearPictureStep ==
    ASSUME HandlersInv, NEW w \in Worker, ClearPicture(w)
    PROVE  HandlersInv'
<1> DEFINE s == "clearPicture"  tables == [db EXCEPT !.picture[found[w]] = None]
<1>1. pc[w] = s /\ Writes(w, s, tables, "return")
  BY DEF ClearPicture, Writes
<1>2. PICK j \in Job : At(w, j, s)
  BY <1>1, AtStatement DEF Step
<1>3. /\ db' \in Tables
      /\ UNCHANGED <<db.event, db.knownTraits, db.backpack, db.redemption, db.stock,
                     db.vote, db.votingPower>>
  BY <1>1, PictureTable DEF HandlersInv, Types, Writes
<1>4. UNCHANGED <<scenario, asked>>
  BY <1>1 DEF Writes
<1>5. Types /\ Grows /\ VotesStay
  BY <1>3, <1>4 DEF HandlersInv, Types, Grows, VotesStay
<1>6. NoOrphans'
  BY <1>3, <1>4, <1>5, OrphansStay DEF HandlersInv
<1>7. Sound(j, "return") /\ Tries(j, "return")
  BY <1>2 DEF At, Sound, KindSound, Tries, Early, Finding, Step
<1>8. Sound(j, "return")' /\ Tries(j, "return")'
  BY <1>2, <1>5, <1>7, SoundStays DEF At, Step, Tries, Early, Finding
<1>. QED BY <1>1, <1>2, <1>5, <1>6, <1>8, WriteStep DEF Step

LEMMA FindBackpackStep ==
    ASSUME HandlersInv, NEW w \in Worker, FindBackpack(w)
    PROVE  HandlersInv'
<1> DEFINE s == "findBackpack"
<1>1. pc[w] = s
  BY DEF FindBackpack, Reads
<1>2. PICK j \in Job : At(w, j, s)
  BY <1>1, AtStatement DEF Step
<1> DEFINE kind == feed[j.event].kind
<1>3. Event(w) = feed[j.event] /\ kind \in {"Transfer", "SCALAR_REMOVE", "SCALAR_TRANSFER"}
  BY <1>2 DEF At, Sound, KindSound
<1>4. PICK next \in {"return", "createBackpack", "updateBackpack", "deleteBackpack"} :
         /\ Reads(w, s, next)
         /\ next = "createBackpack" => kind # "SCALAR_TRANSFER"
         /\ next = "updateBackpack" => kind = "Transfer"
         /\ next = "deleteBackpack" => kind = "SCALAR_TRANSFER"
  <2>1. CASE db.backpack[Event(w).token] = None /\ kind = "SCALAR_TRANSFER"
    BY <1>3, <2>1 DEF FindBackpack
  <2>2. CASE db.backpack[Event(w).token] = None /\ kind # "SCALAR_TRANSFER"
    BY <1>3, <2>2 DEF FindBackpack
  <2>3. CASE db.backpack[Event(w).token] # None /\ kind = "Transfer"
    BY <1>3, <2>3 DEF FindBackpack
  <2>4. CASE db.backpack[Event(w).token] # None /\ kind = "SCALAR_REMOVE"
    BY <1>3, <2>4 DEF FindBackpack
  <2>5. CASE db.backpack[Event(w).token] # None /\ kind = "SCALAR_TRANSFER"
    BY <1>3, <2>5 DEF FindBackpack
  <2>. QED BY <1>3, <2>1, <2>2, <2>3, <2>4, <2>5
<1>5. Sound(j, next) /\ Tries(j, next)
  BY <1>2, <1>3, <1>4 DEF At, Sound, KindSound, Tries, Early, Finding, Step
<1>. QED BY <1>2, <1>4, <1>5, ReadStep DEF Step

(* A trait gets its owner from an event that is there, or loses it.         *)
LEMMA OwnerWritten ==
    ASSUME HandlersInv, NEW w \in Worker, NEW j \in Job, NEW s, At(w, j, s),
           NEW a \in Address \cup {None}, db' = WithOwner(w, a),
           UNCHANGED <<scenario, asked, attempts, throws, requests>>,
           a # None => /\ a = feed[j.event].to
                       /\ \/ db.event[j.event] \in {"TRANSFER", "SCALAR_REMOVE"}
                          \/ /\ feed[j.event].kind = "TRAIT_REDEMPTION"
                             /\ feed[j.event].token \in db.knownTraits
                             /\ <<feed[j.event].value, feed[j.event].token>> \in db.redemption
    PROVE  Grows /\ VotesStay /\ NoOrphans' /\ db'.knownTraits = db.knownTraits
<1> DEFINE n == j.event  t == feed[n].token
<1>1. /\ db' = [db EXCEPT !.backpack[t] = a] /\ db \in Tables /\ t \in Token
      /\ n \in DOMAIN feed
  BY EventFields DEF WithOwner, At, HandlersInv, Types
<1>2. /\ db' \in Tables
      /\ db'.backpack = [db.backpack EXCEPT ![t] = a]
      /\ UNCHANGED <<db.event, db.knownTraits, db.redemption, db.stock, db.vote,
                     db.votingPower>>
  BY <1>1, BackpackTable
<1>3. /\ db'.backpack[t] = a
      /\ \A u \in Token \ {t} : db'.backpack[u] = db.backpack[u]
  BY <1>1, <1>2 DEF Tables
<1>4. Grows /\ VotesStay /\ feed' = feed
  BY <1>2 DEF Grows, VotesStay, feed
<1>5. a # None => \/ n \in RowsOf(t) /\ db.event[n] \in {"TRANSFER", "SCALAR_REMOVE"}
                  \/ /\ t \in db.knownTraits
                     /\ feed[n].kind = "TRAIT_REDEMPTION"
                     /\ <<feed[n].value, t>> \in db.redemption
  BY <1>1, NoneAssumption DEF RowsOf, EventType
<1>6. \A u \in Token : RowsOf(u)' = RowsOf(u)
  BY <1>2, <1>4 DEF RowsOf
<1>7. NoOrphans'
  BY <1>1, <1>2, <1>3, <1>4, <1>5, <1>6 DEF HandlersInv, NoOrphans
<1>. QED BY <1>2, <1>4, <1>7

LEMMA UpdateBackpackStep ==
    ASSUME HandlersInv, NEW w \in Worker, UpdateBackpack(w)
    PROVE  HandlersInv'
<1> DEFINE s == "updateBackpack"  next == "return"
<1>1. pc[w] = s
  BY DEF UpdateBackpack, Changes, Inserts
<1>2. PICK j \in Job : At(w, j, s)
  BY <1>1, AtStatement DEF Step
<1>3. /\ feed[j.event].kind = "Transfer" /\ ~IsVote(j) /\ Event(w) = feed[j.event]
      /\ feed[j.event].to \in Address /\ db.event[j.event] = "TRANSFER"
  BY <1>2, EventFields DEF At, Sound, KindSound, IsVote
<1>4. CASE Writes(w, s, WithOwner(w, Event(w).to), next)
  <2>1. /\ UNCHANGED <<scenario, asked, attempts, throws, requests>>
        /\ db' = WithOwner(w, feed[j.event].to)
    BY <1>3, <1>4 DEF Writes, blocksQueue, profile, faults
  <2>2. Grows /\ VotesStay /\ NoOrphans'
    BY <1>2, <1>3, <2>1, OwnerWritten
  <2>3. Sound(j, next) /\ Tries(j, next)
    BY <1>2 DEF At, Sound, KindSound, Tries, Early, Finding, Step
  <2>4. Sound(j, next)' /\ Tries(j, next)'
    BY <1>2, <2>2, <2>3, SoundStays DEF At, Step, Tries, Early, Finding, HandlersInv
  <2>. QED BY <1>2, <1>4, <2>2, <2>4, WriteStep DEF Step
<1>5. CASE Refused(w, s)
  BY <1>2, <1>3, <1>5, Refusable, RefusedStep DEF Finding, Early
<1>. QED BY <1>4, <1>5 DEF UpdateBackpack, Changes, Inserts

LEMMA CreateBackpackStep ==
    ASSUME HandlersInv, NEW w \in Worker, CreateBackpack(w)
    PROVE  HandlersInv'
<1> DEFINE s == "createBackpack"
<1>1. pc[w] = s
  BY DEF CreateBackpack, Inserts
<1>2. PICK j \in Job : At(w, j, s)
  BY <1>1, AtStatement DEF Step
<1> DEFINE e == feed[j.event]
<1>3. /\ e.kind \in {"Transfer", "SCALAR_REMOVE", "TRAIT_REDEMPTION"} /\ ~IsVote(j)
      /\ Event(w) = e /\ e.to \in Address
  BY <1>2, EventFields DEF At, Sound, KindSound, IsVote
<1>4. \/ db.event[j.event] \in {"TRANSFER", "SCALAR_REMOVE"}
      \/ /\ e.kind = "TRAIT_REDEMPTION" /\ e.token \in db.knownTraits
         /\ <<e.value, e.token>> \in db.redemption
  BY <1>2, <1>3 DEF At, Sound, Kept, Settles, KeepsRow, Early, Finding
<1>5. ASSUME NEW next \in {"queueTrait", "return"},
             Writes(w, s, WithOwner(w, e.to), next),
             next = "queueTrait" => e.kind = "TRAIT_REDEMPTION"
      PROVE  HandlersInv'
  <2>1. /\ UNCHANGED <<scenario, asked, attempts, throws, requests>>
        /\ db' = WithOwner(w, e.to)
    BY <1>5 DEF Writes, blocksQueue, profile, faults
  <2>2. Grows /\ VotesStay /\ NoOrphans' /\ db'.knownTraits = db.knownTraits
    BY <1>2, <1>3, <1>4, <2>1, OwnerWritten
  <2>3. Sound(j, next)
    BY <1>2, <1>5 DEF At, Sound, KindSound, Early, Finding, Step
  <2>4. Sound(j, next)'
    BY <1>2, <2>2, <2>3, SoundStays DEF At, Step, HandlersInv
  <2>5. attempts[j] <= throws /\ (next # "return" => Settles(j.event))
    BY <1>2, <1>3, <1>5 DEF At, Tries, Sound, Kept, Early, Finding
  <2>6. next # "return" => Settles(j.event)'
    BY <1>2, <2>2, <2>5, SettlesStays DEF At, HandlersInv
  <2>7. Tries(j, next)'
    BY <2>1, <2>5, <2>6 DEF Tries, Early, Finding
  <2>. QED BY <1>2, <1>5, <2>2, <2>4, <2>7, WriteStep DEF Step
<1>6. CASE Refused(w, s)
  BY <1>2, <1>3, <1>6, Refusable, RefusedStep DEF Finding, Early
<1>7. CASE e.kind = "TRAIT_REDEMPTION"
  BY <1>3, <1>5, <1>6, <1>7 DEF CreateBackpack, Inserts
<1>8. CASE e.kind # "TRAIT_REDEMPTION"
  BY <1>3, <1>5, <1>6, <1>8 DEF CreateBackpack, Inserts
<1>. QED BY <1>7, <1>8

LEMMA DeleteBackpackStep ==
    ASSUME HandlersInv, NEW w \in Worker, DeleteBackpack(w)
    PROVE  HandlersInv'
<1> DEFINE s == "deleteBackpack"  next == "return"
<1>1. pc[w] = s
  BY DEF DeleteBackpack, Changes, Inserts
<1>2. PICK j \in Job : At(w, j, s)
  BY <1>1, AtStatement DEF Step
<1>3. feed[j.event].kind = "SCALAR_TRANSFER" /\ ~IsVote(j)
  BY <1>2 DEF At, Sound, KindSound, IsVote
<1>4. CASE Writes(w, s, WithOwner(w, None), next)
  <2>1. /\ UNCHANGED <<scenario, asked, attempts, throws, requests>>
        /\ db' = WithOwner(w, None)
    BY <1>4 DEF Writes, blocksQueue, profile, faults
  <2>2. Grows /\ VotesStay /\ NoOrphans'
    BY <1>2, <2>1, OwnerWritten
  <2>3. Sound(j, next) /\ Tries(j, next)
    BY <1>2 DEF At, Sound, KindSound, Tries, Early, Finding, Step
  <2>4. Sound(j, next)' /\ Tries(j, next)'
    BY <1>2, <2>2, <2>3, SoundStays DEF At, Step, Tries, Early, Finding, HandlersInv
  <2>. QED BY <1>2, <1>4, <2>2, <2>4, WriteStep DEF Step
<1>5. CASE Refused(w, s)
  BY <1>2, <1>3, <1>5, Refusable, RefusedStep DEF Finding, Early
<1>. QED BY <1>4, <1>5 DEF DeleteBackpack, Changes, Inserts
-------------------------------------------------------------------------------
(* Stocks, votes, redemptions and voting power                             *)

LEMMA FindStockStep ==
    ASSUME HandlersInv, NEW w \in Worker, FindStock(w)
    PROVE  HandlersInv'
<1> DEFINE s == "findStock"
<1>1. pc[w] = s
  BY DEF FindStock, Reads
<1>2. PICK j \in Job : At(w, j, s)
  BY <1>1, AtStatement DEF Step
<1>3. feed[j.event].kind = "PHARMACY_STOCK_UPDATED" /\ ~IsVote(j) /\ Event(w) = feed[j.event]
  BY <1>2 DEF At, Sound, KindSound, IsVote
<1>4. CASE db.stock[Event(w).token] = 0
  <2>1. Reads(w, s, "createStock")
    BY <1>4 DEF FindStock
  <2>2. attempts[j] <= throws
    BY <1>2, <1>3, <1>4, Unsettled DEF Settles, KeepsRow
  <2>3. Sound(j, "createStock") /\ Tries(j, "createStock")
    BY <1>3, <2>2 DEF Sound, KindSound, Tries, Early, Finding, Step
  <2>. QED BY <1>2, <2>1, <2>3, ReadStep DEF Step
<1>5. CASE db.stock[Event(w).token] # 0
  <2>1. Reads(w, s, "updateStock")
    BY <1>5 DEF FindStock
  <2>2. Sound(j, "updateStock") /\ Tries(j, "updateStock")
    BY <1>3, <1>5 DEF Sound, KindSound, Tries, Early, Finding, Step
  <2>. QED BY <1>2, <2>1, <2>2, ReadStep DEF Step
<1>. QED BY <1>4, <1>5

(* The stock is written.                                                   *)
LEMMA StockWritten ==
    ASSUME HandlersInv, NEW w \in Worker, NEW j \in Job, NEW s, At(w, j, s),
           feed[j.event].kind = "PHARMACY_STOCK_UPDATED", Writes(w, s, WithStock(w), "return")
    PROVE  HandlersInv'
<1> DEFINE n == j.event  t == feed[n].token  v == feed[n].value
<1>1. /\ db' = [db EXCEPT !.stock[t] = v] /\ db \in Tables /\ t \in Token
      /\ v \in Nat /\ v # 0 /\ UNCHANGED <<scenario, asked>>
  BY EventFields DEF WithStock, At, HandlersInv, Types, Writes
<1>2. /\ db' \in Tables
      /\ db'.stock = [db.stock EXCEPT ![t] = v]
      /\ UNCHANGED <<db.event, db.knownTraits, db.backpack, db.redemption, db.vote,
                     db.votingPower>>
  BY <1>1, StockTable
<1>3. db'.stock[t] # 0 /\ \A u \in Token : db.stock[u] # 0 => db'.stock[u] # 0
  BY <1>1, <1>2 DEF Tables
<1>4. Grows /\ VotesStay /\ feed' = feed
  BY <1>1, <1>2, <1>3 DEF Grows, VotesStay, feed
<1>5. NoOrphans'
  BY <1>1, <1>2, <1>4, OrphansStay DEF HandlersInv
<1>6. Sound(j, "return")' /\ Tries(j, "return")'
  BY <1>3, <1>4 DEF Sound, KindSound, Kept, Settles, Tries, Early, Finding, Step
<1>. QED BY <1>4, <1>5, <1>6, WriteStep DEF Step

LEMMA UpdateStockStep ==
    ASSUME HandlersInv, NEW w \in Worker, UpdateStock(w)
    PROVE  HandlersInv'
<1> DEFINE s == "updateStock"
<1>1. pc[w] = s
  BY DEF UpdateStock, Changes, Inserts
<1>2. PICK j \in Job : At(w, j, s)
  BY <1>1, AtStatement DEF Step
<1>3. /\ feed[j.event].kind = "PHARMACY_STOCK_UPDATED" /\ Event(w) = feed[j.event]
      /\ db.stock[feed[j.event].token] # 0
  BY <1>2 DEF At, Sound, KindSound
<1>. QED BY <1>2, <1>3, StockWritten DEF UpdateStock, Changes, Inserts

LEMMA CreateStockStep ==
    ASSUME HandlersInv, NEW w \in Worker, CreateStock(w)
    PROVE  HandlersInv'
<1> DEFINE s == "createStock"
<1>1. pc[w] = s
  BY DEF CreateStock, Inserts
<1>2. PICK j \in Job : At(w, j, s)
  BY <1>1, AtStatement DEF Step
<1>3. feed[j.event].kind = "PHARMACY_STOCK_UPDATED" /\ ~IsVote(j) /\ Event(w) = feed[j.event]
  BY <1>2 DEF At, Sound, KindSound, IsVote
<1>4. CASE Writes(w, s, WithStock(w), "return")
  BY <1>2, <1>3, <1>4, StockWritten
<1>5. CASE db.stock[Event(w).token] # 0 /\ Refused(w, s)
  <2>1. Settles(j.event)
    BY <1>3, <1>5 DEF Settles
  <2>. QED BY <1>2, <1>3, <1>5, <2>1, Refusable, RefusedStep DEF Finding
<1>. QED BY <1>4, <1>5 DEF CreateStock, Inserts

(* The attempts of a vote that has no row.                                 *)
LEMMA VoteAttempts ==
    ASSUME HandlersInv, NEW w \in Worker, NEW j \in Job, NEW s, At(w, j, s),
           s # "idle", IsVote(j), db.vote[feed[j.event].token] = 0
    PROVE  attempts[j] <= throws + 2 * requests
<1>1. state[j] # "new"
  BY QueueAssumption DEF HandlersInv, QueueInv, At
<1>2. attempts[j] <= Bound(j) /\ throws \in Nat /\ requests \in Nat
  BY <1>1 DEF HandlersInv, JobsInv, Types
<1>. QED BY <1>2 DEF Bound

LEMMA FindVoteStep ==
    ASSUME HandlersInv, NEW w \in Worker, FindVote(w)
    PROVE  HandlersInv'
<1> DEFINE s == "findVote"
<1>1. pc[w] = s
  BY DEF FindVote, Reads
<1>2. PICK j \in Job : At(w, j, s)
  BY <1>1, AtStatement DEF Step
<1>3. /\ feed[j.event].kind \in {"PILL_VOTE_TIMESTAMP", "TRAIT_VOTE_TIME_STAMP"}
      /\ IsVote(j) /\ Event(w) = feed[j.event]
  BY <1>2 DEF At, Sound, KindSound, IsVote
<1>4. CASE db.vote[Event(w).token] = 0
  <2>1. Reads(w, s, "createVote")
    BY <1>4 DEF FindVote
  <2>2. attempts[j] <= throws + 2 * requests
    BY <1>2, <1>3, <1>4, VoteAttempts
  <2>3. Sound(j, "createVote") /\ Tries(j, "createVote")
    BY <1>3, <2>2 DEF Sound, KindSound, Tries, Early, Finding, Step
  <2>. QED BY <1>2, <2>1, <2>3, ReadStep DEF Step
<1>5. CASE db.vote[Event(w).token] # 0
  <2>1. Reads(w, s, "updateVote")
    BY <1>5 DEF FindVote
  <2>2. Sound(j, "updateVote") /\ Tries(j, "updateVote")
    BY <1>3, <1>5 DEF Sound, KindSound, Tries, Early, Finding, Step
  <2>. QED BY <1>2, <2>1, <2>2, ReadStep DEF Step
<1>. QED BY <1>4, <1>5

LEMMA VoteWritten ==
    ASSUME HandlersInv, NEW w \in Worker, NEW j \in Job, NEW s, At(w, j, s),
           feed[j.event].kind \in {"PILL_VOTE_TIMESTAMP", "TRAIT_VOTE_TIME_STAMP"},
           Writes(w, s, WithVote(w), "return")
    PROVE  HandlersInv'
<1> DEFINE n == j.event  t == feed[n].token  v == feed[n].value
<1>1. /\ db' = [db EXCEPT !.vote[t] = v] /\ db \in Tables /\ t \in Token
      /\ v \in Nat /\ v # 0 /\ UNCHANGED <<scenario, asked>>
  BY EventFields DEF WithVote, At, HandlersInv, Types, Writes
<1>2. /\ db' \in Tables
      /\ db'.vote = [db.vote EXCEPT ![t] = v]
      /\ UNCHANGED <<db.event, db.knownTraits, db.backpack, db.redemption, db.stock,
                     db.votingPower>>
  BY <1>1, VoteTable
<1>3. \A u \in Token : db.vote[u] # 0 => db'.vote[u] # 0
  BY <1>1, <1>2 DEF Tables
<1>4. Grows /\ VotesStay /\ feed' = feed
  BY <1>1, <1>2, <1>3 DEF Grows, VotesStay, feed
<1>5. NoOrphans'
  BY <1>1, <1>2, <1>4, OrphansStay DEF HandlersInv
<1>6. Sound(j, "return")' /\ Tries(j, "return")'
  BY <1>3, <1>4 DEF Sound, KindSound, Kept, Tries, Early, Finding, Step
<1>. QED BY <1>4, <1>5, <1>6, WriteStep DEF Step

LEMMA UpdateVoteStep ==
    ASSUME HandlersInv, NEW w \in Worker, UpdateVote(w)
    PROVE  HandlersInv'
<1> DEFINE s == "updateVote"
<1>1. pc[w] = s
  BY DEF UpdateVote, Changes, Inserts
<1>2. PICK j \in Job : At(w, j, s)
  BY <1>1, AtStatement DEF Step
<1>3. /\ feed[j.event].kind \in {"PILL_VOTE_TIMESTAMP", "TRAIT_VOTE_TIME_STAMP"}
      /\ IsVote(j) /\ Event(w) = feed[j.event]
  BY <1>2 DEF At, Sound, KindSound, IsVote
<1>4. CASE Writes(w, s, WithVote(w), "return")
  BY <1>2, <1>3, <1>4, VoteWritten
<1>5. CASE db.vote[Event(w).token] = 0 /\ Refused(w, s)
  <2>1. attempts[j] \in Nat /\ throws \in Nat /\ requests \in Nat
    BY QueueAssumption DEF HandlersInv, Types, QueueTypeOK
  <2>2. attempts[j] + 1 <= Bound(j)
    BY <1>2, <1>3, <1>5, <2>1 DEF At, Tries, Bound
  <2>. QED BY <1>2, <1>5, <2>2, RefusedStep
<1>. QED BY <1>4, <1>5 DEF UpdateVote, Changes, Inserts

LEMMA CreateVoteStep ==
    ASSUME HandlersInv, NEW w \in Worker, CreateVote(w)
    PROVE  HandlersInv'
<1> DEFINE s == "createVote"
<1>1. pc[w] = s
  BY DEF CreateVote, Inserts
<1>2. PICK j \in Job : At(w, j, s)
  BY <1>1, AtStatement DEF Step
<1>3. /\ feed[j.event].kind \in {"PILL_VOTE_TIMESTAMP", "TRAIT_VOTE_TIME_STAMP"}
      /\ IsVote(j) /\ Event(w) = feed[j.event]
  BY <1>2 DEF At, Sound, KindSound, IsVote
<1>4. CASE Writes(w, s, WithVote(w), "return")
  BY <1>2, <1>3, <1>4, VoteWritten
<1>5. CASE db.vote[Event(w).token] # 0 /\ Refused(w, s)
  <2>1. attempts[j] \in Nat /\ throws \in Nat /\ requests \in Nat
    BY QueueAssumption DEF HandlersInv, Types, QueueTypeOK
  <2>2. attempts[j] + 1 <= Bound(j)
    BY <1>2, <1>3, <1>5, <2>1 DEF At, Tries, Bound
  <2>. QED BY <1>2, <1>5, <2>2, RefusedStep
<1>. QED BY <1>4, <1>5 DEF CreateVote, Inserts

LEMMA FindRedemptionStep ==
    ASSUME HandlersInv, NEW w \in Worker, FindRedemption(w)
    PROVE  HandlersInv'
<1> DEFINE s == "findRedemption"
<1>1. pc[w] = s
  BY DEF FindRedemption, Reads
<1>2. PICK j \in Job : At(w, j, s)
  BY <1>1, AtStatement DEF Step
<1>3. feed[j.event].kind = "TRAIT_REDEMPTION" /\ ~IsVote(j) /\ Event(w) = feed[j.event]
  BY <1>2 DEF At, Sound, KindSound, IsVote
<1>4. Redemption(w) \in db.redemption <=> Settles(j.event)
  BY <1>3 DEF Redemption, Settles, KeepsRow
<1>5. CASE Settles(j.event)
  <2>1. Reads(w, s, "return")
    BY <1>4, <1>5 DEF FindRedemption
  <2>2. Sound(j, "return") /\ Tries(j, "return")
    BY <1>3, <1>5 DEF Sound, KindSound, Kept, Tries, Early, Finding, Step
  <2>. QED BY <1>2, <2>1, <2>2, ReadStep DEF Step
<1>6. CASE ~Settles(j.event)
  <2>1. Reads(w, s, "createRedemption")
    BY <1>4, <1>6 DEF FindRedemption
  <2>2. attempts[j] <= throws
    BY <1>2, <1>3, <1>6, Unsettled
  <2>3. Sound(j, "createRedemption") /\ Tries(j, "createRedemption")
    BY <1>3, <2>2 DEF Sound, KindSound, Tries, Early, Finding, Step
  <2>. QED BY <1>2, <2>1, <2>3, ReadStep DEF Step
<1>. QED BY <1>5, <1>6

LEMMA CreateRedemptionStep ==
    ASSUME HandlersInv, NEW w \in Worker, CreateRedemption(w)
    PROVE  HandlersInv'
<1> DEFINE s == "createRedemption"  next == "findKnown"
<1>1. pc[w] = s
  BY DEF CreateRedemption, Inserts
<1>2. PICK j \in Job : At(w, j, s)
  BY <1>1, AtStatement DEF Step
<1> DEFINE r == Redemption(w)
<1>3. /\ feed[j.event].kind = "TRAIT_REDEMPTION" /\ ~IsVote(j)
      /\ r = <<feed[j.event].value, feed[j.event].token>> /\ r \in Nat \X Token
  BY <1>2, EventFields DEF At, Sound, KindSound, IsVote, Redemption
<1> HIDE DEF r
<1>4. CASE Writes(w, s, [db EXCEPT !.redemption = @ \cup {r}], next)
  <2>1. /\ UNCHANGED <<scenario, asked, attempts, throws, requests>> /\ db \in Tables
        /\ db' = [db EXCEPT !.redemption = @ \cup {r}]
    BY <1>4 DEF Writes, blocksQueue, profile, faults, HandlersInv, Types
  <2>2. /\ db' \in Tables
        /\ db'.redemption = db.redemption \cup {r}
        /\ UNCHANGED <<db.event, db.knownTraits, db.backpack, db.stock, db.vote,
                       db.votingPower>>
    BY <1>3, <2>1, RedemptionTable
  <2>3. Grows /\ VotesStay /\ feed' = feed
    BY <2>1, <2>2 DEF Grows, VotesStay, feed
  <2>4. NoOrphans'
    BY <2>1, <2>2, <2>3, OrphansStay DEF HandlersInv
  <2>5. Settles(j.event)' /\ attempts[j] <= throws
    BY <1>2, <1>3, <2>2, <2>3 DEF Settles, At, Tries, Finding
  <2>6. Sound(j, next)' /\ Tries(j, next)'
    BY <1>3, <2>1, <2>3, <2>5 DEF Sound, KindSound, Kept, Tries, Early, Finding, Step
  <2>. QED BY <1>2, <1>4, <2>3, <2>4, <2>6, WriteStep DEF Step
<1>5. CASE r \in db.redemption /\ Refused(w, s)
  <2>1. Settles(j.event)
    BY <1>3, <1>5 DEF Settles
  <2>. QED BY <1>2, <1>3, <1>5, <2>1, Refusable, RefusedStep DEF Finding
<1>. QED BY <1>4, <1>5 DEF CreateRedemption, Inserts, r

LEMMA FindKnownStep ==
    ASSUME HandlersInv, NEW w \in Worker, FindKnown(w)
    PROVE  HandlersInv'
<1> DEFINE s == "findKnown"
<1>1. pc[w] = s
  BY DEF FindKnown, Reads
<1>2. PICK j \in Job : At(w, j, s)
  BY <1>1, AtStatement DEF Step
<1>3. PICK next \in {"return", "createKnown"} : Reads(w, s, next)
  BY DEF FindKnown
<1>4. Sound(j, next) /\ Tries(j, next)
  BY <1>2 DEF At, Sound, KindSound, Tries, Early, Finding, Step
<1>. QED BY <1>2, <1>3, <1>4, ReadStep DEF Step

LEMMA CreateKnownStep ==
    ASSUME HandlersInv, NEW w \in Worker, CreateKnown(w)
    PROVE  HandlersInv'
<1> DEFINE s == "createKnown"  next == "createBackpack"
<1>1. pc[w] = s
  BY DEF CreateKnown, Inserts
<1>2. PICK j \in Job : At(w, j, s)
  BY <1>1, AtStatement DEF Step
<1> DEFINE e == feed[j.event]
<1>3. /\ e.kind = "TRAIT_REDEMPTION" /\ ~IsVote(j) /\ Event(w) = e /\ e.token \in Token
      /\ Settles(j.event) /\ j.event \in DOMAIN feed
  BY <1>2, EventFields DEF At, Sound, KindSound, IsVote, Kept, Early, Finding
<1>4. CASE Writes(w, s, WithTrait(e.token), next)
  <2>1. UNCHANGED <<scenario, asked, attempts, throws, requests>> /\ db' = WithTrait(e.token)
    BY <1>4 DEF Writes, blocksQueue, profile, faults
  <2>2. <<e.value, e.token>> \in db.redemption
    BY <1>3 DEF Settles, KeepsRow
  <2>3. Grows /\ VotesStay /\ NoOrphans' /\ feed' = feed /\ e.token \in db'.knownTraits
    <3>1. <<e.value, e.token>>[2] = e.token
      OBVIOUS
    <3>. QED BY <1>3, <2>1, <2>2, <3>1, TraitKnown
  <2>4. Settles(j.event)' /\ attempts[j] <= throws
    BY <1>2, <1>3, <2>3, SettlesStays DEF At, Tries, Early, Finding, HandlersInv
  <2>5. Sound(j, next)' /\ Tries(j, next)'
    BY <1>3, <2>1, <2>3, <2>4 DEF Sound, KindSound, Kept, Tries, Early, Finding, Step
  <2>. QED BY <1>2, <1>4, <2>3, <2>5, WriteStep DEF Step
<1>5. CASE Refused(w, s)
  BY <1>2, <1>3, <1>5, Refusable, RefusedStep DEF Finding, Early
<1>. QED BY <1>3, <1>4, <1>5 DEF CreateKnown, Inserts

LEMMA QueueTraitStep ==
    ASSUME HandlersInv, NEW w \in Worker, QueueTrait(w)
    PROVE  HandlersInv'
<1> DEFINE s == "queueTrait"  next == "return"
<1>1. pc[w] = s
  BY DEF QueueTrait, Asks
<1>2. PICK j \in Job : At(w, j, s)
  BY <1>1, AtStatement DEF Step
<1> DEFINE jobs == [asked EXCEPT !.backpack = @ \cup {Event(w).token}]
<1>3. Event(w).token \in db.knownTraits
  BY <1>2 DEF At, Sound, KindSound
<1>4. jobs \in [metadata : SUBSET Token, backpack : SUBSET db.knownTraits]
  BY <1>3 DEF HandlersInv, Types, NoOrphans
<1>5. Sound(j, next) /\ Tries(j, next)
  BY <1>2 DEF At, Sound, KindSound, Tries, Early, Finding, Step
<1>6. Asks(w, s, jobs, next)
  BY DEF QueueTrait
<1>. QED BY <1>2, <1>4, <1>5, <1>6, AskStep DEF Step

LEMMA FindPowerStep ==
    ASSUME HandlersInv, NEW w \in Worker, FindPower(w)
    PROVE  HandlersInv'
<1> DEFINE s == "findPower"
<1>1. pc[w] = s
  BY DEF FindPower, Reads
<1>2. PICK j \in Job : At(w, j, s)
  BY <1>1, AtStatement DEF Step
<1>3. feed[j.event].kind = "ATTRIBUTE_ADDED" /\ ~IsVote(j) /\ Event(w) = feed[j.event]
  BY <1>2 DEF At, Sound, KindSound, IsVote
<1>4. CASE Event(w).value # 1 \/ Event(w).token \in db.votingPower
  <2>1. Reads(w, s, "return")
    BY <1>4 DEF FindPower
  <2>2. Sound(j, "return") /\ Tries(j, "return")
    BY <1>3, <1>4 DEF Sound, KindSound, Kept, Settles, Tries, Early, Finding, Step
  <2>. QED BY <1>2, <2>1, <2>2, ReadStep DEF Step
<1>5. CASE ~(Event(w).value # 1 \/ Event(w).token \in db.votingPower)
  <2>1. Reads(w, s, "createPower")
    BY <1>5 DEF FindPower
  <2>2. attempts[j] <= throws
    BY <1>2, <1>3, <1>5, Unsettled DEF Settles, KeepsRow
  <2>3. Sound(j, "createPower") /\ Tries(j, "createPower")
    BY <1>3, <2>2 DEF Sound, KindSound, Tries, Early, Finding, Step
  <2>. QED BY <1>2, <2>1, <2>3, ReadStep DEF Step
<1>. QED BY <1>4, <1>5

LEMMA CreatePowerStep ==
    ASSUME HandlersInv, NEW w \in Worker, CreatePower(w)
    PROVE  HandlersInv'
<1> DEFINE s == "createPower"  next == "return"
<1>1. pc[w] = s
  BY DEF CreatePower, Inserts
<1>2. PICK j \in Job : At(w, j, s)
  BY <1>1, AtStatement DEF Step
<1> DEFINE t == feed[j.event].token
<1>3. /\ feed[j.event].kind = "ATTRIBUTE_ADDED" /\ ~IsVote(j) /\ Event(w) = feed[j.event]
      /\ t \in Token
  BY <1>2, EventFields DEF At, Sound, KindSound, IsVote
<1>4. CASE Writes(w, s, [db EXCEPT !.votingPower = @ \cup {t}], next)
  <2>1. /\ UNCHANGED <<scenario, asked>> /\ db \in Tables
        /\ db' = [db EXCEPT !.votingPower = @ \cup {t}]
    BY <1>4 DEF Writes, HandlersInv, Types
  <2>2. /\ db' \in Tables
        /\ db'.votingPower = db.votingPower \cup {t}
        /\ UNCHANGED <<db.event, db.knownTraits, db.backpack, db.redemption, db.stock, db.vote>>
    BY <1>3, <2>1, PowerTable
  <2>3. Grows /\ VotesStay /\ feed' = feed
    BY <2>1, <2>2 DEF Grows, VotesStay, feed
  <2>4. NoOrphans'
    BY <2>1, <2>2, <2>3, OrphansStay DEF HandlersInv
  <2>5. Sound(j, next)' /\ Tries(j, next)'
    BY <1>3, <2>2, <2>3 DEF Sound, KindSound, Kept, Settles, Tries, Early, Finding, Step
  <2>. QED BY <1>2, <1>4, <2>3, <2>4, <2>5, WriteStep DEF Step
<1>5. CASE t \in db.votingPower /\ Refused(w, s)
  <2>1. Settles(j.event)
    BY <1>3, <1>5 DEF Settles
  <2>. QED BY <1>2, <1>3, <1>5, <2>1, Refusable, RefusedStep DEF Finding
<1>. QED BY <1>3, <1>4, <1>5 DEF CreatePower, Inserts
-------------------------------------------------------------------------------
(* The queue around the handlers                                           *)

LEMMA StatementStep ==
    ASSUME HandlersInv, NEW w \in Worker, Statement(w)
    PROVE  HandlersInv'
BY FindEventStep, FindMintedStep, CreateChangeStep, CreateMintStep, CreateBGStep, QueueBGStep,
   CreateIngStep, QueueIngStep, QueueMetadataStep, CreateEventStep, CheckIfIsPillStep,
   FindPictureStep, ClearPictureStep, FindBackpackStep, UpdateBackpackStep,
   CreateBackpackStep, DeleteBackpackStep, FindStockStep, UpdateStockStep, CreateStockStep,
   FindVoteStep, UpdateVoteStep, CreateVoteStep, FindRedemptionStep, CreateRedemptionStep,
   FindKnownStep, CreateKnownStep, QueueTraitStep, FindPowerStep, CreatePowerStep
   DEF Statement

LEMMA QueueIndexBlockDataStep ==
    ASSUME HandlersInv, NEW c \in 1..Copies, QueueIndexBlockData(c)
    PROVE  HandlersInv'
<1> DEFINE j == [copy |-> c, event |-> sent[c] + 1]
<1>1. Types
  BY DEF HandlersInv
<1>2. feed \in Seq(ChainEvent) /\ Len(feed) <= MaxLength /\ DOMAIN feed = 1..Len(feed)
  BY <1>1, ScenarioAssumption DEF Types, feed
<1>3. /\ sent[c] < Len(feed) /\ sent' = [sent EXCEPT ![c] = @ + 1]
      /\ UNCHANGED <<scenario, pc, found, db, asked, checked, requests, throws, crashes>>
      /\ Add([copy |-> c, event |-> sent'[c]])
  BY DEF QueueIndexBlockData, handler, profile, faults
<1>4. /\ sent[c] \in Nat /\ Len(feed) \in Nat /\ sent'[c] = sent[c] + 1
      /\ sent[c] + 1 \in 1..Len(feed) /\ sent[c] + 1 \in 1..MaxLength
  BY <1>1, <1>2, <1>3, BoundsAssumption DEF Types
<1>5. j \in Job /\ j.event \in DOMAIN feed /\ Add(j)
  BY <1>2, <1>3, <1>4 DEF Job
<1> HIDE DEF j
<1>6. /\ state[j] = "new" /\ state' = [state EXCEPT ![j] = "wait"]
      /\ UNCHANGED <<attempts, stalls, running>>
  BY <1>5 DEF Add
<1>7. Types'
  <2>1. sent' \in [1..Copies -> 0..MaxLength]
    BY <1>1, <1>3, <1>4, BoundsAssumption DEF Types
  <2>. QED BY <1>1, <1>3, <1>6, <2>1 DEF Types, QueueTypeOK, JobState
<1>8. state'[j] = "wait" /\ \A k \in Job \ {j} : state'[k] = state[k]
  BY <1>1, <1>5, <1>6 DEF Types, QueueTypeOK
<1>. QED BY <1>3, <1>5, <1>6, <1>7, <1>8, QueueStep

LEMMA IndexBlockStep ==
    ASSUME HandlersInv, NEW w \in Worker, NEW j \in Job, IndexBlock(w, j)
    PROVE  HandlersInv'
<1>1. Types
  BY DEF HandlersInv
<1>2. /\ running[w] = NoJob /\ state[j] \in {"wait", "front"} /\ j # NoJob
      /\ state' = [state EXCEPT ![j] = "active"]
      /\ running' = [running EXCEPT ![w] = j]
      /\ pc' = [pc EXCEPT ![w] = HandlerStart(feed[j.event].kind)]
      /\ UNCHANGED <<attempts, stalls, scenario, sent, found, db, asked, checked, requests,
                     throws, crashes>>
  BY QueueAssumption DEF IndexBlock, Take, IsHead, Goto, profile, faults
<1>3. j.event \in DOMAIN feed /\ feed[j.event].kind \in EventKind
  BY <1>1, <1>2, FeedType, EventFields DEF HandlersInv, QueueInv, Types
<1>4. PICK start \in Finding : /\ start = HandlerStart(feed[j.event].kind)
                               /\ KindSound(feed[j.event].kind, start)
  BY <1>3 DEF HandlerStart, EventKind, KindSound, Finding, Step, KeepsRow
<1>5. /\ pc'[w] = start /\ running'[w] = j /\ state'[j] = "active"
      /\ \A v \in Worker \ {w} : pc'[v] = pc[v] /\ running'[v] = running[v]
      /\ \A k \in Job \ {j} : state'[k] = state[k]
  BY <1>1, <1>2, <1>4 DEF Types, QueueTypeOK
<1>6. Types'
  BY <1>1, <1>2, <1>4 DEF Types, QueueTypeOK, JobState, Finding, Step
<1>7. /\ Grows /\ VotesStay /\ throws <= throws' /\ requests <= requests' /\ feed' = feed
  BY <1>1, <1>2 DEF Types, Grows, VotesStay, feed
<1>8. \A v \in Worker : running[v] # NoJob => running[v] \in Job \ {j}
  BY <1>1, <1>2 DEF HandlersInv, QueueInv, Types, QueueTypeOK
<1>9. QueueInv'
  <2>1. start # "idle"
    BY <1>4 DEF Finding
  <2>2. \A v, u \in Worker : running'[v] = running'[u] => v = u \/ running'[v] = NoJob
    BY <1>5, <1>8 DEF HandlersInv, QueueInv
  <2>3. \A v \in Worker : running'[v] # NoJob => state'[running'[v]] = "active"
    BY <1>5, <1>8 DEF HandlersInv, QueueInv
  <2>4. \A k \in Job : state'[k] # "new" => k.event \in DOMAIN feed
    BY <1>3, <1>5 DEF HandlersInv, QueueInv
  <2>5. \A k \in Job : state'[k] # "failed" => attempts'[k] < Attempts
    BY <1>2, <1>5 DEF HandlersInv, QueueInv
  <2>6. \A v \in Worker : pc'[v] = "idle" <=> running'[v] = NoJob
    BY <1>2, <1>5, <2>1 DEF HandlersInv, QueueInv
  <2>. QED BY <1>7, <2>2, <2>3, <2>4, <2>5, <2>6 DEF QueueInv
<1>10. WorkersSound'
  <2> SUFFICES ASSUME NEW v \in Worker, NEW k \in Job, NEW s \in Step,
                      running'[v] = k, pc'[v] = s
               PROVE  Sound(k, s)' /\ Tries(k, s)'
    BY DEF WorkersSound
  <2>1. CASE v = w
    <3>1. k = j /\ s = start
      BY <1>5, <2>1
    <3>2. Sound(j, start)' /\ Tries(j, start)'
      BY <1>4, <1>7 DEF Sound, Tries, Early, Finding
    <3>. QED BY <3>1, <3>2
  <2>2. CASE v # w
    BY <1>2, <1>5, <1>6, <1>7, <2>2, OthersStay
  <2>. QED BY <2>1, <2>2
<1>11. JobsInv'
  <2> SUFFICES ASSUME NEW k \in Job
               PROVE  /\ state'[k] = "new" => attempts'[k] = 0
                      /\ state'[k] # "new" => attempts'[k] <= Bound(k)'
                      /\ state'[k] = "done" => Kept(k.event)'
    BY DEF JobsInv
  <2>1. CASE state[k] = "new"
    BY <1>2, <1>5, <2>1 DEF HandlersInv, JobsInv
  <2>2. CASE state[k] # "new"
    BY <1>2, <1>5, <1>6, <1>7, <2>2, JobsStay DEF HandlersInv, JobsInv
  <2>. QED BY <2>1, <2>2
<1>12. NoOrphans'
  BY <1>2, <1>7 DEF HandlersInv, NoOrphans, RowsOf
<1>. QED BY <1>6, <1>9, <1>10, <1>11, <1>12 DEF HandlersInv

(* A handler that returns has left what its event implies.                 *)
LEMMA CompleteJobStep ==
    ASSUME HandlersInv, NEW w \in Worker, CompleteJob(w)
    PROVE  HandlersInv'
<1>1. PICK j \in Job : At(w, j, "return")
  BY AtStatement DEF CompleteJob, Step
<1>2. Types
  BY DEF HandlersInv
<1>3. /\ running[w] = j /\ state[j] = "active" /\ Kept(j.event) /\ j.event \in DOMAIN feed
  BY <1>1, QueueAssumption DEF At, Sound, Early, Finding, HandlersInv, QueueInv
<1>4. /\ state' = [state EXCEPT ![j] = "done"]
      /\ running' = [running EXCEPT ![w] = NoJob]
      /\ pc' = [pc EXCEPT ![w] = "idle"]
      /\ UNCHANGED <<attempts, stalls, scenario, sent, found, db, asked, checked, requests,
                     throws, crashes>>
  BY <1>3 DEF CompleteJob, Complete, Goto, profile, faults
<1>5. /\ pc'[w] = "idle" /\ running'[w] = NoJob /\ state'[j] = "done"
      /\ \A v \in Worker \ {w} : pc'[v] = pc[v] /\ running'[v] = running[v]
      /\ \A k \in Job \ {j} : state'[k] = state[k]
  BY <1>2, <1>4 DEF Types, QueueTypeOK
<1>6. Types'
  BY <1>2, <1>4 DEF Types, QueueTypeOK, JobState, Step
<1>7. /\ Grows /\ VotesStay /\ throws <= throws' /\ requests <= requests' /\ feed' = feed
  BY <1>2, <1>4 DEF Types, Grows, VotesStay, feed
<1>8. \A v \in Worker \ {w} : running[v] # j
  BY <1>3, QueueAssumption DEF HandlersInv, QueueInv
<1>9. QueueInv'
  <2>1. \A v, u \in Worker : running'[v] = running'[u] => v = u \/ running'[v] = NoJob
    BY <1>5 DEF HandlersInv, QueueInv
  <2>2. \A v \in Worker : running'[v] # NoJob => state'[running'[v]] = "active"
    <3> SUFFICES ASSUME NEW v \in Worker, running'[v] # NoJob
                 PROVE  state'[running'[v]] = "active"
      OBVIOUS
    <3>1. v # w /\ running'[v] = running[v]
      BY <1>5
    <3>2. running[v] \in Job \ {j}
      BY <1>2, <1>8, <3>1 DEF Types, QueueTypeOK
    <3>3. state[running[v]] = "active"
      BY <3>2, QueueAssumption DEF HandlersInv, QueueInv
    <3>. QED BY <1>5, <3>1, <3>2, <3>3
  <2>3. \A k \in Job : state'[k] # "new" => k.event \in DOMAIN feed
    BY <1>3, <1>5 DEF HandlersInv, QueueInv
  <2>4. \A k \in Job : state'[k] # "failed" => attempts'[k] < Attempts
    BY <1>3, <1>4, <1>5 DEF HandlersInv, QueueInv
  <2>5. \A v \in Worker : pc'[v] = "idle" <=> running'[v] = NoJob
    BY <1>5 DEF HandlersInv, QueueInv
  <2>. QED BY <1>7, <2>1, <2>2, <2>3, <2>4, <2>5 DEF QueueInv
<1>10. WorkersSound'
  <2> SUFFICES ASSUME NEW v \in Worker, NEW k \in Job, NEW s \in Step,
                      running'[v] = k, pc'[v] = s
               PROVE  Sound(k, s)' /\ Tries(k, s)'
    BY DEF WorkersSound
  <2>1. v # w /\ running[v] = k /\ pc[v] = s
    BY <1>5, QueueAssumption
  <2>. QED BY <1>4, <1>6, <1>7, <2>1, OthersStay
<1>11. JobsInv'
  <2> SUFFICES ASSUME NEW k \in Job
               PROVE  /\ state'[k] = "new" => attempts'[k] = 0
                      /\ state'[k] # "new" => attempts'[k] <= Bound(k)'
                      /\ state'[k] = "done" => Kept(k.event)'
    BY DEF JobsInv
  <2>1. CASE k = j
    <3>1. Kept(j.event)' /\ Bound(j) <= Bound(j)' /\ Bound(j) \in Nat /\ Bound(j)' \in Nat
      BY <1>2, <1>3, <1>6, <1>7, SettlesStays, BoundStays
    <3>2. attempts[j] <= Bound(j) /\ attempts[j] \in Nat
      BY <1>3, QueueAssumption DEF HandlersInv, JobsInv, Types, QueueTypeOK
    <3>. QED BY <1>4, <1>5, <2>1, <3>1, <3>2
  <2>2. CASE k # j /\ state[k] = "new"
    BY <1>4, <1>5, <2>2 DEF HandlersInv, JobsInv
  <2>3. CASE k # j /\ state[k] # "new"
    BY <1>4, <1>5, <1>6, <1>7, <2>3, JobsStay
  <2>. QED BY <2>1, <2>2, <2>3
<1>12. NoOrphans'
  BY <1>4, <1>7 DEF HandlersInv, NoOrphans, RowsOf
<1>. QED BY <1>6, <1>9, <1>10, <1>11, <1>12 DEF HandlersInv

LEMMA HandlerThrowsStep ==
    ASSUME HandlersInv, NEW w \in Worker, HandlerThrows(w)
    PROVE  HandlersInv'
<1>1. Types /\ pc[w] # "idle"
  BY DEF HandlersInv, HandlerThrows
<1>2. PICK j \in Job : running[w] = j /\ state[j] = "active" /\ j.event \in DOMAIN feed
  BY <1>1, JobOf
<1>3. /\ throws + crashes < scenario.faults /\ throws' = throws + 1 /\ Reject(w)
      /\ pc' = [pc EXCEPT ![w] = "idle"]
      /\ UNCHANGED <<scenario, sent, found, db, asked, checked, requests, crashes>>
  BY DEF HandlerThrows, Goto, profile
<1>4. /\ throws \in Nat /\ throws' \in Nat /\ crashes \in Nat /\ requests \in Nat
      /\ scenario.faults \in Nat
  BY <1>1, <1>3, ScenarioAssumption DEF Types
<1>5. throws <= throws' /\ throws' + crashes <= scenario.faults
  BY <1>3, <1>4
<1>6. attempts[j] <= Bound(j) /\ attempts[j] \in Nat
  BY <1>1, <1>2, QueueAssumption DEF HandlersInv, JobsInv, Types, QueueTypeOK
<1>7. attempts[j] + 1 <= Bound(j)'
  BY <1>3, <1>4, <1>6 DEF Bound, IsVote, Settles, feed
<1>. QED BY <1>2, <1>3, <1>4, <1>5, <1>7, RejectStep

LEMMA SwallowErrorStep ==
    ASSUME HandlersInv, NEW w \in Worker, SwallowError(w)
    PROVE  HandlersInv'
<1> DEFINE s == "createEvent"  next == "findBackpack"
<1>1. PICK j \in Job : At(w, j, s)
  BY AtStatement DEF SwallowError, Step
<1>2. /\ throws + crashes < scenario.faults /\ throws' = throws + 1
      /\ pc' = [pc EXCEPT ![w] = next] /\ feed[j.event].kind = "SCALAR_TRANSFER"
      /\ UNCHANGED <<scenario, sent, blocksQueue, found, db, asked, checked, requests, crashes>>
  BY <1>1 DEF SwallowError, Goto, profile, At
<1>3. Types
  BY DEF HandlersInv
<1>4. throws \in Nat /\ crashes \in Nat /\ scenario.faults \in Nat
  BY <1>3, ScenarioAssumption DEF Types
<1>5. Types'
  BY <1>2, <1>3, <1>4 DEF Types, QueueTypeOK, blocksQueue, Step
<1>6. /\ Grows /\ VotesStay /\ throws <= throws' /\ requests <= requests' /\ feed' = feed
      /\ attempts' = attempts
  BY <1>2, <1>3, <1>4 DEF Types, Grows, VotesStay, feed, blocksQueue
<1>7. attempts[j] <= throws /\ attempts[j] \in Nat
  BY <1>1, <1>3, QueueAssumption DEF At, Tries, Finding, Types, QueueTypeOK
<1>8. Sound(j, next)' /\ Tries(j, next)'
  BY <1>2, <1>4, <1>6, <1>7 DEF Sound, KindSound, Kept, Tries, Early, Finding, Step
<1>9. NoOrphans'
  BY <1>2, <1>6 DEF HandlersInv, NoOrphans, RowsOf
<1>. QED BY <1>1, <1>2, <1>5, <1>6, <1>8, <1>9, HandlerStep DEF At, Step

LEMMA PromoteDelayedStep ==
    ASSUME HandlersInv, NEW j \in Job, PromoteDelayed(j)
    PROVE  HandlersInv'
<1>1. /\ state[j] = "delayed" /\ state' = [state EXCEPT ![j] = "wait"]
      /\ UNCHANGED <<attempts, stalls, running, scenario, sent, pc, found, db, asked, checked,
                     requests, throws, crashes>>
  BY DEF PromoteDelayed, Promote, handler, profile, faults
<1>2. Types /\ j.event \in DOMAIN feed
  BY <1>1 DEF HandlersInv, QueueInv
<1>3. Types' /\ state'[j] = "wait" /\ \A k \in Job \ {j} : state'[k] = state[k]
  BY <1>1, <1>2 DEF Types, QueueTypeOK, JobState
<1>. QED BY <1>1, <1>2, <1>3, QueueStep

LEMMA CheckStalledStep ==
    ASSUME HandlersInv, NEW j \in Job, CheckStalled(j)
    PROVE  HandlersInv'
<1>1. /\ state[j] = "stalled"
      /\ \/ /\ state' = [state EXCEPT ![j] = "front"] /\ stalls[j] < MaxStalls
            /\ stalls' = [stalls EXCEPT ![j] = @ + 1]
         \/ state' = [state EXCEPT ![j] = "failed"] /\ stalls' = stalls
      /\ UNCHANGED <<attempts, running, scenario, sent, pc, found, db, asked, checked,
                     requests, throws, crashes>>
  BY DEF CheckStalled, RecoverStalled, handler, profile, faults
<1>2. Types /\ j.event \in DOMAIN feed
  BY <1>1 DEF HandlersInv, QueueInv
<1>3. stalls' \in [Job -> 0..MaxStalls]
  <2>1. stalls \in [Job -> 0..MaxStalls] /\ stalls[j] \in 0..MaxStalls
    BY <1>2 DEF Types, QueueTypeOK
  <2>2. stalls[j] < MaxStalls => stalls[j] + 1 \in 0..MaxStalls
    BY <2>1, QueueAssumption
  <2>. QED BY <1>1, <2>1, <2>2
<1>4. /\ state' \in [Job -> JobState] /\ state'[j] \in {"front", "failed"}
      /\ \A k \in Job \ {j} : state'[k] = state[k]
  BY <1>1, <1>2 DEF Types, QueueTypeOK, JobState
<1>5. Types'
  BY <1>1, <1>2, <1>3, <1>4 DEF Types, QueueTypeOK
<1>. QED BY <1>1, <1>2, <1>4, <1>5, QueueStep

LEMMA CrashStep ==
    ASSUME HandlersInv, Crash
    PROVE  HandlersInv'
<1>1. /\ throws + crashes < scenario.faults /\ crashes' = crashes + 1
      /\ state' = [j \in Job |-> IF state[j] = "active" THEN "stalled" ELSE state[j]]
      /\ running' = [w \in Worker |-> NoJob]
      /\ pc' = [w \in Worker |-> "idle"] /\ found' = [w \in Worker |-> None]
      /\ checked' = [a \in Address |-> None]
      /\ UNCHANGED <<attempts, stalls, scenario, sent, db, asked, requests, throws>>
  BY DEF Crash, LoseWorkers
<1>2. Types
  BY DEF HandlersInv
<1>3. throws \in Nat /\ crashes \in Nat /\ scenario.faults \in Nat
  BY <1>2, ScenarioAssumption DEF Types
<1>4. Types'
  BY <1>1, <1>2, <1>3 DEF Types, QueueTypeOK, JobState, Step
<1>5. /\ Grows /\ VotesStay /\ throws <= throws' /\ requests <= requests' /\ feed' = feed
  BY <1>1, <1>2 DEF Types, Grows, VotesStay, feed
<1>6. \A k \in Job : /\ (state'[k] = "new" <=> state[k] = "new")
                      /\ (state'[k] = "done" <=> state[k] = "done")
                      /\ (state'[k] = "failed" <=> state[k] = "failed")
  BY <1>1
<1>7. QueueInv'
  BY <1>1, <1>5, <1>6 DEF HandlersInv, QueueInv
<1>8. WorkersSound'
  BY <1>1, QueueAssumption DEF WorkersSound
<1>9. JobsInv'
  BY <1>1, <1>4, <1>5, <1>6, JobsStay DEF HandlersInv, JobsInv
<1>10. NoOrphans'
  BY <1>1, <1>5 DEF HandlersInv, NoOrphans, RowsOf
<1>. QED BY <1>4, <1>7, <1>8, <1>9, <1>10 DEF HandlersInv
-------------------------------------------------------------------------------
(* Requests                                                                *)

LEMMA CheckProfilePictureStep ==
    ASSUME HandlersInv, NEW a \in Address, NEW t \in Token, CheckProfilePicture(a, t)
    PROVE  HandlersInv'
<1>1. /\ requests < scenario.requests /\ requests' = requests + 1
      /\ checked' = [checked EXCEPT ![a] = t]
      /\ UNCHANGED <<scenario, sent, blocksQueue, pc, found, db, asked, throws, crashes>>
  BY DEF CheckProfilePicture, handler, faults
<1>2. Types
  BY DEF HandlersInv
<1>3. requests \in Nat /\ scenario.requests \in Nat
  BY <1>2, ScenarioAssumption DEF Types
<1>4. Types'
  BY <1>1, <1>2, <1>3 DEF Types, QueueTypeOK, blocksQueue
<1>5. Grows /\ VotesStay /\ throws <= throws' /\ requests <= requests'
  BY <1>1, <1>2, <1>3 DEF Types, Grows, VotesStay
<1>6. NoOrphans'
  BY <1>1 DEF HandlersInv, NoOrphans, RowsOf, feed
<1>. QED BY <1>1, <1>4, <1>5, <1>6, QuietStep

LEMMA SetProfilePictureStep ==
    ASSUME HandlersInv, NEW a \in Address, SetProfilePicture(a)
    PROVE  HandlersInv'
<1>1. /\ db' = [db EXCEPT !.picture[a] = checked[a]]
      /\ checked' = [checked EXCEPT ![a] = None]
      /\ UNCHANGED <<scenario, sent, blocksQueue, pc, found, asked, requests, throws, crashes>>
  BY DEF SetProfilePicture, handler, faults
<1>2. Types /\ checked[a] \in Token \cup {None}
  BY DEF HandlersInv, Types
<1>3. /\ db' \in Tables
      /\ UNCHANGED <<db.event, db.knownTraits, db.backpack, db.redemption, db.stock,
                     db.vote, db.votingPower>>
  BY <1>1, <1>2, PictureTable DEF Types
<1>4. Types'
  BY <1>1, <1>2, <1>3 DEF Types, QueueTypeOK, blocksQueue
<1>5. Grows /\ VotesStay /\ throws <= throws' /\ requests <= requests'
  BY <1>1, <1>2, <1>3 DEF Types, Grows, VotesStay
<1>6. NoOrphans'
  BY <1>1, <1>2, <1>3, <1>5, OrphansStay DEF HandlersInv
<1>. QED BY <1>1, <1>4, <1>5, <1>6, QuietStep

(* The only step that takes a value back: every deleted vote allows two more
   attempts, for the update that finds no row and for a create that races.  *)
LEMMA GetVotingPowerStep ==
    ASSUME HandlersInv, NEW t \in Token, GetVotingPower(t)
    PROVE  HandlersInv'
<1>1. /\ requests < scenario.requests /\ requests' = requests + 1
      /\ db' = [db EXCEPT !.vote[t] = 0]
      /\ UNCHANGED <<scenario, sent, blocksQueue, pc, found, asked, checked, throws, crashes>>
  BY DEF GetVotingPower, handler, faults
<1>2. Types
  BY DEF HandlersInv
<1>3. /\ db' \in Tables
      /\ db'.vote = [db.vote EXCEPT ![t] = 0]
      /\ UNCHANGED <<db.event, db.knownTraits, db.backpack, db.redemption, db.stock,
                     db.votingPower>>
  BY <1>1, <1>2, VoteTable DEF Types
<1>4. requests \in Nat /\ scenario.requests \in Nat /\ throws \in Nat
  BY <1>2, ScenarioAssumption DEF Types
<1>5. Types'
  BY <1>1, <1>2, <1>3, <1>4 DEF Types, QueueTypeOK, blocksQueue
<1>6. Grows /\ feed' = feed /\ UNCHANGED <<state, attempts, running, pc>>
  BY <1>1, <1>2, <1>3 DEF Grows, feed, blocksQueue
<1>7. NoOrphans'
  BY <1>1, <1>2, <1>3, <1>6, OrphansStay DEF HandlersInv
<1>8. QueueInv'
  BY <1>6 DEF HandlersInv, QueueInv
<1>9. ASSUME NEW k \in Job, state[k] # "new"
      PROVE  /\ k.event \in DOMAIN feed /\ attempts[k] \in Nat
             /\ attempts[k] <= Bound(k)
             /\ IsVote(k) => attempts[k] < throws + 2 * requests'
             /\ attempts[k] <= Bound(k)'
             /\ (Settles(k.event)' <=> Settles(k.event))
  <2>1. /\ k.event \in DOMAIN feed /\ attempts[k] \in Nat /\ attempts[k] <= Bound(k)
    BY <1>2, <1>9, QueueAssumption DEF HandlersInv, QueueInv, JobsInv, Types, QueueTypeOK
  <2>2. Settles(k.event)' <=> Settles(k.event)
    BY <1>3, <1>6 DEF Settles
  <2>3. IsVote(k)' = IsVote(k)
    BY <1>6 DEF IsVote
  <2>4. IsVote(k) => attempts[k] < throws + 2 * requests'
    BY <1>1, <1>4, <2>1 DEF Bound
  <2>5. attempts[k] <= Bound(k)'
    BY <1>1, <1>4, <2>1, <2>2, <2>3, <2>4 DEF Bound
  <2>. QED BY <2>1, <2>2, <2>4, <2>5
<1>10. WorkersSound'
  <2> SUFFICES ASSUME NEW v \in Worker, NEW k \in Job, NEW s \in Step,
                      running'[v] = k, pc'[v] = s
               PROVE  Sound(k, s)' /\ Tries(k, s)'
    BY DEF WorkersSound
  <2>1. running[v] = k /\ pc[v] = s /\ Sound(k, s) /\ Tries(k, s) /\ state[k] # "new"
    BY <1>6, QueueAssumption DEF HandlersInv, QueueInv, WorkersSound
  <2>2. Sound(k, s)'
    BY <1>2, <1>6, <1>9, <2>1, SoundStays
  <2>3. s \in {"createVote", "updateVote"} => IsVote(k)
    BY <2>1 DEF Sound, KindSound, IsVote
  <2>4. Tries(k, s)'
    BY <1>1, <1>4, <1>6, <1>9, <2>1, <2>3 DEF Tries
  <2>. QED BY <2>2, <2>4
<1>11. JobsInv'
  <2>1. ASSUME NEW k \in Job, state[k] = "done"
        PROVE  Kept(k.event)'
    BY <1>2, <1>6, <1>9, <2>1, SettlesStays DEF HandlersInv, JobsInv
  <2>. QED BY <1>6, <1>9, <2>1 DEF HandlersInv, JobsInv
<1>. QED BY <1>5, <1>7, <1>8, <1>10, <1>11 DEF HandlersInv
-------------------------------------------------------------------------------
LEMMA HandlersInit == Init => HandlersInv
<1> SUFFICES ASSUME Init
             PROVE  HandlersInv
  OBVIOUS
<1>1. /\ scenario.faults \in Nat /\ scenario.requests \in Nat /\ scenario \in Scenarios
  BY ScenarioAssumption DEF Init
<1>2. EmptyDb \in Tables /\ EmptyDb.knownTraits = {}
      /\ EmptyDb.backpack = [t \in Token |-> None]
  BY DEF EmptyDb, Tables
<1>3. Types
  BY <1>1, <1>2, BoundsAssumption, QueueAssumption
     DEF Init, Types, QueueInit, QueueTypeOK, JobState, Step
<1>4. QueueInv
  BY QueueAssumption DEF Init, QueueInit, QueueInv
<1>5. WorkersSound
  BY QueueAssumption DEF Init, QueueInit, WorkersSound
<1>6. JobsInv
  BY DEF Init, QueueInit, JobsInv
<1>7. NoOrphans
  BY <1>2 DEF Init, NoOrphans
<1>. QED BY <1>3, <1>4, <1>5, <1>6, <1>7 DEF HandlersInv

LEMMA HandlersNext == HandlersInv /\ [Next]_vars => HandlersInv'
<1> SUFFICES ASSUME HandlersInv, [Next]_vars
             PROVE  HandlersInv'
  OBVIOUS
<1>1. CASE UNCHANGED vars
  <2>1. UNCHANGED <<scenario, sent, state, attempts, stalls, running, pc, found, db, asked,
                    checked, requests, throws, crashes>>
    BY <1>1 DEF vars, blocksQueue, handler, profile, faults
  <2>2. feed' = feed /\ Types'
    BY <2>1 DEF feed, HandlersInv, Types, QueueTypeOK
  <2>3. Grows /\ VotesStay /\ throws <= throws' /\ requests <= requests'
    BY <2>1 DEF HandlersInv, Types, Grows, VotesStay
  <2>4. NoOrphans'
    BY <2>1, <2>2 DEF HandlersInv, NoOrphans, RowsOf
  <2>. QED BY <2>1, <2>2, <2>3, <2>4, QuietStep DEF blocksQueue
<1>2. ASSUME NEW c \in 1..Copies, QueueIndexBlockData(c)
      PROVE  HandlersInv'
  BY <1>2, QueueIndexBlockDataStep
<1>3. ASSUME NEW w \in Worker, NEW j \in Job, IndexBlock(w, j)
      PROVE  HandlersInv'
  BY <1>3, IndexBlockStep
<1>4. ASSUME NEW w \in Worker,
             Statement(w) \/ CompleteJob(w) \/ HandlerThrows(w) \/ SwallowError(w)
      PROVE  HandlersInv'
  BY <1>4, StatementStep, CompleteJobStep, HandlerThrowsStep, SwallowErrorStep
<1>5. ASSUME NEW j \in Job, PromoteDelayed(j) \/ CheckStalled(j)
      PROVE  HandlersInv'
  BY <1>5, PromoteDelayedStep, CheckStalledStep
<1>6. CASE Crash
  BY <1>6, CrashStep
<1>7. ASSUME NEW a \in Address, SetProfilePicture(a)
      PROVE  HandlersInv'
  BY <1>7, SetProfilePictureStep
<1>8. ASSUME NEW a \in Address, NEW t \in Token, CheckProfilePicture(a, t)
      PROVE  HandlersInv'
  BY <1>8, CheckProfilePictureStep
<1>9. ASSUME NEW t \in Token, GetVotingPower(t)
      PROVE  HandlersInv'
  BY <1>9, GetVotingPowerStep
<1>. QED BY <1>1, <1>2, <1>3, <1>4, <1>5, <1>6, <1>7, <1>8, <1>9 DEF Next

(* Each handler comes to a statement only with what the statement relies on
   in the tables, and with attempts left for the refusals it may still meet. *)
THEOREM HandlersInvariant == Spec => []HandlersInv
BY HandlersInit, HandlersNext, PTL DEF Spec

(* The tables, the handlers and the queue keep their types; no job has two
   workers, and none is retried more often than JOB_SETTINGS allow.        *)
THEOREM TypeCorrect == Spec => []TypeOK
<1>1. HandlersInv => TypeOK
  <2> SUFFICES ASSUME HandlersInv
               PROVE  TypeOK
    OBVIOUS
  <2>1. throws + crashes \in 0..scenario.faults /\ requests \in 0..scenario.requests
    BY ScenarioAssumption DEF HandlersInv, Types
  <2>. QED BY <2>1 DEF HandlersInv, Types, Tables, TypeOK
<1>. QED BY <1>1, HandlersInvariant, PTL

(* Nothing is left that no row explains, whatever runs concurrently, fails or
   crashes: the row of an event is written before what follows from it.     *)
THEOREM NothingOrphaned == Spec => []NoOrphans
BY HandlersInvariant, PTL DEF HandlersInv

(* The early returns of a retry, or of the handler of a second stream, never
   drop an event: a complete job has its row or its value in the tables.    *)
THEOREM NothingDropped == Spec => []AcknowledgedIsIndexed
<1>1. HandlersInv => AcknowledgedIsIndexed
  <2> SUFFICES ASSUME HandlersInv, NEW j \in Job, state[j] = "done"
               PROVE  LET e == feed[j.event] IN
                      /\ e.kind \in KeepsRow => db.event[j.event] # None
                      /\ e.kind = "TRAIT_REDEMPTION" => <<e.value, e.token>> \in db.redemption
                      /\ e.kind = "PHARMACY_STOCK_UPDATED" => db.stock[e.token] # 0
                      /\ e.kind = "ATTRIBUTE_ADDED" /\ e.value = 1 => e.token \in db.votingPower
    BY DEF AcknowledgedIsIndexed
  <2>1. Kept(j.event)
    BY DEF HandlersInv, JobsInv
  <2>. QED BY <2>1 DEF Kept, Settles, KeepsRow
<1>. QED BY <1>1, HandlersInvariant, PTL

(* Lost races cost a job one attempt beyond its errors, and a vote two more for
   each of its rows that getVotingPower deleted.                           *)
THEOREM OneRefusalAtMost == Spec => []OneRefusal
<1>1. HandlersInv => OneRefusal
  <2> SUFFICES ASSUME HandlersInv, NEW j \in Job, attempts[j] > throws + 1
               PROVE  IsVote(j) /\ attempts[j] <= throws + 2 * requests + 1
    BY DEF OneRefusal
  <2>1. attempts[j] \in Nat /\ throws \in Nat /\ requests \in Nat
    BY QueueAssumption DEF HandlersInv, Types, QueueTypeOK
  <2>2. attempts[j] <= Bound(j)
    BY <2>1 DEF HandlersInv, JobsInv
  <2>. QED BY <2>1, <2>2 DEF Bound
<1>. QED BY <1>1, HandlersInvariant, PTL
===============================================================================
