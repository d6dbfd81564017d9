----------------------------- MODULE BlockHandlers -----------------------------
(***************************************************************************)
(* The event handlers of BlocksService, statement by statement.  A handler *)
(* is a chain of awaited Postgres statements without a transaction, so any *)
(* other handler, and any request of the REST API, can run between two of  *)
(* them, and an error or a crash leaves the statements before it in place. *)
(*                                                                         *)
(* The events come from a feed, in chain order.  A stream that was         *)
(* restarted delivers the feed once more (a further copy).  An event's     *)
(* position in the feed stands for its key (transactionHash, eventIndex)   *)
(* and for its job's priority.                                             *)
(*                                                                         *)
(* What a behaviour may meet is its scenario, [feed, copies, loops, faults,*)
(* requests]: the chain, how many streams deliver it, how many worker      *)
(* loops run at once, and the bounds on database errors and crashes        *)
(* together and on the requests that write the same tables.                *)
(***************************************************************************)
EXTENDS Naturals, Sequences, FiniteSets

CONSTANTS
    Scenarios,      \* the scenarios considered
    MaxLength,      \* of a feed
    Copies,         \* bound on the streams that deliver it
    Token,          \* token ids, of pills and traits alike
    Address,        \* wallet addresses; each has an account
    None,           \* no token (id 0, or a null column), no row
    Worker, NoJob, Attempts, MaxStalls      \* of the queue

Job == [copy : 1..Copies, event : 1..MaxLength]
Priority == [j \in Job |-> j.event]

EventKind == {"Prescription_Updated", "Transfer", "SCALAR_TRANSFER", "SCALAR_REMOVE",
              "PILL_FAME_UPDATED", "PILL_DEFAME_UPDATED", "PHARMACY_STOCK_UPDATED",
              "PILL_VOTE_TIMESTAMP", "TRAIT_VOTE_TIME_STAMP", "TRAIT_REDEMPTION",
              "ATTRIBUTE_ADDED"}

(* An event of the feed.  A trait is transferred to the id of a pill. Amounts
   and timestamps are counted from 1, for 0 stands for a row that is missing. *)
ChainEvent ==
    {e \in [kind : EventKind, token : Token, from : Address \cup {None},
            to : Address \cup Token \cup {None}, bg : Token \cup {None},
            ing : Token \cup {None}, value : Nat] :
        /\ e.kind \in {"Transfer", "SCALAR_REMOVE", "TRAIT_REDEMPTION"} => e.to \in Address
        /\ e.kind \in {"PHARMACY_STOCK_UPDATED", "PILL_VOTE_TIMESTAMP",
                       "TRAIT_VOTE_TIME_STAMP"} => e.value # 0}

ASSUME ScenarioAssumption ==
    \A s \in Scenarios :
        /\ s.feed \in Seq(ChainEvent) /\ Len(s.feed) <= MaxLength
        /\ s.copies \in 1..Copies /\ s.loops \in Nat
        /\ s.faults \in Nat /\ s.requests \in Nat
ASSUME BoundsAssumption == MaxLength \in Nat /\ Copies \in Nat
ASSUME QueueAssumption == NoJob \notin Job /\ Attempts \in Nat \ {0} /\ MaxStalls \in Nat

VARIABLES
    scenario,       \* chosen at the start
    sent,           \* [1..Copies -> Nat], the jobs each copy has added
    state, attempts, stalls, running,       \* the blocks queue
    pc,             \* [Worker -> the statement the handler awaits next]
    found,          \* [Worker -> the account its last read returned]
    db,             \* the tables, a record
    asked,          \* the jobs the handlers asked of the two other queues
    checked,        \* [Address -> the picture a profile update will set]
    throws, crashes, requests

INSTANCE BullQueue

feed == scenario.feed

blocksQueue == <<state, attempts, stalls, running>>
handler == <<pc, found>>
profile == <<checked, requests>>
faults == <<throws, crashes>>
vars == <<scenario, sent, blocksQueue, handler, db, asked, profile, faults>>

Step == {"idle", "return",
         "findEvent", "findMinted", "createMint", "createChange", "createEvent",
         "createBG", "queueBG", "createIng", "queueIng", "queueMetadata",
         "checkIfIsPill", "findPicture", "clearPicture",
         "findBackpack", "updateBackpack", "createBackpack", "deleteBackpack",
         "findStock", "updateStock", "createStock",
         "findVote", "updateVote", "createVote",
         "findRedemption", "createRedemption", "findKnown", "createKnown",
         "queueTrait", "findPower", "createPower"}

EventType == {"MINT", "CHANGE_ATTRIBUTE", "TRANSFER", "FAME", "DEFAME",
              "SCALAR_REMOVE", "SCALAR_TRANSFER"}

ASSUME NoneAssumption == None \notin Token /\ None \notin Address /\ None \notin EventType

TypeOK ==
    /\ scenario \in Scenarios
    /\ sent \in [1..Copies -> 0..MaxLength]
    /\ QueueTypeOK
    /\ pc \in [Worker -> Step]
    /\ found \in [Worker -> Address \cup {None}]
    /\ db.event \in [1..MaxLength -> EventType \cup {None}]
    /\ db.knownTraits \subseteq Token
    /\ db.backpack \in [Token -> Address \cup {None}]
    /\ db.redemption \subseteq Nat \X Token
    /\ db.stock \in [Token -> Nat] /\ db.vote \in [Token -> Nat]
    /\ db.votingPower \subseteq Token
    /\ db.picture \in [Address -> Token \cup {None}]
    /\ asked.metadata \subseteq Token /\ asked.backpack \subseteq Token
    /\ checked \in [Address -> Token \cup {None}]
    /\ throws + crashes \in 0..scenario.faults /\ requests \in 0..scenario.requests

EmptyDb ==
    [event |-> [n \in 1..MaxLength |-> None],
     knownTraits |-> {},
     backpack |-> [t \in Token |-> None],
     redemption |-> {},
     stock |-> [t \in Token |-> 0],
     vote |-> [t \in Token |-> 0],
     votingPower |-> {},
     picture |-> [a \in Address |-> None]]

Init ==
    /\ scenario \in Scenarios
    /\ sent = [c \in 1..Copies |-> 0]
    /\ QueueInit
    /\ pc = [w \in Worker |-> "idle"]
    /\ found = [w \in Worker |-> None]
    /\ db = EmptyDb
    /\ asked = [metadata |-> {}, backpack |-> {}]
    /\ checked = [a \in Address |-> None]
    /\ requests = 0
    /\ throws = 0 /\ crashes = 0
-------------------------------------------------------------------------------
(* Shapes of a handler's statements                                        *)

Event(w) == feed[running[w].event]

Goto(w, next) == pc' = [pc EXCEPT ![w] = next]

(* A SELECT: what it returned decides where the handler goes on.           *)
Reads(w, here, next) ==
    /\ pc[w] = here
    /\ Goto(w, next)
    /\ UNCHANGED <<scenario, sent, blocksQueue, found, db, asked, profile, faults>>

(* An INSERT, UPDATE or DELETE.                                            *)
Writes(w, here, tables, next) ==
    /\ pc[w] = here
    /\ db' = tables
    /\ Goto(w, next)
    /\ UNCHANGED <<scenario, sent, blocksQueue, found, asked, profile, faults>>

(* queueIndexMetadata of another service, which is not awaited.            *)
Asks(w, here, jobs, next) ==
    /\ pc[w] = here
    /\ asked' = jobs
    /\ Goto(w, next)
    /\ UNCHANGED <<scenario, sent, blocksQueue, found, db, profile, faults>>

(* The statement is refused (unique key, or no row to update): it throws.  *)
Refused(w, here) ==
    /\ pc[w] = here
    /\ Reject(w)
    /\ Goto(w, "idle")
    /\ UNCHANGED <<scenario, sent, found, db, asked, profile, faults>>

(* INSERT of a row with a unique key.                                      *)
Inserts(w, here, exists, tables, next) ==
    /\ pc[w] = here
    /\ \/ ~exists /\ Writes(w, here, tables, next)
       \/ exists /\ Refused(w, here)

(* UPDATE or DELETE of one row by its key, which must exist.               *)
Changes(w, here, exists, tables, next) == Inserts(w, here, ~exists, tables, next)
-------------------------------------------------------------------------------
(* The start of a handler: indexBlock of BlocksProcessor dispatches on the
   event's type.                                                           *)
HandlerStart(kind) ==
    CASE kind \in {"Prescription_Updated", "Transfer", "SCALAR_TRANSFER",
                   "SCALAR_REMOVE", "PILL_FAME_UPDATED", "PILL_DEFAME_UPDATED"}
                                                 -> "findEvent"
      [] kind = "PHARMACY_STOCK_UPDATED"         -> "findStock"
      [] kind \in {"PILL_VOTE_TIMESTAMP", "TRAIT_VOTE_TIME_STAMP"} -> "findVote"
      [] kind = "TRAIT_REDEMPTION"               -> "findRedemption"
      [] kind = "ATTRIBUTE_ADDED"                -> "findPower"

IndexBlock(w, j) ==
    /\ Cardinality({v \in Worker : running[v] # NoJob}) < scenario.loops
    /\ Take(w, j)
    /\ Goto(w, HandlerStart(feed[j.event].kind))
    /\ UNCHANGED <<scenario, sent, found, db, asked, profile, faults>>

(* The events that have a row and concern the token.                       *)
RowsOf(token) ==
    {n \in DOMAIN feed : db.event[n] # None /\ feed[n].token = token}

Indexed(w) == db.event[running[w].event] # None

(* Mutants: the check asks for the token instead of the key; no check.     *)
FindEvent_ByToken(w) ==
    Reads(w, "findEvent", IF RowsOf(Event(w).token) # {} THEN "return"
                          ELSE IF Event(w).kind = "Prescription_Updated"
                          THEN "findMinted" ELSE "createEvent")

FindEvent_Never(w) ==
    Reads(w, "findEvent", IF Event(w).kind = "Prescription_Updated"
                          THEN "findMinted" ELSE "createEvent")

(* "... has already been indexed": the handlers' common first statement.   *)
FindEvent(w) ==
    Reads(w, "findEvent", IF Indexed(w) THEN "return"
                          ELSE IF Event(w).kind = "Prescription_Updated"
                          THEN "findMinted" ELSE "createEvent")

(* handlePrescriptionUpdated: a token with any event was minted before.    *)
FindMinted(w) ==
    Reads(w, "findMinted",
          IF RowsOf(Event(w).token) # {} THEN "createChange" ELSE "createMint")

WithRow(w, type) == [db EXCEPT !.event[running[w].event] = type]

CreateChange(w) ==
    Inserts(w, "createChange", Indexed(w), WithRow(w, "CHANGE_ATTRIBUTE"),
            "queueMetadata")

(* Mutant: the metadata of the background is asked for, its row forgotten. *)
CreateMint_AsksOnly(w) ==
    Inserts(w, "createMint", Indexed(w), WithRow(w, "MINT"),
            IF Event(w).bg # None THEN "queueBG"
            ELSE IF Event(w).ing # None THEN "createIng" ELSE "queueMetadata")

CreateMint(w) ==
    Inserts(w, "createMint", Indexed(w), WithRow(w, "MINT"),
            IF Event(w).bg # None THEN "createBG"
            ELSE IF Event(w).ing # None THEN "createIng" ELSE "queueMetadata")

WithTrait(t) == [db EXCEPT !.knownTraits = @ \cup {t}]

CreateBG(w) ==
    Inserts(w, "createBG", Event(w).bg \in db.knownTraits, WithTrait(Event(w).bg),
            "queueBG")

QueueBG(w) ==
    Asks(w, "queueBG", [asked EXCEPT !.backpack = @ \cup {Event(w).bg}],
         IF Event(w).ing # None THEN "createIng" ELSE "queueMetadata")

CreateIng(w) ==
    Inserts(w, "createIng", Event(w).ing \in db.knownTraits, WithTrait(Event(w).ing),
            "queueIng")

QueueIng(w) ==
    Asks(w, "queueIng", [asked EXCEPT !.backpack = @ \cup {Event(w).ing}],
         "queueMetadata")

QueueMetadata(w) ==
    Asks(w, "queueMetadata", [asked EXCEPT !.metadata = @ \cup {Event(w).token}],
         "return")

(* Mutant: the name of the contract's event instead of the row's type.     *)
RowType_EventName ==
    [PILL_FAME_UPDATED |-> "PILL_FAME_UPDATED", PILL_DEFAME_UPDATED |-> "DEFAME",
     Transfer |-> "TRANSFER", SCALAR_REMOVE |-> "SCALAR_REMOVE",
     SCALAR_TRANSFER |-> "SCALAR_TRANSFER"]

(* handleFame, handleDefame, handleTransfer, handleScalarRemove and
   handleScalarTransfer create their row; the last one catches the error of a
   row that exists.                                                        *)
RowType == [PILL_FAME_UPDATED |-> "FAME", PILL_DEFAME_UPDATED |-> "DEFAME",
            Transfer |-> "TRANSFER", SCALAR_REMOVE |-> "SCALAR_REMOVE",
            SCALAR_TRANSFER |-> "SCALAR_TRANSFER"]

AfterRow(kind) ==
    CASE kind \in {"PILL_FAME_UPDATED", "PILL_DEFAME_UPDATED"} -> "queueMetadata"
      [] kind = "Transfer"                                     -> "checkIfIsPill"
      [] kind \in {"SCALAR_REMOVE", "SCALAR_TRANSFER"}         -> "findBackpack"

(* Mutant: an "irrelevant" transfer, of a trait that is in no backpack, returns
   before its row.                                                          *)
CreateEvent_Relevant(w) ==
    LET kind == Event(w).kind IN
    /\ pc[w] = "createEvent"
    /\ IF kind = "SCALAR_TRANSFER" /\ db.backpack[Event(w).token] = None
         THEN Reads(w, "createEvent", "return")
         ELSE IF kind = "SCALAR_TRANSFER" /\ Indexed(w)
         THEN Reads(w, "createEvent", AfterRow(kind))
         ELSE Inserts(w, "createEvent", Indexed(w), WithRow(w, RowType[kind]),
                      AfterRow(kind))

CreateEvent(w) ==
    LET kind == Event(w).kind IN
    /\ pc[w] = "createEvent"
    /\ IF kind = "SCALAR_TRANSFER" /\ Indexed(w)
         THEN Reads(w, "createEvent", AfterRow(kind))
         ELSE Inserts(w, "createEvent", Indexed(w), WithRow(w, RowType[kind]),
                      AfterRow(kind))

CheckIfIsPill(w) ==
    Reads(w, "checkIfIsPill",
          IF \E n \in RowsOf(Event(w).token) : db.event[n] = "MINT"
          THEN "findPicture" ELSE "findBackpack")

(* handleTransferIfIsPill: the first account that shows the pill.          *)
FindPicture(w) ==
    LET users == {a \in Address : db.picture[a] = Event(w).token} IN
    /\ pc[w] = "findPicture"
    /\ \/ /\ users = {}
          /\ Goto(w, "return")
          /\ UNCHANGED found
       \/ \E a \in users :
             /\ found' = [found EXCEPT ![w] = a]
             /\ Goto(w, "clearPicture")
    /\ UNCHANGED <<scenario, sent, blocksQueue, db, asked, profile, faults>>

ClearPicture(w) ==
    Writes(w, "clearPicture", [db EXCEPT !.picture[found[w]] = None], "return")

(* handleTransferIfIsTraitOrPill, and the rest of handleScalarRemove and
   handleScalarTransfer: the owner of a trait that is not on a pill.       *)
FindBackpack(w) ==
    LET kind == Event(w).kind IN
    Reads(w, "findBackpack",
          IF db.backpack[Event(w).token] = None
          THEN IF kind = "SCALAR_TRANSFER" THEN "return" ELSE "createBackpack"
          ELSE CASE kind = "Transfer"        -> "updateBackpack"
                 [] kind = "SCALAR_REMOVE"   -> "return"
                 [] kind = "SCALAR_TRANSFER" -> "deleteBackpack")

WithOwner(w, owner) == [db EXCEPT !.backpack[Event(w).token] = owner]

InBackpack(w) == db.backpack[Event(w).token] # None

(* Mutant: the trait stays with the sender.                                *)
UpdateBackpack_From(w) ==
    Changes(w, "updateBackpack", InBackpack(w), WithOwner(w, Event(w).from), "return")

UpdateBackpack(w) ==
    Changes(w, "updateBackpack", InBackpack(w), WithOwner(w, Event(w).to), "return")

CreateBackpack(w) ==
    Inserts(w, "createBackpack", InBackpack(w), WithOwner(w, Event(w).to),
            IF Event(w).kind = "TRAIT_REDEMPTION" THEN "queueTrait" ELSE "return")

DeleteBackpack(w) ==
    Changes(w, "deleteBackpack", InBackpack(w), WithOwner(w, None), "return")

(* handlePharmacyStockUpdated and handlePillVoteTimestamp keep no row of the
   event: the newest value of the token, whatever was indexed before.       *)
FindStock(w) ==
    Reads(w, "findStock",
          IF db.stock[Event(w).token] = 0 THEN "createStock" ELSE "updateStock")

WithStock(w) == [db EXCEPT !.stock[Event(w).token] = Event(w).value]

UpdateStock(w) ==
    Changes(w, "updateStock", db.stock[Event(w).token] # 0, WithStock(w), "return")

CreateStock(w) ==
    Inserts(w, "createStock", db.stock[Event(w).token] # 0, WithStock(w), "return")

FindVote(w) ==
    Reads(w, "findVote",
          IF db.vote[Event(w).token] = 0 THEN "createVote" ELSE "updateVote")

WithVote(w) == [db EXCEPT !.vote[Event(w).token] = Event(w).value]

UpdateVote(w) ==
    Changes(w, "updateVote", db.vote[Event(w).token] # 0, WithVote(w), "return")

CreateVote(w) ==
    Inserts(w, "createVote", db.vote[Event(w).token] # 0, WithVote(w), "return")

(* handleTraitRedemption: a trait of another chain is claimed once.         *)
Redemption(w) == <<Event(w).value, Event(w).token>>

FindRedemption(w) ==
    Reads(w, "findRedemption",
          IF Redemption(w) \in db.redemption THEN "return" ELSE "createRedemption")

CreateRedemption(w) ==
    Inserts(w, "createRedemption", Redemption(w) \in db.redemption,
            [db EXCEPT !.redemption = @ \cup {Redemption(w)}], "findKnown")

FindKnown(w) ==
    Reads(w, "findKnown",
          IF Event(w).token \in db.knownTraits THEN "return" ELSE "createKnown")

CreateKnown(w) ==
    Inserts(w, "createKnown", Event(w).token \in db.knownTraits,
            WithTrait(Event(w).token), "createBackpack")

QueueTrait(w) ==
    Asks(w, "queueTrait", [asked EXCEPT !.backpack = @ \cup {Event(w).token}],
         "return")

(* handleAttributeAdded: only attribute 1 gives voting power.               *)
FindPower(w) ==
    Reads(w, "findPower",
          IF Event(w).value # 1 \/ Event(w).token \in db.votingPower
          THEN "return" ELSE "createPower")

CreatePower(w) ==
    Inserts(w, "createPower", Event(w).token \in db.votingPower,
            [db EXCEPT !.votingPower = @ \cup {Event(w).token}], "return")
-------------------------------------------------------------------------------
(* The queue around the handlers                                           *)

(* A stream adds the job of the next event of the feed.                    *)
QueueIndexBlockData(c) ==
    /\ c <= scenario.copies
    /\ sent[c] < Len(feed)
    /\ sent' = [sent EXCEPT ![c] = @ + 1]
    /\ Add([copy |-> c, event |-> sent'[c]])
    /\ UNCHANGED <<scenario, handler, db, asked, profile, faults>>

CompleteJob(w) ==
    /\ pc[w] = "return"
    /\ Complete(w)
    /\ Goto(w, "idle")
    /\ UNCHANGED <<scenario, sent, found, db, asked, profile, faults>>

(* An awaited statement fails, or its reply is lost: the handler throws and
   the statements before it stay.                                          *)
HandlerThrows(w) ==
    /\ throws + crashes < scenario.faults
    /\ pc[w] # "idle"
    /\ ~(pc[w] = "createEvent" /\ Event(w).kind = "SCALAR_TRANSFER")
    /\ Reject(w)
    /\ Goto(w, "idle")
    /\ throws' = throws + 1
    /\ UNCHANGED <<scenario, sent, found, db, asked, profile, crashes>>

(* The try ... catch of handleScalarTransfer: it goes on without its row.  *)
SwallowError(w) ==
    /\ throws + crashes < scenario.faults
    /\ pc[w] = "createEvent"
    /\ Event(w).kind = "SCALAR_TRANSFER"
    /\ Goto(w, "findBackpack")
    /\ throws' = throws + 1
    /\ UNCHANGED <<scenario, sent, blocksQueue, found, db, asked, profile, crashes>>

PromoteDelayed(j) ==
    /\ Promote(j)
    /\ UNCHANGED <<scenario, sent, handler, db, asked, profile, faults>>

CheckStalled(j) ==
    /\ RecoverStalled(j)
    /\ UNCHANGED <<scenario, sent, handler, db, asked, profile, faults>>

(* The process dies and is started again: its handlers and its requests are
   gone.  (That the streams resume behind the mark is BlocksPipeline's part:
   here they go on with the feed.)                                         *)
Crash ==
    /\ throws + crashes < scenario.faults
    /\ LoseWorkers
    /\ pc' = [w \in Worker |-> "idle"]
    /\ found' = [w \in Worker |-> None]
    /\ checked' = [a \in Address |-> None]
    /\ crashes' = crashes + 1
    /\ UNCHANGED <<scenario, sent, db, asked, requests, throws>>
-------------------------------------------------------------------------------
(* Requests that write the same tables: updateAccount with a new profile   *)
(* picture, and the query getVotingPower, which deletes old votes          *)

(* Mutant: the rows that name the user as the sender are not asked for.     *)
Owns_Received(a, t) ==
    /\ \E n \in RowsOf(t) : db.event[n] = "MINT"
    /\ \E n \in RowsOf(t) : db.event[n] \in {"MINT", "TRANSFER"} /\ feed[n].to = a

(* findTokenIdsOwnedByUser: a pill whose last mint or transfer that involves
   the user went to the user.                                              *)
Owns(a, t) ==
    LET moves == {n \in RowsOf(t) :
                    \/ db.event[n] \in {"MINT", "TRANSFER"} /\ feed[n].to = a
                    \/ db.event[n] = "TRANSFER" /\ feed[n].from = a}
    IN  /\ \E n \in RowsOf(t) : db.event[n] = "MINT"
        /\ \E n \in moves : feed[n].to = a /\ \A m \in moves : m <= n

CheckProfilePicture(a, t) ==
    /\ requests < scenario.requests
    /\ checked[a] = None
    /\ Owns(a, t)
    /\ checked' = [checked EXCEPT ![a] = t]
    /\ requests' = requests + 1
    /\ UNCHANGED <<scenario, sent, blocksQueue, handler, db, asked, faults>>

SetProfilePicture(a) ==
    /\ checked[a] # None
    /\ db' = [db EXCEPT !.picture[a] = checked[a]]
    /\ checked' = [checked EXCEPT ![a] = None]
    /\ UNCHANGED <<scenario, sent, blocksQueue, handler, asked, requests, faults>>

GetVotingPower(t) ==
    /\ requests < scenario.requests
    /\ db.vote[t] # 0
    /\ db' = [db EXCEPT !.vote[t] = 0]
    /\ requests' = requests + 1
    /\ UNCHANGED <<scenario, sent, blocksQueue, handler, asked, checked, faults>>
-------------------------------------------------------------------------------
Statement(w) ==
    \/ FindEvent(w) \/ FindMinted(w) \/ CreateChange(w) \/ CreateMint(w)
    \/ CreateBG(w) \/ QueueBG(w) \/ CreateIng(w) \/ QueueIng(w)
    \/ QueueMetadata(w) \/ CreateEvent(w)
    \/ CheckIfIsPill(w) \/ FindPicture(w) \/ ClearPicture(w)
    \/ FindBackpack(w) \/ UpdateBackpack(w) \/ CreateBackpack(w) \/ DeleteBackpack(w)
    \/ FindStock(w) \/ UpdateStock(w) \/ CreateStock(w)
    \/ FindVote(w) \/ UpdateVote(w) \/ CreateVote(w)
    \/ FindRedemption(w) \/ CreateRedemption(w) \/ FindKnown(w) \/ CreateKnown(w)
    \/ QueueTrait(w) \/ FindPower(w) \/ CreatePower(w)

Next ==
    \/ \E c \in 1..Copies : QueueIndexBlockData(c)
    \/ \E w \in Worker, j \in Job : IndexBlock(w, j)
    \/ \E w \in Worker : Statement(w)
    \/ \E w \in Worker : CompleteJob(w) \/ HandlerThrows(w) \/ SwallowError(w)
    \/ \E j \in Job : PromoteDelayed(j) \/ CheckStalled(j)
    \/ Crash
    \/ \E a \in Address, t \in Token : CheckProfilePicture(a, t)
    \/ \E a \in Address : SetProfilePicture(a)
    \/ \E t \in Token : GetVotingPower(t)

Spec == Init /\ [][Next]_vars
-------------------------------------------------------------------------------
(* Nothing is left that no row explains: a known trait comes from a mint or
   a redemption that has its row, its metadata is asked for only once it is
   known, and the owner of a trait in the backpack is the receiver of a
   transfer, a removal or a redemption that has its row.  The order of each
   handler's statements guarantees it under every interleaving, error and
   crash: the row first, then what follows from it (blocks.service.ts).    *)
NoOrphans ==
    /\ \A t \in db.knownTraits :
          \/ \E n \in DOMAIN feed :
                db.event[n] = "MINT" /\ t \in {feed[n].bg, feed[n].ing}
          \/ \E r \in db.redemption : r[2] = t
    /\ asked.backpack \subseteq db.knownTraits
    /\ \A t \in Token : db.backpack[t] # None =>
          \/ \E n \in RowsOf(t) :
                /\ db.event[n] \in {"TRANSFER", "SCALAR_REMOVE"}
                /\ feed[n].to = db.backpack[t]
          \/ /\ t \in db.knownTraits
             /\ \E n \in DOMAIN feed :
                   /\ feed[n].kind = "TRAIT_REDEMPTION"
                   /\ feed[n].token = t /\ feed[n].to = db.backpack[t]
                   /\ <<feed[n].value, t>> \in db.redemption

(* The events whose handler leaves a row behind; handleScalarTransfer may
   go on without one.                                                      *)
KeepsRow == {"Prescription_Updated", "Transfer", "SCALAR_REMOVE",
             "PILL_FAME_UPDATED", "PILL_DEFAME_UPDATED"}

(* A job that is complete, and so will never run again, left its row, or its
   value, in the tables: the early returns of a retry or of a second stream
   never drop an event.                                                    *)
AcknowledgedIsIndexed ==
    \A j \in Job : state[j] = "done" =>
        LET e == feed[j.event] IN
        /\ e.kind \in KeepsRow => db.event[j.event] # None
        /\ e.kind = "TRAIT_REDEMPTION" => <<e.value, e.token>> \in db.redemption
        /\ e.kind = "PHARMACY_STOCK_UPDATED" => db.stock[e.token] # 0
        /\ e.kind = "ATTRIBUTE_ADDED" /\ e.value = 1 => e.token \in db.votingPower

(* handleScalarTransfer swallows the error of its insert, so a job may complete
   while its event has no row.  But each job that does has met an error of its
   own: no race, crash or retry adds one, and a second stream that delivers the
   event finds no row and makes up for it.                                  *)
WithoutRow ==
    {j \in Job : /\ state[j] = "done" /\ feed[j.event].kind = "SCALAR_TRANSFER"
                 /\ db.event[j.event] = None}

RowsLostToErrors == Cardinality(WithoutRow) <= throws

(* A handler that loses a race against another one (both saw no row, one of
   the two inserts is refused) finds the row when it is retried: races cost a
   job at most one of its attempts, so the three of JOB_SETTINGS outlast one
   race and one database error, whatever runs concurrently.  Only a vote can
   be refused more often, twice for each time getVotingPower deletes its row
   in between: the update that finds no row, then one more lost race.      *)
IsVote(j) == feed[j.event].kind \in {"PILL_VOTE_TIMESTAMP", "TRAIT_VOTE_TIME_STAMP"}

OneRefusal ==
    \A j \in Job : attempts[j] > throws + 1 =>
        IsVote(j) /\ attempts[j] <= throws + 2 * requests + 1

(* What the tables must hold when every event was applied, said of the chain
   f and not of the handlers.                                              *)
EventsOf(f, kinds, t) == {n \in DOMAIN f : f[n].kind \in kinds /\ f[n].token = t}
LastOf(S) == CHOOSE n \in S : \A m \in S : m <= n
FirstOf(S) == CHOOSE n \in S : \A m \in S : n <= m

Of(kinds, t) == EventsOf(feed, kinds, t)
Prescriptions(f, t) == EventsOf(f, {"Prescription_Updated"}, t)

Minted(t) == Prescriptions(feed, t) # {}
MintOf(t) == FirstOf(Prescriptions(feed, t))

LastValue(kinds, t) ==
    IF Of(kinds, t) = {} THEN 0 ELSE feed[LastOf(Of(kinds, t))].value

(* A trait is in the backpack of the last receiver, unless it is on a pill. *)
TraitMoves == {"Transfer", "SCALAR_REMOVE", "SCALAR_TRANSFER", "TRAIT_REDEMPTION"}

HolderAfter(f, k, t) ==
    LET moves == {n \in EventsOf(f, TraitMoves, t) : n <= k}
    IN  IF moves = {} \/ f[LastOf(moves)].kind = "SCALAR_TRANSFER"
        THEN None ELSE f[LastOf(moves)].to

HolderOnChain(t) == IF Minted(t) THEN None ELSE HolderAfter(feed, Len(feed), t)

Traits(e) == {e.bg, e.ing} \ {None}

Pills(f) == {t \in Token : Prescriptions(f, t) # {}}
MintsOf(f) == {FirstOf(Prescriptions(f, p)) : p \in Pills(f)}

TraitsOnChain ==
    {t \in Token : Of({"TRAIT_REDEMPTION"}, t) # {}}
      \cup UNION {Traits(feed[n]) : n \in MintsOf(feed)}
-------------------------------------------------------------------------------
(* What the contracts guarantee of a chain f; they are not in src/         *)

(* A pill is no trait.  It is prescribed before any other event that leaves a
   row, and the events that follow name its holder: the receiver of the first
   prescription or of the last transfer.                                   *)
Receipts(f, t, k) ==
    {n \in Prescriptions(f, t) : n < k /\ \A m \in Prescriptions(f, t) : n <= m}
      \cup {n \in EventsOf(f, {"Transfer"}, t) : n < k}

PillsHeld(f) ==
    \A t \in Token : Prescriptions(f, t) # {} =>
        /\ EventsOf(f, TraitMoves \ {"Transfer"}, t) = {}
        /\ \A n \in EventsOf(f, KeepsRow, t) : \E m \in Prescriptions(f, t) : m <= n
        /\ \A n \in Prescriptions(f, t) :
              IF Receipts(f, t, n) = {} THEN f[n].to \in Address
              ELSE f[n].to = f[LastOf(Receipts(f, t, n))].to
        /\ \A n \in EventsOf(f, {"Transfer"}, t) :
              f[n].from = f[LastOf(Receipts(f, t, n))].to

(* A trait comes with one pill, or is redeemed once, before it moves.  While it
   is not on a pill its holder moves it or puts it on.                     *)
TraitsHeld(f) ==
    /\ \A m, n \in MintsOf(f) : m # n => Traits(f[m]) \cap Traits(f[n]) = {}
    /\ \A n \in MintsOf(f) : f[n].bg = None \/ f[n].bg # f[n].ing
    /\ \A n \in DOMAIN f : f[n].kind = "TRAIT_REDEMPTION" =>
          /\ \A m \in EventsOf(f, TraitMoves, f[n].token) : n <= m
          /\ \A m \in MintsOf(f) : f[n].token \notin Traits(f[m])
    /\ \A t \in Token : \A n \in EventsOf(f, TraitMoves, t) :
          HolderAfter(f, n - 1, t) # None =>
              /\ f[n].kind \in {"Transfer", "SCALAR_TRANSFER"}
              /\ f[n].from = HolderAfter(f, n - 1, t)

(* At its end, no two pills wear the same trait, and none wears it twice.   *)
LastPrescribed(f, p) == f[LastOf(Prescriptions(f, p))]

WornOnce(f) ==
    /\ \A p, q \in Pills(f) : p # q =>
          Traits(LastPrescribed(f, p)) \cap Traits(LastPrescribed(f, q)) = {}
    /\ \A p \in Pills(f) : /\ Traits(LastPrescribed(f, p)) \cap Pills(f) = {}
                           /\ LET e == LastPrescribed(f, p)
                              IN  e.bg = None \/ e.bg # e.ing

IsCalm(s) == s.loops = 1 /\ s.faults = 0 /\ s.requests = 0

ASSUME ChainAssumption ==
    \A s \in Scenarios : /\ PillsHeld(s.feed)
                         /\ IsCalm(s) => TraitsHeld(s.feed) /\ WornOnce(s.feed)
-------------------------------------------------------------------------------
Settled == /\ \A c \in 1..scenario.copies : sent[c] = Len(feed)
           /\ \A j \in Job : state[j] \in {"new", "done", "failed"}

Calm == IsCalm(scenario)

(* One worker and no fault: however often the streams deliver the feed, and
   however their copies interleave, the tables end as the chain is.        *)
SettledIsChain ==
    Calm /\ Settled =>
        /\ \A n \in DOMAIN feed : db.event[n] = "MINT" <=>
              Minted(feed[n].token) /\ n = MintOf(feed[n].token)
        /\ db.knownTraits = TraitsOnChain
        /\ asked.backpack = db.knownTraits
        /\ \A t \in Token :
              /\ db.backpack[t] = HolderOnChain(t)
              /\ db.stock[t] = LastValue({"PHARMACY_STOCK_UPDATED"}, t)
              /\ db.vote[t] =
                    LastValue({"PILL_VOTE_TIMESTAMP", "TRAIT_VOTE_TIME_STAMP"}, t)

(* blocks.service.ts:50, "if this tokenId has been minted, then it's a change
   of attributes, otherwise it's a mint": with several workers it is not so. *)
MintedFirst ==
    \A n \in DOMAIN feed :
        /\ db.event[n] = "MINT" => n = MintOf(feed[n].token)
        /\ db.event[n] = "CHANGE_ATTRIBUTE" => n # MintOf(feed[n].token)

(* blocks.service.ts:117-118, KnownTraits "will contain all the ids of every
   trait ever created", because asking for the metadata might fail.        *)
KnownTraitsComplete ==
    Settled => \A n \in DOMAIN feed :
        db.event[n] = "MINT" => {feed[n].bg, feed[n].ing} \ {None} \subseteq db.knownTraits

(* blocks.service.ts:285-287, a pill that is transferred away is no longer the
   profile picture of the address it left.                                 *)
PictureOfHolder ==
    Settled /\ (\A a \in Address : checked[a] = None) =>
        \A a \in Address : db.picture[a] # None =>
            LET moves == Of({"Prescription_Updated", "Transfer"}, db.picture[a])
            IN  feed[LastOf(moves)].to = a
=============================================================================
