--------------------------- MODULE Acknowledgement ---------------------------
(***************************************************************************)
(* ProcessClientAcknowledgment (gc_server/networking_inventory.cpp): the   *)
(* client names items it has seen for the first time and the coordinator   *)
(* gives each a position in the inventory, one past the highest in use, in *)
(* one transaction.  The column "acknowledged" holds the position; 0 and   *)
(* anything from 2^30 up mean that the item has none yet.                  *)
(*                                                                         *)
(* A step is one statement, so that statements can fail, and the process   *)
(* die, anywhere in the handler.  Rows arrive from the shop and from the   *)
(* other handlers, and leave by DeleteItem.                                *)
(***************************************************************************)
EXTENDS Transactions, Integers, Sequences, FiniteSets

CONSTANTS Players,
          MaxItems,      \* bound: rows ever inserted
          MaxRequest,    \* bound: items named in one request
          Unacknowledged,  \* 2^30: from here on the column holds no position
          NoRow

Ids == 1..MaxItems
Row == [owner: Players, position: Nat]

ASSUME AcknowledgementAssumption ==
    /\ MaxItems \in Nat
    /\ MaxRequest \in Nat
    /\ Unacknowledged \in Nat \ {0}
    /\ NoRow \notin Row

VARIABLES
    nextId,     \* AUTO_INCREMENT of csgo_items
    pc,         \* the statement the handler is about to run; "idle" between requests
    player,     \* whose request it is
    todo,       \* the ids of the request still to be handled
    next,       \* next_position
    told,       \* the positions the answer will carry, 0 for none
    count,      \* successCount
    shown       \* the position each item's owner has been told, 0 for none

handler == <<pc, player, todo, next, told, count>>
vars    == <<db, nextId, handler, shown>>

TypeOK ==
    /\ table \in [Ids -> Row \cup {NoRow}]
    /\ durable \in [Ids -> Row \cup {NoRow}]
    /\ inTransaction \in BOOLEAN
    /\ connected \in BOOLEAN
    /\ nextId \in 1..(MaxItems + 1)
    /\ pc \in {"idle", "start", "update"}
    /\ player \in Players
    /\ todo \in Seq(Ids)
    /\ next \in Nat
    /\ told \in [Ids -> Nat]
    /\ count \in Nat
    /\ shown \in [Ids -> Nat]
-----------------------------------------------------------------------------
\* Row i of t belongs to p and has a position.
Placed(t, p, i) ==
    /\ t[i] # NoRow
    /\ t[i].owner = p
    /\ t[i].position \in 1..(Unacknowledged - 1)

\* Mutant of Acknowledgeable: the UPDATE looks at the owner only.
AcknowledgeableAgain(p, i) == table[i] # NoRow /\ table[i].owner = p

\* The condition of the UPDATE.
Acknowledgeable(p, i) ==
    /\ table[i] # NoRow
    /\ table[i].owner = p
    /\ table[i].position = 0 \/ table[i].position >= Unacknowledged

\* COALESCE(MAX(acknowledged), 1) over p's rows below 2^30: a row still at 0
\* counts, so that the result is 0 when there are such rows only.
Positions(p) ==
    {table[i].position : i \in {j \in Ids : /\ table[j] # NoRow
                                            /\ table[j].owner = p
                                            /\ table[j].position < Unacknowledged}}
\* Mutant of HighestPosition: the rows are counted.
HighestPositionCounted(p) == {1 + Cardinality({i \in Ids : Placed(table, p, i)})}

\* The one highest position.
HighestPosition(p) ==
    IF Positions(p) = {} THEN {1}
    ELSE {m \in Positions(p) : \A n \in Positions(p) : n <= m}

\* Position 1 is the name tag's.
Following(n) == IF n + 1 = 1 THEN 2 ELSE n + 1

Requests == UNION {[1..n -> Ids] : n \in 1..MaxRequest}

Init ==
    /\ table = [i \in Ids |-> NoRow]
    /\ durable = table
    /\ inTransaction = FALSE
    /\ connected = TRUE
    /\ nextId = 1
    /\ pc = "idle"
    /\ player \in Players
    /\ todo = <<>>
    /\ next = 0
    /\ told = [i \in Ids |-> 0]
    /\ count = 0
    /\ shown = [i \in Ids |-> 0]

Done ==
    /\ pc' = "idle"
    /\ todo' = <<>>
    /\ next' = 0
    /\ told' = [i \in Ids |-> 0]
    /\ count' = 0
    /\ UNCHANGED player
-----------------------------------------------------------------------------
\* A request with at least one id, once the highest position has been read.  (The one
\* row of that query is in the client's memory by the time it is fetched; that the
\* fetch still fails, and 1 is taken for the highest, is left out.)
ProcessClientAcknowledgment(p, ids) ==
    /\ pc = "idle"
    /\ connected
    /\ ids # <<>>
    /\ pc' = "start"
    /\ player' = p
    /\ todo' = ids
    /\ next' \in HighestPosition(p)
    /\ UNCHANGED <<db, nextId, told, count, shown>>

\* Mutant of StartTransaction: no rollback when the UPDATE cannot be prepared.
StartTransactionLeaks ==
    /\ pc = "start"
    /\ UNCHANGED <<nextId, shown>>
    /\ \/ Started /\ pc' = "update" /\ UNCHANGED <<player, todo, next, told, count>>
       \/ Started /\ Done

\* The transaction starts and the UPDATE is prepared; or one of them fails, and
\* the handler rolls back and returns.
StartTransaction ==
    /\ pc = "start"
    /\ UNCHANGED <<nextId, shown>>
    /\ \/ Started /\ pc' = "update" /\ UNCHANGED <<player, todo, next, told, count>>
       \/ RolledBack /\ Done

\* The row is given the position and fetched again for the answer, unless the
\* fetch fails.
PositionAssigned(i) ==
    /\ Acknowledgeable(player, i)
    /\ Executed([table EXCEPT ![i] = [owner |-> player, position |-> Following(next)]])
    /\ next' = Following(next)
    /\ told' \in {told, [told EXCEPT ![i] = Following(next)]}
    /\ count' = count + 1

\* Not found or already acknowledged: the position is given back.
NothingAssigned(i) ==
    /\ connected
    /\ ~Acknowledgeable(player, i)
    /\ next' = Following(next) - 1
    /\ UNCHANGED <<db, told, count>>

\* The UPDATE fails: the position is skipped and the loop goes on.
AssignmentFailed ==
    /\ StatementFailed
    /\ next' = Following(next)
    /\ UNCHANGED <<told, count>>

UpdateNext ==
    /\ pc = "update"
    /\ todo # <<>>
    /\ PositionAssigned(Head(todo)) \/ NothingAssigned(Head(todo)) \/ AssignmentFailed
    /\ todo' = Tail(todo)
    /\ UNCHANGED <<nextId, pc, player, shown>>

\* The answer, which may not reach the player.
Answered ==
    \/ UNCHANGED shown
    \/ shown' = [i \in Ids |-> IF told[i] # 0 THEN told[i] ELSE shown[i]]

\* Mutant of Finish: the answer is sent whatever becomes of the commit.
FinishAnswersFirst ==
    /\ pc = "update"
    /\ todo = <<>>
    /\ \/ count > 0 /\ (Committed \/ CommitFailed) /\ Answered
       \/ count = 0 /\ RolledBack /\ UNCHANGED shown
    /\ Done
    /\ UNCHANGED nextId

\* Commit and answer when a row was updated, roll back otherwise.
Finish ==
    /\ pc = "update"
    /\ todo = <<>>
    /\ \/ count > 0 /\ Committed /\ Answered
       \/ count > 0 /\ CommitFailed /\ UNCHANGED shown
       \/ count = 0 /\ RolledBack /\ UNCHANGED shown
    /\ Done
    /\ UNCHANGED nextId
-----------------------------------------------------------------------------
\* A row inserted by the shop, a crate or a craft, committed at once.
Insert(p, position) ==
    /\ nextId <= MaxItems
    /\ table' = [table EXCEPT ![nextId] = [owner |-> p, position |-> position]]
    /\ durable' = [durable EXCEPT ![nextId] = [owner |-> p, position |-> position]]
    /\ nextId' = nextId + 1
    /\ UNCHANGED <<inTransaction, connected, handler, shown>>

DeleteItem(i) ==
    /\ pc = "idle"
    /\ table[i] # NoRow
    /\ Executed([table EXCEPT ![i] = NoRow])
    /\ UNCHANGED <<nextId, handler, shown>>

\* The whole inventory, sent when the player asks for it; it replaces what the
\* player knew.
SendSOCache(p) ==
    /\ pc = "idle"
    /\ connected
    /\ shown' = [i \in Ids |->
          IF Placed(table, p, i) THEN table[i].position
          ELSE IF table[i] # NoRow /\ table[i].owner = p THEN 0 ELSE shown[i]]
    /\ UNCHANGED <<db, nextId, handler>>

\* The process dies, wherever it is, and is started again.
Restart ==
    /\ Reopened
    /\ Done
    /\ UNCHANGED <<nextId, shown>>
-----------------------------------------------------------------------------
Next ==
    \/ \E p \in Players, ids \in Requests : ProcessClientAcknowledgment(p, ids)
    \/ StartTransaction
    \/ UpdateNext
    \/ Finish
    \/ \E p \in Players, position \in {0, Unacknowledged} : Insert(p, position)
    \/ \E i \in Ids : DeleteItem(i)
    \/ \E p \in Players : SendSOCache(p)
    \/ Restart

Spec == Init /\ [][Next]_vars
-----------------------------------------------------------------------------
(* Properties. *)

\* No two items of a player share a position and none takes the name tag's, in
\* what is committed and in what the handler is about to commit.
PositionsDistinct ==
    \A t \in {table, durable} : \A p \in Players : \A i, j \in Ids :
        Placed(t, p, i) =>
            /\ t[i].position > 1
            /\ Placed(t, p, j) /\ i # j => t[i].position # t[j].position

\* An item that has a position keeps it until it is deleted, whatever the client
\* repeats and whatever fails.
PositionsFinal ==
    [][\A p \in Players, i \in Ids :
         Placed(durable, p, i) /\ durable'[i] # NoRow => durable'[i] = durable[i]]_vars

\* Between requests no transaction is left open, in which the next handler's
\* statements would be caught.
AtRest == pc = "idle" => ~inTransaction /\ table = durable

\* The position a player has been told is the one in the database.  Needs a
\* database without deadlocks.
ToldWhatIsStored ==
    \A i \in Ids : shown[i] # 0 /\ durable[i] # NoRow => durable[i].position = shown[i]
=============================================================================
