------------------------ MODULE AcknowledgementProofs ------------------------
(***************************************************************************)
(* What holds of Acknowledgement for any number of players and items, any  *)
(* length of request and any failures, deadlocks included; and, without    *)
(* deadlocks, that a player has been told what is stored.                  *)
(***************************************************************************)
EXTENDS Acknowledgement, FiniteSetTheorems, TLAPS

\* Splits a step into the actions.
LEMMA NextCases ==
    ASSUME [Next]_vars,
           NEW ACTION P,
           \A p \in Players, ids \in Requests : ProcessClientAcknowledgment(p, ids) => P,
           StartTransaction => P,
           UpdateNext => P,
           Finish => P,
           \A p \in Players, position \in {0, Unacknowledged} : Insert(p, position) => P,
           \A i \in Ids : DeleteItem(i) => P,
           \A p \in Players : SendSOCache(p) => P,
           Restart => P,
           UNCHANGED vars => P
    PROVE  P
BY DEF Next

Table == [Ids -> Row \cup {NoRow}]

\* A transaction is open in the loop of updates only, and without one the
\* connection sees what is committed.
Bracketed ==
    /\ ~inTransaction => table = durable
    /\ pc # "update" => ~inTransaction

\* The handler's transaction changes nothing but rows without a position.
Kept ==
    \A i \in Ids :
        /\ table[i] = NoRow <=> durable[i] = NoRow
        /\ durable[i] # NoRow =>
              /\ table[i].owner = durable[i].owner
              /\ durable[i].position \in 1..(Unacknowledged - 1) => table[i] = durable[i]

Fresh == \A i \in Ids : i >= nextId => table[i] = NoRow /\ durable[i] = NoRow

\* next_position is no lower than any position the player has.
Ahead ==
    pc # "idle" => \A t \in {table, durable} : \A i \in Ids :
                      Placed(t, player, i) => t[i].position <= next

\* The inductive invariant.
Inv == TypeOK /\ Bracketed /\ Kept /\ Fresh /\ Ahead /\ PositionsDistinct
-----------------------------------------------------------------------------
LEMMA HighestIsAbove ==
    ASSUME TypeOK, NEW p \in Players, NEW m \in HighestPosition(p)
    PROVE  /\ m \in Nat
           /\ \A i \in Ids : Placed(table, p, i) => table[i].position <= m
<1>1. Positions(p) \subseteq Nat
  BY DEF TypeOK, Positions, Row
<1>2. \A i \in Ids : Placed(table, p, i) => table[i].position \in Positions(p)
  <2>1. SUFFICES ASSUME NEW i \in Ids, Placed(table, p, i)
                 PROVE  table[i].position < Unacknowledged
    BY <2>1 DEF Placed, Positions
  <2>2. QED
    BY <2>1, AcknowledgementAssumption DEF Placed
<1>3. CASE Positions(p) = {}
  BY <1>2, <1>3 DEF HighestPosition
<1>4. CASE Positions(p) # {}
  BY <1>1, <1>2, <1>4 DEF HighestPosition
<1>5. QED
  BY <1>3, <1>4

LEMMA RequestsAreSequences == \A ids \in Requests : ids \in Seq(Ids)
BY DEF Requests

\* Each handler action leaves the committed rows alone, makes them what the
\* connection sees, or writes one row both see.
LEMMA TypeOKInductive ==
    ASSUME TypeOK, Bracketed, [Next]_vars
    PROVE  TypeOK'
<1> USE AcknowledgementAssumption
<1>1. ASSUME NEW p \in Players, NEW ids \in Requests, ProcessClientAcknowledgment(p, ids)
      PROVE  TypeOK'
  <2>1. next' \in Nat
    BY <1>1, HighestIsAbove DEF ProcessClientAcknowledgment
  <2>2. todo' \in Seq(Ids)
    BY <1>1, RequestsAreSequences DEF ProcessClientAcknowledgment
  <2>3. QED
    BY <1>1, <2>1, <2>2 DEF TypeOK, ProcessClientAcknowledgment, db
<1>2. ASSUME StartTransaction PROVE TypeOK'
  <2>1. /\ table' \in {table, durable} /\ durable' \in {table, durable}
        /\ inTransaction' \in BOOLEAN /\ connected' \in BOOLEAN
    BY <1>2 DEF TypeOK, StartTransaction, Started, RolledBack, Undone
  <2>2. CASE Done
    BY <1>2, <2>1, <2>2 DEF TypeOK, StartTransaction, Done
  <2>3. CASE ~Done
    BY <1>2, <2>1, <2>3 DEF TypeOK, StartTransaction
  <2>4. QED
    BY <2>2, <2>3
<1>3. ASSUME UpdateNext PROVE TypeOK'
  <2> DEFINE i == Head(todo)
  <2>1. i \in Ids /\ todo' \in Seq(Ids)
    BY <1>3 DEF TypeOK, UpdateNext
  <2>2. Following(next) \in Nat /\ Following(next) - 1 \in Nat
    BY DEF TypeOK, Following
  <2>3. CASE PositionAssigned(i)
    <3> DEFINE row == [owner |-> player, position |-> Following(next)]
    <3>1. row \in Row
      BY <2>2 DEF TypeOK, Row
    <3> HIDE DEF row
    <3>2. [table EXCEPT ![i] = row] \in [Ids -> Row \cup {NoRow}]
      BY <2>1, <3>1 DEF TypeOK
    <3>3. [told EXCEPT ![i] = Following(next)] \in [Ids -> Nat]
      BY <2>1, <2>2 DEF TypeOK
    <3>4. Executed([table EXCEPT ![i] = row]) /\ told' \in {told, [told EXCEPT ![i] = Following(next)]}
      BY <2>3 DEF PositionAssigned, row
    <3>5. next' = Following(next) /\ count' = count + 1
      BY <2>3 DEF PositionAssigned
    <3>6. table' \in [Ids -> Row \cup {NoRow}] /\ durable' \in [Ids -> Row \cup {NoRow}]
      BY <3>2, <3>4 DEF TypeOK, Executed
    <3>7. inTransaction' = inTransaction /\ connected' = connected
      BY <3>4 DEF Executed
    <3>8. UNCHANGED <<nextId, pc, player, shown>>
      BY <1>3 DEF UpdateNext
    <3>9. told' \in [Ids -> Nat]
      BY <3>3, <3>4 DEF TypeOK
    <3>10. next' \in Nat /\ count' \in Nat
      BY <2>2, <3>5 DEF TypeOK
    <3>11. QED
      BY <2>1, <3>6, <3>7, <3>8, <3>9, <3>10 DEF TypeOK
  <2>4. CASE NothingAssigned(i)
    BY <1>3, <2>1, <2>2, <2>4 DEF TypeOK, UpdateNext, NothingAssigned, db
  <2>5. CASE AssignmentFailed
    BY <1>3, <2>1, <2>2, <2>5
       DEF TypeOK, UpdateNext, AssignmentFailed, StatementFailed, ConnectionLost, Undone, db
  <2>6. QED
    BY <1>3, <2>3, <2>4, <2>5 DEF UpdateNext
<1>4. ASSUME Finish PROVE TypeOK'
  <2>1. shown' \in [Ids -> Nat]
    BY <1>4 DEF TypeOK, Finish, Answered
  <2>2. /\ table' \in {table, durable} /\ durable' \in {table, durable}
        /\ inTransaction' \in BOOLEAN /\ connected' \in BOOLEAN
    BY <1>4 DEF TypeOK, Finish, Committed, CommitFailed, ConnectionLost, RolledBack, Undone
  <2>3. QED
    BY <1>4, <2>1, <2>2 DEF TypeOK, Finish, Done
<1>5. ASSUME NEW p \in Players, NEW position \in {0, Unacknowledged}, Insert(p, position)
      PROVE  TypeOK'
  BY <1>5 DEF TypeOK, Insert, Row, Ids, handler
<1>6. ASSUME NEW i \in Ids, DeleteItem(i) PROVE TypeOK'
  BY <1>6 DEF TypeOK, DeleteItem, Executed, handler
<1>7. ASSUME NEW p \in Players, SendSOCache(p) PROVE TypeOK'
  <2>1. shown' \in [Ids -> Nat]
    BY <1>7 DEF TypeOK, SendSOCache, Placed, Row
  <2>2. QED
    BY <1>7, <2>1 DEF TypeOK, SendSOCache, db, handler
<1>8. ASSUME Restart PROVE TypeOK'
  <2>1. /\ table' = durable /\ durable' = durable
        /\ inTransaction' \in BOOLEAN /\ connected' \in BOOLEAN
    BY <1>8 DEF TypeOK, Restart, Reopened, Undone
  <2>2. QED
    BY <1>8, <2>1 DEF TypeOK, Restart, Done
<1>9. CASE UNCHANGED vars
  BY <1>9 DEF TypeOK, vars, db, handler
<1>10. QED
  BY <1>1, <1>2, <1>3, <1>4, <1>5, <1>6, <1>7, <1>8, <1>9, NextCases

\* The connection's transaction is the handler's.
LEMMA BracketedInductive ==
    ASSUME TypeOK, Bracketed, [Next]_vars
    PROVE  Bracketed'
<1>1. ASSUME NEW p \in Players, NEW ids \in Requests, ProcessClientAcknowledgment(p, ids)
      PROVE  Bracketed'
  BY <1>1 DEF Bracketed, ProcessClientAcknowledgment, db
<1>2. ASSUME StartTransaction PROVE Bracketed'
  BY <1>2 DEF Bracketed, StartTransaction, Started, RolledBack, Undone, Done
<1>3. ASSUME UpdateNext PROVE Bracketed'
  <2> DEFINE i == Head(todo)
  <2>1. pc' = "update"
    BY <1>3 DEF UpdateNext
  <2>2. CASE PositionAssigned(i)
    BY <2>1, <2>2 DEF Bracketed, PositionAssigned, Executed
  <2>3. CASE NothingAssigned(i)
    BY <2>1, <2>3 DEF Bracketed, NothingAssigned, db
  <2>4. CASE AssignmentFailed
    BY <2>1, <2>4 DEF Bracketed, AssignmentFailed, StatementFailed, ConnectionLost, Undone, db
  <2>5. QED
    BY <1>3, <2>2, <2>3, <2>4 DEF UpdateNext
<1>4. ASSUME Finish PROVE Bracketed'
  BY <1>4 DEF Bracketed, Finish, Committed, CommitFailed, ConnectionLost, RolledBack, Undone, Done
<1>5. ASSUME NEW p \in Players, NEW position \in {0, Unacknowledged}, Insert(p, position)
      PROVE  Bracketed'
  BY <1>5 DEF Bracketed, Insert, handler
<1>6. ASSUME NEW i \in Ids, DeleteItem(i) PROVE Bracketed'
  BY <1>6 DEF Bracketed, DeleteItem, Executed, handler
<1>7. ASSUME NEW p \in Players, SendSOCache(p) PROVE Bracketed'
  BY <1>7 DEF Bracketed, SendSOCache, db, handler
<1>8. ASSUME Restart PROVE Bracketed'
  BY <1>8 DEF Bracketed, Restart, Reopened, Undone, Done
<1>9. CASE UNCHANGED vars
  BY <1>9 DEF Bracketed, vars, db, handler
<1>10. QED
  BY <1>1, <1>2, <1>3, <1>4, <1>5, <1>6, <1>7, <1>8, <1>9, NextCases

\* What a step does to the two copies of the rows: both become what one of them was,
\* or a new row appears in both, or one goes, or the handler places an item.
RowsStep ==
    \/ table' = table /\ durable' = durable
    \/ table' = durable' /\ durable' \in {table, durable}
    \/ \E p \in Players, n \in {0, Unacknowledged} : Insert(p, n)
    \/ \E i \in Ids : DeleteItem(i)
    \/ UpdateNext /\ PositionAssigned(Head(todo))

LEMMA RowsSteps ==
    ASSUME TypeOK, [Next]_vars
    PROVE  RowsStep
<1> DEFINE Copies == \/ table' = table /\ durable' = durable
                     \/ table' = durable' /\ durable' \in {table, durable}
<1>1. ASSUME NEW p \in Players, NEW ids \in Requests, ProcessClientAcknowledgment(p, ids)
      PROVE  Copies
  BY <1>1 DEF ProcessClientAcknowledgment, db
<1>2. ASSUME StartTransaction PROVE Copies
  BY <1>2 DEF StartTransaction, Started, RolledBack, Undone
<1>3. ASSUME UpdateNext PROVE RowsStep
  <2>1. CASE PositionAssigned(Head(todo))
    BY <1>3, <2>1 DEF RowsStep
  <2>2. CASE NothingAssigned(Head(todo))
    BY <2>2 DEF RowsStep, NothingAssigned, db
  <2>3. CASE AssignmentFailed
    BY <2>3 DEF RowsStep, AssignmentFailed, StatementFailed, ConnectionLost, Undone, db
  <2>4. QED
    BY <1>3, <2>1, <2>2, <2>3 DEF UpdateNext
<1>4. ASSUME Finish PROVE Copies
  BY <1>4 DEF Finish, Committed, CommitFailed, ConnectionLost, RolledBack, Undone
<1>5. ASSUME NEW p \in Players, SendSOCache(p) PROVE Copies
  BY <1>5 DEF SendSOCache, db
<1>6. ASSUME Restart PROVE Copies
  BY <1>6 DEF Restart, Reopened, Undone
<1>7. ASSUME UNCHANGED vars PROVE Copies
  BY <1>7 DEF vars, db
<1>8. \A p \in Players, n \in {0, Unacknowledged} : Insert(p, n) => RowsStep
  BY DEF RowsStep
<1>9. \A i \in Ids : DeleteItem(i) => RowsStep
  BY DEF RowsStep
<1>10. Copies => RowsStep
  BY DEF RowsStep
<1> HIDE DEF Copies
<1>11. QED
  BY <1>1, <1>2, <1>3, <1>4, <1>5, <1>6, <1>7, <1>8, <1>9, <1>10, NextCases

\* An insertion, a deletion and an assignment, row by row.
LEMMA InsertRows ==
    ASSUME TypeOK, NEW p \in Players, NEW n \in {0, Unacknowledged}, Insert(p, n)
    PROVE  /\ nextId \in Ids /\ nextId' = nextId + 1
           /\ table'[nextId] = [owner |-> p, position |-> n]
           /\ durable'[nextId] = [owner |-> p, position |-> n]
           /\ \A i \in Ids : i # nextId => table'[i] = table[i] /\ durable'[i] = durable[i]
BY AcknowledgementAssumption DEF TypeOK, Insert, Ids

LEMMA DeleteRows ==
    ASSUME TypeOK, Bracketed, NEW i \in Ids, DeleteItem(i)
    PROVE  /\ table = durable /\ durable' = table' /\ nextId' = nextId
           /\ table'[i] = NoRow
           /\ \A j \in Ids : j # i => table'[j] = table[j]
BY DEF TypeOK, Bracketed, DeleteItem, Executed

LEMMA FollowingAbove ==
    ASSUME TypeOK
    PROVE  Following(next) \in Nat /\ Following(next) > next /\ Following(next) > 1
BY DEF TypeOK, Following

LEMMA AssignedRows ==
    ASSUME TypeOK, Bracketed, UpdateNext, PositionAssigned(Head(todo))
    PROVE  \E i \in Ids :
              /\ Acknowledgeable(player, i)
              /\ nextId' = nextId /\ player' = player /\ next' = Following(next)
              /\ table'[i] = [owner |-> player, position |-> Following(next)]
              /\ \A j \in Ids : j # i => table'[j] = table[j]
              /\ \/ durable' = durable
                 \/ durable' = table' /\ table = durable
<1> DEFINE i == Head(todo)
           row == [owner |-> player, position |-> Following(next)]
<1>1. i \in Ids
  BY DEF TypeOK, UpdateNext
<1>2. Acknowledgeable(player, i) /\ next' = Following(next) /\ Executed([table EXCEPT ![i] = row])
  BY DEF PositionAssigned
<1>3. nextId' = nextId /\ player' = player
  BY DEF UpdateNext
<1> HIDE DEF row, i
<1>4. table'[i] = row /\ \A j \in Ids : j # i => table'[j] = table[j]
  BY <1>1, <1>2 DEF TypeOK, Executed
<1>5. \/ durable' = durable
      \/ durable' = table' /\ table = durable
  BY <1>2 DEF Executed, Bracketed
<1>6. QED
  BY <1>1, <1>2, <1>3, <1>4, <1>5 DEF row

LEMMA KeptInductive ==
    ASSUME TypeOK, Bracketed, Kept, [Next]_vars
    PROVE  Kept'
<1>1. CASE table' = table /\ durable' = durable
  BY <1>1 DEF Kept
<1>2. CASE table' = durable' /\ durable' \in {table, durable}
  BY <1>2 DEF Kept
<1>3. ASSUME NEW p \in Players, NEW n \in {0, Unacknowledged}, Insert(p, n)
      PROVE  Kept'
  BY <1>3, InsertRows DEF Kept
<1>4. ASSUME NEW i \in Ids, DeleteItem(i) PROVE Kept'
  BY <1>4, DeleteRows DEF Kept
<1>5. ASSUME UpdateNext, PositionAssigned(Head(todo)) PROVE Kept'
  <2>1. PICK i \in Ids :
              /\ Acknowledgeable(player, i)
              /\ table'[i] = [owner |-> player, position |-> Following(next)]
              /\ \A j \in Ids : j # i => table'[j] = table[j]
              /\ \/ durable' = durable
                 \/ durable' = table' /\ table = durable
    BY <1>5, AssignedRows
  <2>2. CASE durable' = table'
    BY <2>2 DEF Kept
  <2>3. CASE durable' = durable
    <3>1. table'[i] # NoRow /\ table'[i].owner = player
      BY <2>1, AcknowledgementAssumption, FollowingAbove DEF TypeOK, Row
    <3>2. table[i] # NoRow /\ table[i].owner = player
      BY <2>1 DEF Acknowledgeable
    <3>3. table[i].position \notin 1..(Unacknowledged - 1)
      BY <2>1, <3>2, AcknowledgementAssumption DEF Acknowledgeable, TypeOK, Row
    <3>4. QED
      BY <2>1, <2>3, <3>1, <3>2, <3>3 DEF Kept
  <2>4. QED
    BY <2>1, <2>2, <2>3
<1>6. QED
  BY <1>1, <1>2, <1>3, <1>4, <1>5, RowsSteps DEF RowsStep

LEMMA FreshInductive ==
    ASSUME TypeOK, Bracketed, Fresh, [Next]_vars
    PROVE  Fresh'
<1> DEFINE Same == nextId' = nextId
<1>1. ASSUME NEW p \in Players, NEW n \in {0, Unacknowledged}, Insert(p, n)
      PROVE  Fresh'
  <2>1. /\ nextId \in Ids /\ nextId' = nextId + 1
        /\ \A i \in Ids : i # nextId => table'[i] = table[i] /\ durable'[i] = durable[i]
    BY <1>1, InsertRows
  <2>2. \A i \in Ids : i >= nextId' => i >= nextId /\ i # nextId
    BY <2>1, AcknowledgementAssumption DEF Ids
  <2>3. QED
    BY <2>1, <2>2 DEF Fresh
<1>2. ASSUME NEW i \in Ids, DeleteItem(i) PROVE Fresh'
  BY <1>2, DeleteRows DEF Fresh
<1>3. ASSUME UpdateNext, PositionAssigned(Head(todo)) PROVE Fresh'
  BY <1>3, AssignedRows DEF Fresh, Acknowledgeable
<1>4. nextId' = nextId \/ \E p \in Players, n \in {0, Unacknowledged} : Insert(p, n)
  BY NextCases DEF ProcessClientAcknowledgment, StartTransaction, UpdateNext, Finish,
       DeleteItem, SendSOCache, Restart, vars
<1>5. CASE /\ nextId' = nextId
           /\ \/ table' = table /\ durable' = durable
              \/ table' = durable' /\ durable' \in {table, durable}
  BY <1>5 DEF Fresh
<1>6. QED
  BY <1>1, <1>2, <1>3, <1>4, <1>5, RowsSteps DEF RowsStep

\* PositionsDistinct for one copy of the rows.
Distinct(t) ==
    \A p \in Players : \A i, j \in Ids :
        Placed(t, p, i) =>
            /\ t[i].position > 1
            /\ Placed(t, p, j) /\ i # j => t[i].position # t[j].position

LEMMA DistinctTwice == PositionsDistinct <=> Distinct(table) /\ Distinct(durable)
BY DEF PositionsDistinct, Distinct

\* Rows that differ in one that has no position are as distinct as before.
LEMMA DistinctLess ==
    ASSUME NEW t, NEW s, NEW k \in Ids,
           Distinct(t),
           \A p \in Players : ~Placed(s, p, k),
           \A i \in Ids : i # k => s[i] = t[i]
    PROVE  Distinct(s)
<1>1. \A p \in Players, i \in Ids : Placed(s, p, i) => i # k /\ Placed(t, p, i)
  BY DEF Placed
<1>2. QED
  BY <1>1 DEF Distinct

LEMMA NewRowNotPlaced ==
    ASSUME NEW p \in Players, NEW n \in {0, Unacknowledged}, NEW t, NEW k,
           t[k] = [owner |-> p, position |-> n]
    PROVE  \A q \in Players : ~Placed(t, q, k)
BY AcknowledgementAssumption DEF Placed

LEMMA DistinctInductive ==
    ASSUME TypeOK, Bracketed, Ahead, PositionsDistinct, [Next]_vars
    PROVE  PositionsDistinct'
<1>0. Distinct(table) /\ Distinct(durable)
  BY DistinctTwice
<1>1. SUFFICES Distinct(table') /\ Distinct(durable')
  BY DEF PositionsDistinct, Distinct, Placed
<1>2. CASE table' = table /\ durable' = durable
  BY <1>0, <1>2
<1>3. CASE table' = durable' /\ durable' \in {table, durable}
  BY <1>0, <1>3
<1>4. ASSUME NEW p \in Players, NEW n \in {0, Unacknowledged}, Insert(p, n)
      PROVE  Distinct(table') /\ Distinct(durable')
  <2>1. /\ \A q \in Players : ~Placed(table', q, nextId)
        /\ \A q \in Players : ~Placed(durable', q, nextId)
    BY <1>4, InsertRows, NewRowNotPlaced
  <2>2. /\ nextId \in Ids
        /\ \A i \in Ids : i # nextId => table'[i] = table[i] /\ durable'[i] = durable[i]
    BY <1>4, InsertRows
  <2>3. Distinct(table')
    BY <1>0, <2>1, <2>2, DistinctLess
  <2>4. Distinct(durable')
    BY <1>0, <2>1, <2>2, DistinctLess
  <2>5. QED
    BY <2>3, <2>4
<1>5. ASSUME NEW i \in Ids, DeleteItem(i)
      PROVE  Distinct(table') /\ Distinct(durable')
  <2>1. \A q \in Players : ~Placed(table', q, i)
    BY <1>5, DeleteRows DEF Placed
  <2>2. QED
    BY <1>0, <1>5, <2>1, DeleteRows, DistinctLess
<1>6. ASSUME UpdateNext, PositionAssigned(Head(todo))
      PROVE  Distinct(table') /\ Distinct(durable')
  <2>1. PICK k \in Ids :
              /\ table'[k] = [owner |-> player, position |-> Following(next)]
              /\ \A j \in Ids : j # k => table'[j] = table[j]
              /\ \/ durable' = durable
                 \/ durable' = table' /\ table = durable
    BY <1>6, AssignedRows
  <2>2. \A j \in Ids : Placed(table, player, j) => table[j].position <= next
    BY <1>6 DEF Ahead, UpdateNext
  <2>3. ASSUME NEW p \in Players, NEW i \in Ids, NEW j \in Ids, Placed(table', p, i)
        PROVE  /\ table'[i].position > 1
               /\ Placed(table', p, j) /\ i # j => table'[i].position # table'[j].position
    <3>1. \A q \in Players, l \in Ids : l # k /\ Placed(table', q, l) => Placed(table, q, l)
      BY <2>1 DEF Placed
    <3>2. Placed(table', p, k) => p = player /\ table'[k].position = Following(next)
      BY <2>1 DEF Placed
    <3>3. table'[k].position = Following(next) /\ Following(next) > 1
      BY <2>1, FollowingAbove
    <3>4. \A l \in Ids : l # k /\ Placed(table', player, l) => table'[l].position < Following(next)
      <4>1. \A l \in Ids : l # k /\ Placed(table', player, l) =>
                /\ table'[l].position = table[l].position
                /\ table[l].position \in Nat
                /\ table[l].position <= next
        BY <2>1, <2>2, <3>1 DEF TypeOK, Placed, Row
      <4>2. next \in Nat /\ Following(next) \in Nat /\ Following(next) > next
        BY FollowingAbove DEF TypeOK
      <4>3. QED
        BY <4>1, <4>2
    <3>5. CASE i = k
      BY <2>3, <3>2, <3>3, <3>4, <3>5, FollowingAbove
    <3>6. CASE i # k /\ j = k
      BY <1>0, <2>1, <2>3, <3>1, <3>2, <3>3, <3>4, <3>6, FollowingAbove DEF Distinct
    <3>7. CASE i # k /\ j # k
      BY <1>0, <2>1, <2>3, <3>1, <3>7 DEF Distinct
    <3>8. QED
      BY <3>5, <3>6, <3>7
  <2>4. Distinct(table')
    BY <2>3 DEF Distinct
  <2>5. QED
    BY <1>0, <2>1, <2>4
<1>7. QED
  BY <1>2, <1>3, <1>4, <1>5, <1>6, RowsSteps DEF RowsStep

\* While a request is handled next_position only grows.
LEMMA NextGrows ==
    ASSUME TypeOK, [Next]_vars, pc' # "idle", pc # "idle"
    PROVE  player' = player /\ next' >= next /\ next' \in Nat
<1>1. ASSUME UpdateNext PROVE player' = player /\ next' >= next /\ next' \in Nat
  <2>1. next' \in {Following(next), Following(next) - 1}
    BY <1>1 DEF UpdateNext, PositionAssigned, NothingAssigned, AssignmentFailed
  <2>2. player' = player
    BY <1>1 DEF UpdateNext
  <2>3. QED
    BY <2>1, <2>2, FollowingAbove DEF TypeOK
<1>2. UpdateNext \/ (player' = player /\ next' = next)
  <2> DEFINE Same == player' = player /\ next' = next
  <2>1. /\ \A p \in Players, ids \in Requests : ~ProcessClientAcknowledgment(p, ids)
        /\ \A i \in Ids : ~DeleteItem(i)
        /\ \A p \in Players : ~SendSOCache(p)
    BY DEF ProcessClientAcknowledgment, DeleteItem, SendSOCache
  <2>2. ~Finish /\ ~Restart
    BY DEF Finish, Restart, Done
  <2>3. StartTransaction => Same
    BY DEF StartTransaction, Done
  <2>4. \A p \in Players, n \in {0, Unacknowledged} : Insert(p, n) => Same
    BY DEF Insert, handler
  <2>5. UNCHANGED vars => Same
    BY DEF vars, handler
  <2> HIDE DEF Same
  <2>6. CASE ~UpdateNext
    <3>1. Same
      BY <2>1, <2>2, <2>3, <2>4, <2>5, <2>6, NextCases
    <3>2. QED
      BY <3>1 DEF Same
  <2>7. QED
    BY <2>6
<1>3. QED
  BY <1>1, <1>2 DEF TypeOK

LEMMA AheadInductive ==
    ASSUME TypeOK, Bracketed, Ahead, [Next]_vars
    PROVE  Ahead'
<1>1. ASSUME NEW p \in Players, NEW ids \in Requests, ProcessClientAcknowledgment(p, ids)
      PROVE  Ahead'
  <2>1. next' \in HighestPosition(p) /\ player' = p /\ table' = table /\ durable' = table
    BY <1>1 DEF ProcessClientAcknowledgment, Bracketed, db
  <2>2. \A i \in Ids : Placed(table, p, i) => table[i].position <= next'
    BY <2>1, HighestIsAbove
  <2>3. QED
    BY <2>1, <2>2 DEF Ahead, Placed
<1>2. pc = "idle" /\ pc' # "idle" =>
          \E p \in Players, ids \in Requests : ProcessClientAcknowledgment(p, ids)
  BY NextCases DEF StartTransaction, UpdateNext, Finish, Insert,
       DeleteItem, SendSOCache, Restart, vars, handler, Done
<1>3. ASSUME pc # "idle", pc' # "idle"
      PROVE  Ahead'
  <2> DEFINE Below(t, n) == \A i \in Ids : Placed(t, player, i) => t[i].position <= n
  <2>0. player' = player /\ next' >= next /\ next' \in Nat
    BY <1>3, NextGrows
  <2>1. Below(table, next) /\ Below(durable, next)
    BY <1>3 DEF Ahead
  <2>2. Below(table, next') /\ Below(durable, next')
    <3>1. \A i \in Ids : /\ Placed(table, player, i) => table[i].position \in Nat
                         /\ Placed(durable, player, i) => durable[i].position \in Nat
      BY DEF Placed, TypeOK, Row
    <3>2. QED
      BY <2>0, <2>1, <3>1 DEF TypeOK
  <2>3. SUFFICES Below(table', next') /\ Below(durable', next')
    BY <2>0 DEF Ahead, Placed
  <2>4. CASE table' = table /\ durable' = durable
    BY <2>2, <2>4
  <2>5. CASE table' = durable' /\ durable' \in {table, durable}
    BY <2>2, <2>5
  <2>6. ASSUME NEW p \in Players, NEW n \in {0, Unacknowledged}, Insert(p, n)
        PROVE  Below(table', next') /\ Below(durable', next')
    <3>1. ~Placed(table', player, nextId) /\ ~Placed(durable', player, nextId)
      BY <2>6, InsertRows, NewRowNotPlaced DEF TypeOK
    <3>2. QED
      BY <2>2, <2>6, <3>1, InsertRows DEF Placed
  <2>7. ASSUME NEW i \in Ids, DeleteItem(i) PROVE FALSE
    BY <1>3, <2>7 DEF DeleteItem
  <2>8. ASSUME UpdateNext, PositionAssigned(Head(todo))
        PROVE  Below(table', next') /\ Below(durable', next')
    <3>1. PICK k \in Ids :
              /\ next' = Following(next)
              /\ table'[k] = [owner |-> player, position |-> Following(next)]
              /\ \A j \in Ids : j # k => table'[j] = table[j]
              /\ \/ durable' = durable
                 \/ durable' = table' /\ table = durable
      BY <2>8, AssignedRows
    <3>2. Below(table', next')
      BY <2>0, <2>2, <3>1 DEF Placed
    <3>3. QED
      BY <2>2, <3>1, <3>2
  <2> HIDE DEF Below
  <2>9. QED
    BY <2>4, <2>5, <2>6, <2>7, <2>8, RowsSteps DEF RowsStep
<1>4. CASE pc' = "idle"
  BY <1>4 DEF Ahead
<1>5. QED
  BY <1>1, <1>2, <1>3, <1>4
-----------------------------------------------------------------------------
LEMMA InvInitially == Init => Inv
<1> SUFFICES ASSUME Init PROVE Inv
  OBVIOUS
<1>1. \A i \in Ids : table[i] = NoRow /\ durable[i] = NoRow
  BY DEF Init
<1>2. TypeOK
  <2>1. table \in [Ids -> Row \cup {NoRow}] /\ durable = table
    BY DEF Init
  <2>2. told \in [Ids -> Nat] /\ shown \in [Ids -> Nat]
    BY DEF Init
  <2>3. nextId \in 1..(MaxItems + 1)
    BY AcknowledgementAssumption DEF Init
  <2>4. todo \in Seq(Ids) /\ next \in Nat /\ count \in Nat
    BY DEF Init
  <2>5. QED
    BY <2>1, <2>2, <2>3, <2>4 DEF Init, TypeOK
<1>3. Bracketed /\ Kept /\ Fresh /\ Ahead
  BY <1>1 DEF Init, Bracketed, Kept, Fresh, Ahead
<1>4. PositionsDistinct
  BY <1>1 DEF Init, PositionsDistinct, Placed
<1>5. QED
  BY <1>2, <1>3, <1>4 DEF Inv

LEMMA InvInductive == Inv /\ [Next]_vars => Inv'
BY TypeOKInductive, BracketedInductive, KeptInductive, FreshInductive, AheadInductive,
   DistinctInductive DEF Inv

LEMMA Invariance == Spec => []Inv
BY InvInitially, InvInductive, PTL DEF Spec

\* Every variable keeps its type (ProcessClientAcknowledgment and the code around it).
THEOREM AcknowledgementTypeCorrect == Spec => []TypeOK
<1>1. Inv => TypeOK
  BY DEF Inv
<1>2. QED
  BY <1>1, Invariance, PTL

\* However statements fail, transactions are undone and the process dies, two items
\* of a player never have the same position, and none has the name tag's.
THEOREM PositionsAreDistinct == Spec => []PositionsDistinct
<1>1. Inv => PositionsDistinct
  BY DEF Inv
<1>2. QED
  BY <1>1, Invariance, PTL

\* The handler never returns with its transaction open.
THEOREM TransactionsEnd == Spec => []AtRest
<1>1. Inv => AtRest
  BY DEF Inv, Bracketed, AtRest
<1>2. QED
  BY <1>1, Invariance, PTL

\* A committed position is never changed, by a repeated request or by a failure.
THEOREM PositionsAreFinal == Spec => PositionsFinal
<1> DEFINE Final == \A p \in Players, i \in Ids :
              Placed(durable, p, i) /\ durable'[i] # NoRow => durable'[i] = durable[i]
<1>1. Inv /\ [Next]_vars => [Final]_vars
  <2> SUFFICES ASSUME Inv, [Next]_vars, NEW p \in Players, NEW i \in Ids,
                      Placed(durable, p, i), durable'[i] # NoRow
               PROVE  durable'[i] = durable[i]
    OBVIOUS
  <2> USE DEF Inv
  <2>1. table[i] = durable[i]
    BY DEF Kept, Placed
  <2>2. ASSUME NEW q \in Players, NEW n \in {0, Unacknowledged}, Insert(q, n)
        PROVE  durable'[i] = durable[i]
    <3>1. nextId \in Ids /\ durable[nextId] = NoRow
      <4>1. nextId \in Ids
        BY <2>2, InsertRows
      <4>2. nextId >= nextId
        BY <4>1 DEF Ids
      <4>3. QED
        BY <4>1, <4>2 DEF Fresh
    <3>2. i # nextId
      BY <3>1 DEF Placed
    <3>3. QED
      BY <2>2, <3>2, InsertRows
  <2>3. ASSUME NEW k \in Ids, DeleteItem(k) PROVE durable'[i] = durable[i]
    BY <2>1, <2>3, DeleteRows
  <2>4. ASSUME UpdateNext, PositionAssigned(Head(todo)) PROVE durable'[i] = durable[i]
    <3>1. PICK k \in Ids :
              /\ Acknowledgeable(player, k)
              /\ \A j \in Ids : j # k => table'[j] = table[j]
              /\ \/ durable' = durable
                 \/ durable' = table' /\ table = durable
      BY <2>4, AssignedRows
    <3>2. ~Acknowledgeable(player, i)
      BY <2>1, AcknowledgementAssumption DEF Acknowledgeable, Placed
    <3>3. QED
      BY <2>1, <3>1, <3>2
  <2>5. QED
    BY <2>1, <2>2, <2>3, <2>4, RowsSteps DEF RowsStep
<1>2. QED
  BY <1>1, Invariance, PTL DEF Spec, PositionsFinal
-----------------------------------------------------------------------------
(* What the player is told.  A position that reached 2^30 would count as   *)
(* none, so that the row would be given another one; how far positions go  *)
(* is therefore part of the argument.                                      *)

Positioned(t, i) == t[i] # NoRow /\ t[i].position \in 1..(Unacknowledged - 1)

\* The rows that need no position any more.
Filled(t) == {i \in 1..(nextId - 1) : t[i] = NoRow \/ Positioned(t, i)}

Used == Cardinality(Filled(durable))

\* No position is past this once k rows need none any more.
Limit(k) == 1 + MaxRequest * k

\* All positions that can ever be given are below 2^30.
Roomy == Limit(MaxItems + 1) < Unacknowledged

\* A request that is committed fills a row, and moves the highest position by no more
\* than its length.
Bounded ==
    /\ \A i \in Ids : Positioned(durable, i) => durable[i].position <= Limit(Used)
    /\ \A i \in Ids : Positioned(table, i) => table[i].position <= Limit(Used + 1)
    /\ pc # "idle" => \A n \in {1, next} : n + Len(todo) <= Limit(Used + 1)
    /\ connected /\ count > 0 => ~ (Filled(table) \subseteq Filled(durable))

\* The answer holds what the transaction has written, as long as it can be committed.
Telling ==
    /\ pc = "update" /\ connected => inTransaction
    /\ pc # "update" => count = 0 /\ \A i \in Ids : told[i] = 0
    /\ \A i \in Ids : told[i] # 0 \/ shown[i] # 0 => i < nextId
    /\ \A i \in Ids : told[i] < Unacknowledged /\ shown[i] < Unacknowledged
    /\ connected => \A i \in Ids : told[i] # 0 => table[i] # NoRow /\ table[i].position = told[i]

LEMMA IdsFinite ==
    ASSUME NEW n \in 1..(MaxItems + 1), NEW S \in SUBSET (1..(n - 1))
    PROVE  IsFiniteSet(S) /\ Cardinality(S) \in 0..MaxItems
<1>1. IsFiniteSet(1..MaxItems) /\ Cardinality(1..MaxItems) = MaxItems
  BY AcknowledgementAssumption, FS_Interval
<1>2. S \in SUBSET (1..MaxItems)
  BY AcknowledgementAssumption
<1>3. IsFiniteSet(S) /\ Cardinality(S) <= MaxItems
  BY <1>1, <1>2, FS_Subset
<1>4. Cardinality(S) \in Nat
  BY <1>3, FS_CardinalityType
<1>5. QED
  BY <1>3, <1>4, AcknowledgementAssumption

LEMMA FilledFinite ==
    ASSUME TypeOK
    PROVE  IsFiniteSet(Filled(durable)) /\ Used \in 0..MaxItems
<1>1. nextId \in 1..(MaxItems + 1) /\ Filled(durable) \in SUBSET (1..(nextId - 1))
  BY DEF Filled, TypeOK
<1>2. QED
  BY <1>1, IdsFinite DEF Used

LEMMA FilledFiniteNext ==
    ASSUME TypeOK'
    PROVE  IsFiniteSet(Filled(durable)') /\ Used' \in 0..MaxItems
<1>1. nextId' \in 1..(MaxItems + 1) /\ Filled(durable)' \in SUBSET (1..(nextId' - 1))
  BY DEF Filled, TypeOK
<1>2. QED
  BY <1>1, IdsFinite DEF Used

\* The limit moves by the length of a request.
LEMMA LimitGrows ==
    ASSUME NEW a \in Nat, NEW b \in Nat, a <= b
    PROVE  /\ Limit(a) \in Nat /\ Limit(b) \in Nat
           /\ 1 <= Limit(a) /\ Limit(a) <= Limit(b)
           /\ Limit(a + 1) = Limit(a) + MaxRequest
<1>1. MaxRequest \in Nat
  BY AcknowledgementAssumption
<1>2. /\ MaxRequest * a \in Nat /\ MaxRequest * b \in Nat
      /\ MaxRequest * a <= MaxRequest * b
      /\ MaxRequest * (a + 1) = MaxRequest * a + MaxRequest
  BY <1>1, SMT
<1>3. QED
  BY <1>1, <1>2, SMT DEF Limit

\* All that is ever assigned is a position.
LEMMA RoomForAll ==
    ASSUME Roomy, TypeOK
    PROVE  /\ Used \in Nat /\ Limit(Used) \in Nat /\ Limit(Used + 1) \in Nat
           /\ 1 <= Limit(Used)
           /\ Limit(Used + 1) = Limit(Used) + MaxRequest
           /\ Limit(Used + 1) < Unacknowledged
<1>1. Used \in 0..MaxItems
  BY FilledFinite
<1>2. Used + 1 \in Nat /\ MaxItems + 1 \in Nat /\ Used + 1 <= MaxItems + 1
  BY <1>1, AcknowledgementAssumption
<1>3. /\ Limit(Used + 1) <= Limit(MaxItems + 1)
      /\ Limit(Used + 1) \in Nat /\ Limit(MaxItems + 1) \in Nat
  BY <1>2, LimitGrows
<1>4. Limit(Used) \in Nat /\ 1 <= Limit(Used) /\ Limit(Used + 1) = Limit(Used) + MaxRequest
  BY <1>1, LimitGrows
<1>5. Limit(Used + 1) < Unacknowledged
  BY <1>3, AcknowledgementAssumption, SMT DEF Roomy
<1>6. QED
  BY <1>1, <1>3, <1>4, <1>5

\* Rows that are no more filled than before, or filled with what was there.
LEMMA BoundedStep ==
    ASSUME TypeOK, TypeOK', Bounded, Used <= Used',
           \A i \in Ids : Positioned(durable, i)' =>
              Positioned(durable, i) /\ durable'[i].position = durable[i].position,
           \A i \in Ids : Positioned(table, i)' =>
              \/ Positioned(table, i) /\ table'[i].position = table[i].position
              \/ Positioned(durable, i) /\ table'[i].position = durable[i].position,
           pc' # "idle" => pc # "idle" /\ next' = next /\ todo' = todo,
           connected' /\ count' > 0 => ~ (Filled(table) \subseteq Filled(durable))'
    PROVE  Bounded'
<1>1. Used \in Nat /\ Used' \in Nat
  BY FilledFinite, FilledFiniteNext
<1>2. /\ Limit(Used) \in Nat /\ Limit(Used') \in Nat /\ Limit(Used) <= Limit(Used')
      /\ Limit(Used + 1) = Limit(Used) + MaxRequest
      /\ Limit(Used' + 1) = Limit(Used') + MaxRequest
  BY <1>1, LimitGrows
<1>3. MaxRequest \in Nat
  BY AcknowledgementAssumption
<1>4. ASSUME NEW i \in Ids, Positioned(durable, i)'
      PROVE  durable'[i].position <= Limit(Used')
  <2>1. durable'[i].position <= Limit(Used) /\ durable'[i].position \in Nat
    BY <1>4 DEF Bounded, Positioned
  <2>2. QED
    BY <1>2, <2>1
<1>5. ASSUME NEW i \in Ids, Positioned(table, i)'
      PROVE  table'[i].position <= Limit(Used' + 1)
  <2>1. /\ table'[i].position <= Limit(Used + 1) \/ table'[i].position <= Limit(Used)
        /\ table'[i].position \in Nat
    BY <1>5 DEF Bounded, Positioned
  <2>2. QED
    BY <1>2, <1>3, <2>1
<1>6. ASSUME pc' # "idle" PROVE \A n \in {1, next'} : n + Len(todo') <= Limit(Used' + 1)
  <2>1. 1 + Len(todo) <= Limit(Used + 1) /\ next + Len(todo) <= Limit(Used + 1)
    BY <1>6 DEF Bounded
  <2>2. Len(todo) \in Nat /\ next \in Nat /\ next' = next /\ todo' = todo
    BY <1>6 DEF TypeOK
  <2>3. QED
    BY <1>2, <1>3, <2>1, <2>2
<1>7. QED
  BY <1>4, <1>5, <1>6 DEF Bounded

\* The same rows are filled.
LEMMA FilledSame ==
    ASSUME nextId' = nextId, durable' = durable
    PROVE  Used' = Used
BY DEF Used, Filled, Positioned

\* More rows are filled.
LEMMA FilledMore ==
    ASSUME TypeOK, TypeOK', Filled(durable) \subseteq Filled(durable)'
    PROVE  /\ Used <= Used'
           /\ ~ (Filled(durable)' \subseteq Filled(durable)) => Used + 1 <= Used'
<1>1. IsFiniteSet(Filled(durable)') /\ Used \in Nat /\ Used' \in Nat
  BY FilledFinite, FilledFiniteNext
<1>2. /\ Cardinality(Filled(durable)) <= Cardinality(Filled(durable)')
      /\ Cardinality(Filled(durable)') = Cardinality(Filled(durable)) =>
            Filled(durable)' = Filled(durable)
  BY <1>1, FS_Subset
<1>3. Used' = Cardinality(Filled(durable)') /\ Used = Cardinality(Filled(durable))
  BY DEF Used
<1>4. QED
  BY <1>1, <1>2, <1>3

\* A request begins past the highest position of the player.
LEMMA BoundedRequest ==
    ASSUME Roomy, Inv, Inv', Bounded, Telling, NEW p \in Players, NEW ids \in Requests,
           ProcessClientAcknowledgment(p, ids)
    PROVE  Bounded'
<1>0. TypeOK /\ TypeOK' /\ table = durable
  BY DEF Inv, Bracketed, ProcessClientAcknowledgment
<1>1. /\ pc = "idle" /\ UNCHANGED <<table, durable, nextId, count>> /\ todo' = ids
      /\ next' \in HighestPosition(p)
  BY DEF ProcessClientAcknowledgment, db
<1>2. /\ Used \in Nat /\ Limit(Used) \in Nat /\ 1 <= Limit(Used) /\ Limit(Used + 1) \in Nat
      /\ Limit(Used + 1) = Limit(Used) + MaxRequest
  BY <1>0, RoomForAll
<1>3. Used' = Used
  BY <1>1, FilledSame
<1>4. Len(ids) \in Nat /\ Len(ids) <= MaxRequest
  BY AcknowledgementAssumption DEF Requests
<1>5. next' \in Nat
  BY <1>0 DEF TypeOK
<1>6. next' <= Limit(Used)
  <2>1. CASE next' = 1
    BY <1>2, <2>1
  <2>2. CASE next' # 1
    <3>1. next' \in Positions(p)
      BY <1>1, <2>2 DEF HighestPosition
    <3>2. PICK i \in Ids : table[i] # NoRow /\ table[i].position < Unacknowledged
                             /\ next' = table[i].position
      BY <3>1 DEF Positions
    <3>3. CASE next' = 0
      BY <1>2, <3>3
    <3>4. CASE next' # 0
      <4>1. Positioned(durable, i)
        BY <1>0, <1>5, <3>2, <3>4, AcknowledgementAssumption DEF Positioned
      <4>2. QED
        BY <1>0, <3>2, <4>1 DEF Bounded
    <3>5. QED
      BY <3>3, <3>4
  <2>3. QED
    BY <2>1, <2>2
<1>7. \A n \in {1, next'} : n + Len(todo') <= Limit(Used' + 1)
  BY <1>1, <1>2, <1>3, <1>4, <1>5, <1>6, AcknowledgementAssumption
<1>8. count = 0
  BY <1>1 DEF Telling
<1>9. QED
  BY <1>1, <1>3, <1>7, <1>8 DEF Bounded, Positioned

\* An update moves the position by one, and what it writes fills a row.
LEMMA BoundedUpdate ==
    ASSUME ~Deadlocks, Roomy, Inv, Inv', Bounded, Telling, UpdateNext
    PROVE  Bounded'
<1>0. TypeOK /\ TypeOK' /\ Bracketed /\ Kept /\ Fresh
  BY DEF Inv
<1>1. /\ pc = "update" /\ pc' = "update" /\ nextId' = nextId
      /\ Head(todo) \in Ids /\ Len(todo') \in Nat /\ Len(todo) = Len(todo') + 1
  BY <1>0 DEF UpdateNext, TypeOK
<1> PICK i \in Ids : i = Head(todo)
  BY <1>1
<1>2. /\ Used \in Nat /\ Limit(Used) \in Nat /\ Limit(Used + 1) \in Nat
      /\ Limit(Used + 1) = Limit(Used) + MaxRequest
      /\ Limit(Used + 1) < Unacknowledged
  BY <1>0, RoomForAll
<1>3. 1 + Len(todo) <= Limit(Used + 1) /\ next + Len(todo) <= Limit(Used + 1)
  BY <1>1 DEF Bounded
<1>4. /\ next \in Nat /\ Following(next) \in Nat /\ Following(next) > 1
      /\ Following(next) + Len(todo') <= Limit(Used + 1)
      /\ Following(next) - 1 + Len(todo') <= Limit(Used + 1)
  BY <1>0, <1>1, <1>2, <1>3 DEF Following, TypeOK
<1>5. Following(next) <= Limit(Used + 1) /\ Following(next) < Unacknowledged
  BY <1>1, <1>2, <1>4, AcknowledgementAssumption
<1>6. ASSUME durable' = durable, next' \in {Following(next), Following(next) - 1}
      PROVE  /\ Used' = Used
             /\ \A j \in Ids : Positioned(durable, j)' => durable'[j].position <= Limit(Used')
             /\ \A n \in {1, next'} : n + Len(todo') <= Limit(Used' + 1)
  <2>1. Used' = Used
    BY <1>1, <1>6, FilledSame
  <2>2. \A n \in {1, next'} : n + Len(todo') <= Limit(Used + 1)
    BY <1>1, <1>2, <1>3, <1>4, <1>6
  <2>3. QED
    BY <1>6, <2>1, <2>2 DEF Bounded, Positioned
<1>7. CASE PositionAssigned(i)
  <2>1. /\ Acknowledgeable(player, i) /\ next' = Following(next) /\ connected
        /\ Executed([table EXCEPT ![i] = [owner |-> player, position |-> Following(next)]])
    BY <1>7 DEF PositionAssigned, Executed
  <2>2. durable' = durable
    BY <1>1, <2>1 DEF Executed, Telling
  <2>3. /\ table'[i] = [owner |-> player, position |-> Following(next)]
        /\ \A j \in Ids : j # i => table'[j] = table[j]
    BY <1>0, <1>1, <2>1 DEF Executed, TypeOK
  <2>4. ASSUME NEW j \in Ids, Positioned(table, j)' PROVE table'[j].position <= Limit(Used + 1)
    BY <1>5, <2>3, <2>4 DEF Bounded, Positioned
  <2>5. i \in 1..(nextId - 1)
    <3>1. ~ (i >= nextId)
      BY <1>0, <1>1, <2>1 DEF Acknowledgeable, Fresh
    <3>2. i \in Nat /\ i >= 1 /\ nextId \in Nat
      BY <1>0, <1>1 DEF Ids, TypeOK
    <3>3. QED
      BY <3>1, <3>2
  <2>6. Positioned(table, i)'
    <3>1. table'[i] # NoRow
      BY <2>3, <1>0, AcknowledgementAssumption, <1>4 DEF TypeOK, Row
    <3>2. Following(next) \in 1..(Unacknowledged - 1)
      BY <1>4, <1>5, AcknowledgementAssumption
    <3>3. QED
      BY <2>3, <3>1, <3>2 DEF Positioned
  <2>7. i \in Filled(table)'
    BY <1>1, <2>5, <2>6 DEF Filled, Positioned
  <2>8. ~ (durable[i] = NoRow \/ Positioned(durable, i))
    <3>1. durable[i] # NoRow
      BY <1>0, <1>1, <2>1 DEF Kept, Acknowledgeable
    <3>2. ASSUME Positioned(durable, i) PROVE FALSE
      <4>1. table[i] = durable[i]
        BY <1>0, <1>1, <3>1, <3>2 DEF Kept, Positioned
      <4>2. QED
        BY <2>1, <3>2, <4>1, AcknowledgementAssumption DEF Acknowledgeable, Positioned
    <3>3. QED
      BY <3>1, <3>2
  <2>9. i \notin Filled(durable)'
    BY <2>2, <2>8 DEF Filled, Positioned
  <2>10. QED
    BY <1>6, <2>1, <2>2, <2>4, <2>7, <2>9 DEF Bounded
<1>8. CASE NothingAssigned(i)
  <2>1. UNCHANGED <<table, durable, connected, count>> /\ next' = Following(next) - 1
    BY <1>8 DEF NothingAssigned, db
  <2>2. \A j \in Ids : Positioned(table, j)' => table'[j].position <= Limit(Used + 1)
    BY <2>1 DEF Bounded, Positioned
  <2>3. connected' /\ count' > 0 => ~ (Filled(table) \subseteq Filled(durable))'
    BY <1>1, <2>1 DEF Bounded, Filled, Positioned
  <2>4. QED
    BY <1>6, <2>1, <2>2, <2>3 DEF Bounded
<1>9. CASE AssignmentFailed
  <2>1. /\ next' = Following(next) /\ count' = count /\ durable' = durable
        /\ \/ table' = table /\ connected' = connected
           \/ table' = durable /\ connected' = FALSE
    BY <1>9 DEF AssignmentFailed, StatementFailed, ConnectionLost, Undone, db
  <2>2. ASSUME NEW j \in Ids, Positioned(table, j)' PROVE table'[j].position <= Limit(Used + 1)
    <3>1. CASE table' = table
      BY <2>2, <3>1 DEF Bounded, Positioned
    <3>2. CASE table' = durable
      <4>1. durable[j].position \in Nat /\ durable[j].position <= Limit(Used)
        BY <2>2, <3>2 DEF Bounded, Positioned
      <4>2. QED
        BY <1>2, <3>2, <4>1, AcknowledgementAssumption
    <3>3. QED
      BY <2>1, <3>1, <3>2
  <2>3. connected' /\ count' > 0 => ~ (Filled(table) \subseteq Filled(durable))'
    BY <1>1, <2>1 DEF Bounded, Filled, Positioned
  <2>4. QED
    BY <1>6, <2>1, <2>2, <2>3 DEF Bounded
<1>10. QED
  BY <1>7, <1>8, <1>9 DEF UpdateNext

\* A commit fills at least the one row that pays for the positions it used.
LEMMA BoundedFinish ==
    ASSUME Roomy, Inv, Inv', Bounded, Telling, Finish
    PROVE  Bounded'
<1>0. TypeOK /\ TypeOK' /\ Bracketed /\ Kept
  BY DEF Inv
<1>1. pc' = "idle" /\ count' = 0 /\ nextId' = nextId
  BY DEF Finish, Done
<1>2. CASE durable' = durable
  <2>1. Used' = Used /\ Used \in Nat
    BY <1>0, <1>1, <1>2, FilledSame, FilledFinite
  <2>2. table' = durable
    BY <1>0, <1>2 DEF Finish, Committed, CommitFailed, ConnectionLost, RolledBack, Undone
  <2>3. QED
    BY <1>0, <1>1, <1>2, <2>1, <2>2, BoundedStep DEF Positioned
<1>3. CASE durable' # durable
  <2>1. durable' = table /\ table' = table /\ connected /\ count > 0
    BY <1>3 DEF Finish, Committed, CommitFailed, ConnectionLost, RolledBack, Undone
  <2>2. Filled(durable)' = Filled(table)
    BY <1>1, <2>1 DEF Filled, Positioned
  <2>3. Filled(durable) \subseteq Filled(table)
    <3>1. \A j \in 1..(nextId - 1) : j \in Ids
      BY <1>0, AcknowledgementAssumption, SMT DEF TypeOK, Ids
    <3>2. QED
      BY <1>0, <3>1 DEF Filled, Positioned, Kept
  <2>4. ~ (Filled(table) \subseteq Filled(durable))
    BY <2>1 DEF Bounded
  <2>5. Used + 1 <= Used' /\ Used \in Nat /\ Used' \in Nat
    BY <1>0, <2>2, <2>3, <2>4, FilledMore, FilledFinite, FilledFiniteNext
  <2>6. /\ Limit(Used + 1) \in Nat /\ Limit(Used') \in Nat /\ Limit(Used' + 1) \in Nat
        /\ Limit(Used + 1) <= Limit(Used') /\ Limit(Used') <= Limit(Used' + 1)
    <3>1. Limit(Used + 1) \in Nat /\ Limit(Used') \in Nat /\ Limit(Used + 1) <= Limit(Used')
      BY <2>5, LimitGrows
    <3>2. Limit(Used' + 1) \in Nat /\ Limit(Used') <= Limit(Used' + 1)
      BY <2>5, LimitGrows
    <3>3. QED
      BY <3>1, <3>2
  <2>7. ASSUME NEW j \in Ids, Positioned(table, j)
        PROVE  table[j].position <= Limit(Used') /\ table[j].position <= Limit(Used' + 1)
    <3>1. table[j].position \in Nat /\ table[j].position <= Limit(Used + 1)
      BY <2>7 DEF Positioned, Bounded
    <3>2. QED
      BY <2>6, <3>1
  <2>8. QED
    BY <1>1, <2>1, <2>7 DEF Bounded, Positioned
<1>4. QED
  BY <1>2, <1>3

\* No step takes a position past the limit.
LEMMA BoundedInductive ==
    ASSUME ~Deadlocks, Roomy, Inv, Inv', Bounded, Telling, [Next]_vars
    PROVE  Bounded'
<1>0. TypeOK /\ TypeOK' /\ Bracketed /\ Kept /\ Fresh /\ Used \in Nat
  BY FilledFinite DEF Inv
<1>1. ASSUME UNCHANGED <<table, durable, connected, nextId, pc, next, todo, count>> PROVE Bounded'
  <2>1. Used' = Used
    BY <1>1, FilledSame
  <2>2. QED
    BY <1>1, <2>1 DEF Bounded, Positioned, Filled
<1>2. ASSUME StartTransaction PROVE Bounded'
  <2>1. /\ table' = table /\ durable' = durable /\ nextId' = nextId
        /\ pc = "start" /\ count' = 0
        /\ pc' # "idle" => next' = next /\ todo' = todo
    BY <1>0, <1>2 DEF StartTransaction, Started, RolledBack, Undone, Done, Bracketed, Telling
  <2>2. Used' = Used
    BY <2>1, FilledSame
  <2>3. QED
    BY <1>0, <2>1, <2>2, BoundedStep DEF Positioned
<1>3. ASSUME NEW p \in Players, NEW n \in {0, Unacknowledged}, Insert(p, n) PROVE Bounded'
  <2>1. /\ nextId \in Ids /\ nextId' = nextId + 1
        /\ table'[nextId] = [owner |-> p, position |-> n]
        /\ durable'[nextId] = [owner |-> p, position |-> n]
        /\ \A j \in Ids : j # nextId => table'[j] = table[j] /\ durable'[j] = durable[j]
    BY <1>0, <1>3, InsertRows
  <2> PICK r \in Ids : r = nextId
    BY <2>1
  <2>2. n \notin 1..(Unacknowledged - 1) /\ n \in Nat
    BY AcknowledgementAssumption
  <2>3. [owner |-> p, position |-> n] # NoRow
    BY <2>2, AcknowledgementAssumption DEF Row
  <2>4. ~Positioned(table, r)' /\ ~Positioned(durable, r)'
    BY <2>1, <2>2 DEF Positioned
  <2>5. /\ \A j \in Ids : Positioned(table, j)' =>
               Positioned(table, j) /\ table'[j].position = table[j].position
        /\ \A j \in Ids : Positioned(durable, j)' =>
               Positioned(durable, j) /\ durable'[j].position = durable[j].position
    BY <2>1, <2>4 DEF Positioned
  <2>6. ASSUME NEW j \in 1..(nextId' - 1)
        PROVE  (j \in 1..(nextId - 1) /\ j \in Ids /\ j # nextId) \/ j = r
    BY <1>0, <2>1, AcknowledgementAssumption DEF TypeOK, Ids
  <2>7. Filled(table)' = Filled(table) /\ Filled(durable)' = Filled(durable)
    <3>1. 1..(nextId - 1) \subseteq 1..(nextId' - 1)
      BY <1>0, <2>1 DEF TypeOK
    <3>2. \A j \in 1..(nextId - 1) : j \in Ids /\ j # nextId
      BY <1>0, AcknowledgementAssumption DEF TypeOK, Ids
    <3>3. r \notin Filled(table)' /\ r \notin Filled(durable)'
      BY <2>1, <2>3, <2>4 DEF Filled
    <3>4. QED
      BY <2>1, <2>6, <3>1, <3>2, <3>3 DEF Filled, Positioned
  <2>8. Used' = Used
    BY <2>7 DEF Used
  <2>9. UNCHANGED <<connected, pc, next, todo, count>>
    BY <1>3 DEF Insert, handler
  <2>10. connected' /\ count' > 0 => ~ (Filled(table) \subseteq Filled(durable))'
    BY <2>7, <2>9 DEF Bounded
  <2>11. QED
    BY <1>0, <2>5, <2>8, <2>9, <2>10, BoundedStep
<1>4. ASSUME NEW i \in Ids, DeleteItem(i) PROVE Bounded'
  <2>1. /\ table = durable /\ durable' = table' /\ nextId' = nextId
        /\ table'[i] = NoRow /\ \A j \in Ids : j # i => table'[j] = table[j]
    BY <1>0, <1>4, DeleteRows
  <2>2. pc' = "idle" /\ count' = 0
    BY <1>4 DEF DeleteItem, handler, Telling
  <2>3. \A j \in Ids : Positioned(durable, j)' =>
             Positioned(durable, j) /\ durable'[j].position = durable[j].position
    BY <2>1 DEF Positioned
  <2>4. Filled(durable) \subseteq Filled(durable)'
    <3>1. \A j \in 1..(nextId - 1) : j \in Ids
      BY <1>0, AcknowledgementAssumption DEF TypeOK, Ids
    <3>2. QED
      BY <2>1, <3>1 DEF Filled, Positioned
  <2>5. Used <= Used'
    BY <1>0, <2>4, FilledMore
  <2>6. QED
    BY <1>0, <2>1, <2>2, <2>3, <2>5, BoundedStep DEF Positioned
<1>5. ASSUME Restart PROVE Bounded'
  <2>1. durable' = durable /\ table' = durable /\ nextId' = nextId /\ pc' = "idle" /\ count' = 0
    BY <1>5 DEF Restart, Reopened, Undone, Done
  <2>2. Used' = Used
    BY <2>1, FilledSame
  <2>3. QED
    BY <1>0, <2>1, <2>2, BoundedStep DEF Positioned
<1>6. ASSUME NEW p \in Players, SendSOCache(p) PROVE Bounded'
  BY <1>1, <1>6 DEF SendSOCache, db, handler
<1>7. UNCHANGED vars => Bounded'
  BY <1>1 DEF vars, db, handler
<1>8. QED
  BY <1>2, <1>3, <1>4, <1>5, <1>6, <1>7, BoundedRequest, BoundedUpdate, BoundedFinish, NextCases

\* What a request assigns is below 2^30.
LEMMA RoomForNext ==
    ASSUME Roomy, Inv, Bounded, UpdateNext
    PROVE  Following(next) \in 1..(Unacknowledged - 1)
<1>1. TypeOK
  BY DEF Inv
<1>2. pc = "update" /\ next \in Nat /\ Len(todo) \in Nat /\ Len(todo) >= 1
  BY <1>1 DEF UpdateNext, TypeOK
<1>3. Limit(Used + 1) \in Nat /\ Limit(Used + 1) < Unacknowledged
  BY <1>1, RoomForAll
<1>4. 1 + Len(todo) <= Limit(Used + 1) /\ next + Len(todo) <= Limit(Used + 1)
  BY <1>2 DEF Bounded
<1>5. QED
  BY <1>2, <1>3, <1>4, AcknowledgementAssumption DEF Following

\* The handler that updates one row after the other.
LEMMA TellingUpdate ==
    ASSUME ~Deadlocks, Roomy, Inv, Bounded, Telling, UpdateNext
    PROVE  Telling'
<1>0. TypeOK /\ Fresh
  BY DEF Inv
<1>1. pc = "update" /\ pc' = "update" /\ nextId' = nextId /\ shown' = shown /\ Head(todo) \in Ids
  BY <1>0 DEF UpdateNext, TypeOK
<1> PICK i \in Ids : i = Head(todo)
  BY <1>1
<1>2. CASE PositionAssigned(i)
  <2>1. /\ Acknowledgeable(player, i) /\ connected
        /\ connected' = connected /\ inTransaction' = inTransaction
        /\ \A j \in Ids : j # i => table'[j] = table[j] /\ told'[j] = told[j]
        /\ table'[i] = [owner |-> player, position |-> Following(next)]
        /\ told'[i] \in {told[i], Following(next)}
    BY <1>0, <1>2 DEF PositionAssigned, Executed, TypeOK
  <2>2. Following(next) \in 1..(Unacknowledged - 1)
    BY RoomForNext
  <2>3. told[i] = 0
    <3>1. told[i] # 0 => told[i] \in 1..(Unacknowledged - 1)
      BY <1>0, AcknowledgementAssumption DEF TypeOK, Telling
    <3>2. told[i] # 0 => table[i].position = told[i]
      BY <2>1 DEF Telling
    <3>3. QED
      BY <2>1, <3>1, <3>2, AcknowledgementAssumption DEF Acknowledgeable
  <2>4. i < nextId
    <3>1. ~ (i >= nextId)
      BY <1>0, <2>1 DEF Acknowledgeable, Fresh
    <3>2. QED
      BY <1>0, <3>1 DEF Ids, TypeOK
  <2>5. table'[i] # NoRow
    BY <1>0, <2>1, <2>2, AcknowledgementAssumption DEF TypeOK, Row
  <2>6. \A j \in Ids : told'[j] # 0 \/ shown'[j] # 0 => j < nextId
    BY <1>1, <2>1, <2>4 DEF Telling
  <2>7. \A j \in Ids : told'[j] < Unacknowledged /\ shown'[j] < Unacknowledged
    BY <1>1, <2>1, <2>2, <2>3, AcknowledgementAssumption DEF Telling
  <2>8. ASSUME NEW j \in Ids, told'[j] # 0 PROVE table'[j] # NoRow /\ table'[j].position = told'[j]
    BY <2>1, <2>3, <2>5, <2>8 DEF Telling
  <2>9. QED
    BY <1>1, <2>1, <2>6, <2>7, <2>8 DEF Telling
<1>3. CASE NothingAssigned(i)
  BY <1>1, <1>3 DEF NothingAssigned, db, Telling
<1>4. CASE AssignmentFailed
  <2>1. /\ told' = told
        /\ \/ UNCHANGED <<table, inTransaction, connected>>
           \/ connected' = FALSE
    BY <1>4 DEF AssignmentFailed, StatementFailed, ConnectionLost, Undone, db
  <2>2. QED
    BY <1>1, <2>1 DEF Telling
<1>5. QED
  BY <1>2, <1>3, <1>4 DEF UpdateNext

LEMMA TellingInductive ==
    ASSUME ~Deadlocks, Roomy, Inv, Bounded, Telling, [Next]_vars
    PROVE  Telling'
<1>0. TypeOK /\ Fresh
  BY DEF Inv
<1>1. ASSUME UNCHANGED <<table, inTransaction, connected, nextId, pc, count, told, shown>>
      PROVE  Telling'
  BY <1>1 DEF Telling
<1>2. ASSUME NEW p \in Players, NEW ids \in Requests, ProcessClientAcknowledgment(p, ids)
      PROVE  Telling'
  <2>1. pc = "idle" /\ pc' = "start" /\ UNCHANGED <<table, connected, nextId, count, told, shown>>
    BY <1>2 DEF ProcessClientAcknowledgment, db
  <2>2. QED
    BY <2>1 DEF Telling
<1>3. ASSUME StartTransaction PROVE Telling'
  <2>1. pc = "start" /\ nextId' = nextId /\ shown' = shown
    BY <1>3 DEF StartTransaction
  <2>2. \/ pc' = "update" /\ inTransaction' = TRUE /\ UNCHANGED <<table, connected, count, told>>
        \/ pc' = "idle" /\ count' = 0 /\ told' = [i \in Ids |-> 0]
    BY <1>3 DEF StartTransaction, Started, RolledBack, Done
  <2>3. \A i \in Ids : told[i] = 0 /\ told'[i] = 0
    BY <2>1, <2>2 DEF Telling
  <2>4. QED
    BY <2>1, <2>2, <2>3, AcknowledgementAssumption DEF Telling
<1>4. ASSUME Finish PROVE Telling'
  <2>1. pc' = "idle" /\ nextId' = nextId /\ count' = 0 /\ \A i \in Ids : told'[i] = 0
    BY <1>4 DEF Finish, Done
  <2>2. \A i \in Ids : shown'[i] \in {told[i], shown[i]}
    BY <1>0, <1>4 DEF Finish, Answered, TypeOK
  <2>3. QED
    BY <2>1, <2>2, AcknowledgementAssumption DEF Telling
<1>5. ASSUME NEW p \in Players, NEW n \in {0, Unacknowledged}, Insert(p, n) PROVE Telling'
  <2>1. /\ nextId \in Ids /\ nextId' = nextId + 1
        /\ \A j \in Ids : j # nextId => table'[j] = table[j]
    BY <1>0, <1>5, InsertRows
  <2>2. UNCHANGED <<inTransaction, connected, pc, count, told, shown>>
    BY <1>5 DEF Insert, handler
  <2>3. told[nextId] = 0 /\ shown[nextId] = 0
    BY <2>1 DEF Ids, Telling
  <2>4. \A j \in Ids : told'[j] # 0 \/ shown'[j] # 0 => j < nextId'
    BY <2>1, <2>2 DEF Ids, Telling
  <2>5. connected' => \A j \in Ids : told'[j] # 0 => table'[j] # NoRow /\ table'[j].position = told'[j]
    BY <2>1, <2>2, <2>3 DEF Telling
  <2>6. QED
    BY <2>2, <2>4, <2>5 DEF Telling
<1>6. ASSUME NEW i \in Ids, DeleteItem(i) PROVE Telling'
  <2>1. pc = "idle" /\ UNCHANGED <<pc, nextId, count, told, shown>>
    BY <1>6 DEF DeleteItem, handler
  <2>2. QED
    BY <2>1 DEF Telling
<1>7. ASSUME NEW p \in Players, SendSOCache(p) PROVE Telling'
  <2>1. UNCHANGED <<table, inTransaction, connected, nextId, pc, count, told>>
    BY <1>7 DEF SendSOCache, db, handler
  <2>2. ASSUME NEW i \in Ids
        PROVE  shown'[i] < Unacknowledged /\ (shown'[i] # 0 => i < nextId)
    <3>1. \/ Placed(table, p, i) /\ shown'[i] = table[i].position
          \/ shown'[i] \in {0, shown[i]}
      BY <1>7 DEF SendSOCache
    <3>2. CASE Placed(table, p, i) /\ shown'[i] = table[i].position
      <4>1. shown'[i] < Unacknowledged
        BY <3>2, AcknowledgementAssumption DEF Placed
      <4>2. ~ (i >= nextId)
        BY <1>0, <3>2 DEF Placed, Fresh
      <4>3. QED
        BY <1>0, <4>1, <4>2 DEF Ids, TypeOK
    <3>3. CASE shown'[i] \in {0, shown[i]}
      BY <3>3, AcknowledgementAssumption DEF Telling
    <3>4. QED
      BY <3>1, <3>2, <3>3
  <2>3. QED
    BY <2>1, <2>2 DEF Telling
<1>8. ASSUME Restart PROVE Telling'
  <2>1. pc' = "idle" /\ count' = 0 /\ UNCHANGED <<nextId, shown>> /\ \A i \in Ids : told'[i] = 0
    BY <1>8 DEF Restart, Done
  <2>2. QED
    BY <2>1, AcknowledgementAssumption DEF Telling
<1>9. UNCHANGED vars => Telling'
  BY <1>1 DEF vars, db, handler
<1>10. QED
  BY <1>2, <1>3, <1>4, <1>5, <1>6, <1>7, <1>8, <1>9, TellingUpdate, NextCases

\* A position the player has been told is kept by the commit and by every failure.
LEMMA ToldInductive ==
    ASSUME ~Deadlocks, Inv, Telling, ToldWhatIsStored, [Next]_vars
    PROVE  ToldWhatIsStored'
<1>0. TypeOK /\ Bracketed /\ Kept
  BY DEF Inv
<1>1. ASSUME UNCHANGED <<durable, shown>> PROVE ToldWhatIsStored'
  BY <1>1 DEF ToldWhatIsStored
<1>2. ASSUME NEW i \in Ids, shown[i] # 0, durable[i] # NoRow PROVE table[i] = durable[i]
  <2>1. shown[i] \in 1..(Unacknowledged - 1)
    BY <1>0, <1>2, AcknowledgementAssumption DEF TypeOK, Telling
  <2>2. durable[i].position = shown[i]
    BY <1>2 DEF ToldWhatIsStored
  <2>3. QED
    BY <1>0, <1>2, <2>1, <2>2 DEF Kept
<1>3. ASSUME NEW i \in Ids, shown[i] # 0, table[i] # NoRow PROVE table[i].position = shown[i]
  BY <1>0, <1>2, <1>3 DEF Kept, ToldWhatIsStored
<1>4. ASSUME Finish PROVE ToldWhatIsStored'
  <2>1. \/ durable' = durable /\ shown' = shown
        \/ durable' = table /\ shown' = shown
        \/ connected /\ durable' = table /\ Answered
    BY <1>0, <1>4 DEF Finish, Committed, CommitFailed, ConnectionLost, RolledBack, Undone
  <2>2. CASE durable' = table /\ shown' = shown
    BY <1>3, <2>2 DEF ToldWhatIsStored
  <2>3. CASE connected /\ durable' = table /\ Answered
    <3>1. ASSUME NEW i \in Ids, told[i] # 0 PROVE table[i].position = told[i]
      BY <2>3, <3>1 DEF Telling
    <3>2. \A i \in Ids : shown'[i] = shown[i] \/ (told[i] # 0 /\ shown'[i] = told[i])
      BY <2>3 DEF Answered
    <3>3. QED
      BY <1>3, <2>3, <3>1, <3>2 DEF ToldWhatIsStored
  <2>4. QED
    BY <1>1, <2>1, <2>2, <2>3
<1>5. ASSUME StartTransaction PROVE ToldWhatIsStored'
  <2>1. durable' \in {durable, table} /\ shown' = shown
    BY <1>5 DEF StartTransaction, Started, RolledBack, Undone
  <2>2. QED
    BY <1>1, <1>3, <2>1 DEF ToldWhatIsStored
<1>6. ASSUME UpdateNext PROVE ToldWhatIsStored'
  <2>1. shown' = shown /\ pc = "update"
    BY <1>6 DEF UpdateNext
  <2>2. durable' = durable
    BY <1>6, <2>1 DEF UpdateNext, PositionAssigned, NothingAssigned, AssignmentFailed, StatementFailed,
                      ConnectionLost, Undone, Executed, db, Telling
  <2>3. QED
    BY <1>1, <2>1, <2>2
<1>7. ASSUME NEW p \in Players, NEW n \in {0, Unacknowledged}, Insert(p, n)
      PROVE  ToldWhatIsStored'
  <2>1. /\ nextId \in Ids /\ shown' = shown
        /\ \A j \in Ids : j # nextId => durable'[j] = durable[j]
    BY <1>0, <1>7, InsertRows DEF Insert
  <2>2. shown[nextId] = 0
    BY <2>1 DEF Ids, Telling
  <2>3. QED
    BY <2>1, <2>2 DEF ToldWhatIsStored
<1>8. ASSUME NEW i \in Ids, DeleteItem(i) PROVE ToldWhatIsStored'
  <2>1. /\ table = durable /\ durable' = table'
        /\ table'[i] = NoRow /\ \A j \in Ids : j # i => table'[j] = table[j]
    BY <1>0, <1>8, DeleteRows
  <2>2. shown' = shown
    BY <1>8 DEF DeleteItem
  <2>3. QED
    BY <2>1, <2>2 DEF ToldWhatIsStored
<1>9. ASSUME NEW p \in Players, SendSOCache(p) PROVE ToldWhatIsStored'
  <2>1. durable' = durable /\ table = durable
    BY <1>0, <1>9 DEF SendSOCache, db, Bracketed
  <2>2. \A i \in Ids : \/ shown'[i] = durable[i].position
                        \/ shown'[i] \in {0, shown[i]}
    BY <1>9, <2>1 DEF SendSOCache
  <2>3. QED
    BY <2>1, <2>2 DEF ToldWhatIsStored
<1>10. ASSUME NEW p \in Players, NEW ids \in Requests, ProcessClientAcknowledgment(p, ids)
       PROVE  ToldWhatIsStored'
  BY <1>1, <1>10 DEF ProcessClientAcknowledgment, db
<1>11. ASSUME Restart PROVE ToldWhatIsStored'
  BY <1>1, <1>11 DEF Restart, Reopened, Undone
<1>12. UNCHANGED vars => ToldWhatIsStored'
  BY <1>1 DEF vars, db
<1>13. QED
  BY <1>4, <1>5, <1>6, <1>7, <1>8, <1>9, <1>10, <1>11, <1>12, NextCases

LEMMA ToldInitially == Init => Bounded /\ Telling /\ ToldWhatIsStored
<1> SUFFICES ASSUME Init PROVE Bounded /\ Telling /\ ToldWhatIsStored
  OBVIOUS
<1>1. \A i \in Ids : table[i] = NoRow /\ durable[i] = NoRow /\ told[i] = 0 /\ shown[i] = 0
  BY DEF Init
<1>2. pc = "idle" /\ count = 0
  BY DEF Init
<1>3. QED
  BY <1>1, <1>2, AcknowledgementAssumption DEF Bounded, Telling, ToldWhatIsStored, Positioned

\* As long as positions cannot reach 2^30 and no deadlock undoes a transaction behind the
\* handler's back, what a player has been told of an item is what is stored, through
\* lost connections, commits whose outcome is unknown and restarts.
THEOREM ToldWhatIsStoredAlways ==
    ASSUME ~Deadlocks, Roomy
    PROVE  Spec => []ToldWhatIsStored
<1> DEFINE All == Inv /\ Bounded /\ Telling /\ ToldWhatIsStored
<1>1. Init => All
  BY InvInitially, ToldInitially
<1>2. All /\ [Next]_vars => All'
  BY InvInductive, BoundedInductive, TellingInductive, ToldInductive
<1>3. All => ToldWhatIsStored
  OBVIOUS
<1> HIDE DEF All
<1>4. QED
  BY <1>1, <1>2, <1>3, PTL DEF Spec
=============================================================================
