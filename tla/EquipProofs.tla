----------------------------- MODULE EquipProofs -----------------------------
(***************************************************************************)
(* What holds of Equip for any players, items and slots.  The nested       *)
(* transactions are always ended, whatever fails; that a slot holds one    *)
(* item needs a database without contention and clients that name the      *)
(* item's own slot.                                                        *)
(***************************************************************************)
EXTENDS Equip, TLAPS

Table == [Items -> Row \cup {NoRow}]

\* Where a transaction may be open, and that every request has an item.
Control ==
    /\ ~inTransaction => table = durable
    /\ pc \in {"idle", "equip", "commit", "send"} => ~inTransaction
    /\ pc # "idle" => item \in Items
    /\ pc = "clear" => \A i \in todo : GetItemSlot[i] = slot

\* What the open transaction has taken out of its slot.
Changed(i) ==
    /\ table[i] \in Row /\ durable[i] \in Row
    /\ durable[i].owner = player /\ table[i].owner = player
    /\ table[i].equipped \subseteq durable[i].equipped
    /\ \/ /\ pc = "clear" /\ GetItemSlot[i] = slot
          /\ durable[i].equipped \ {side} \subseteq table[i].equipped
       \/ pc = "commitUnequip" /\ i = item

Kept == \A i \in Items : table[i] = durable[i] \/ Changed(i)

Inv == TypeOK /\ Control /\ Kept
-----------------------------------------------------------------------------
\* The fields of a row.
LEMMA RowFields ==
    ASSUME NEW row \in Row
    PROVE  row.owner \in Players /\ row.equipped \subseteq Sides /\ row # NoRow
BY EquipAssumption DEF Row

\* A row keeps its owner when columns are cleared.
LEMMA WithoutRow ==
    ASSUME NEW row \in Row, NEW columns
    PROVE  /\ Without(row, columns) \in Row
           /\ Without(row, columns).owner = row.owner
           /\ Without(row, columns).equipped = row.equipped \ columns
BY DEF Without, Row

\* A row keeps its owner when a column is set.
LEMMA EquippedRow ==
    ASSUME NEW row \in Row, NEW column \in Sides
    PROVE  /\ [row EXCEPT !.equipped = @ \cup {column}] \in Row
           /\ [row EXCEPT !.equipped = @ \cup {column}].owner = row.owner
           /\ [row EXCEPT !.equipped = @ \cup {column}].equipped = row.equipped \cup {column}
BY DEF Row

\* The rows after an UPDATE that clears columns of an item of the player.
LEMMA ClearedRows ==
    ASSUME TypeOK, NEW i \in Items, NEW columns,
           Executed(IF Owned(table, player, i)
                    THEN [table EXCEPT ![i] = Without(@, columns)] ELSE table)
    PROVE  /\ table' \in Table
           /\ \A j \in Items : j # i => table'[j] = table[j]
           /\ \/ ~Owned(table, player, i) /\ table'[i] = table[i]
              \/ /\ Owned(table, player, i) /\ table[i] \in Row /\ table'[i] \in Row
                 /\ table'[i].owner = player
                 /\ table'[i].equipped = table[i].equipped \ columns
           /\ durable' = IF inTransaction THEN durable ELSE table'
           /\ UNCHANGED <<inTransaction, connected>> /\ connected
<1>1. /\ table' = IF Owned(table, player, i)
                  THEN [table EXCEPT ![i] = Without(@, columns)] ELSE table
      /\ durable' = IF inTransaction THEN durable ELSE table'
      /\ UNCHANGED <<inTransaction, connected>> /\ connected
  BY DEF Executed
<1>2. CASE Owned(table, player, i)
  <2>1. table[i] \in Row /\ table[i].owner = player
    BY <1>2 DEF Owned, TypeOK
  <2>2. /\ Without(table[i], columns) \in Row /\ Without(table[i], columns).owner = player
        /\ Without(table[i], columns).equipped = table[i].equipped \ columns
    BY <2>1, WithoutRow
  <2>3. table' = [table EXCEPT ![i] = Without(table[i], columns)]
    BY <1>1, <1>2
  <2>4. QED
    BY <1>1, <1>2, <2>1, <2>2, <2>3 DEF Table, TypeOK
<1>3. CASE ~Owned(table, player, i)
  BY <1>1, <1>3 DEF Table, TypeOK
<1>4. QED
  BY <1>2, <1>3

\* The steps of the connection that write no row leave what was seen or committed.
LEMMA CopiedRows ==
    ASSUME TypeOK, Control,
           Started \/ StatementFailed \/ Failed \/ Committed \/ CommitFailed \/ ConnectionLost
              \/ RolledBack \/ FailedAndRolledBack \/ Reopened
    PROVE  /\ table' \in {table, durable} /\ durable' \in {table, durable}
           /\ inTransaction' \in BOOLEAN /\ connected' \in BOOLEAN
           /\ ~inTransaction' => table' = durable'
           /\ table' = durable' \/ UNCHANGED <<table, durable, inTransaction>>
           /\ durable' = durable \/ Started \/ Committed \/ CommitFailed
<1>1. CASE RolledBack \/ FailedAndRolledBack
  <2>1. connected' \in BOOLEAN /\ Undone
    BY <1>1 DEF FailedAndRolledBack, RolledBack, TypeOK
  <2>2. QED
    BY <2>1 DEF Undone
<1>2. CASE StatementFailed \/ Failed \/ ConnectionLost
  BY <1>2 DEF StatementFailed, Failed, ConnectionLost, Undone, db, TypeOK, Control
<1>3. CASE CommitFailed
  BY <1>3 DEF CommitFailed, ConnectionLost, Undone, TypeOK
<1>4. CASE Started \/ Committed
  BY <1>4 DEF Started, Committed, TypeOK
<1>5. CASE Reopened
  BY <1>5 DEF Reopened, Undone
<1>6. QED
  BY <1>1, <1>2, <1>3, <1>4, <1>5

\* A handler that has ended, or a statement of it, leaves the invariant as the
\* transaction is.
LEMMA Settled ==
    ASSUME Inv, table' \in Table, durable' = table',
           inTransaction' \in BOOLEAN, connected' \in BOOLEAN,
           pc' \in {"idle", "equip", "commit", "send"} => ~inTransaction',
           pc' \in {"idle", "select", "clear", "equip", "commit", "send", "unequip",
                    "commitUnequip"},
           player' \in Players, side' \in Sides, slot' \in Slots, todo' \subseteq Items,
           item' \in Items \/ (pc' = "idle" /\ item' = NoItem),
           pc' = "clear" => \A i \in todo' : GetItemSlot[i] = slot'
    PROVE  Inv'
<1>1. TypeOK'
  BY DEF TypeOK, Table
<1>2. Control' /\ Kept'
  BY DEF Control, Kept
<1>3. QED
  BY <1>1, <1>2 DEF Inv

\* One UPDATE that takes an item out of the slot.
LEMMA ClearNextInductive ==
    ASSUME Inv, NEW i \in Items, ClearNext(i)
    PROVE  Inv'
<1>0. TypeOK /\ Control /\ Kept
  BY DEF Inv
<1>1. /\ pc = "clear" /\ pc' = "clear" /\ i \in todo /\ todo' = todo \ {i}
      /\ UNCHANGED <<player, item, side, slot>>
      /\ GetItemSlot[i] = slot
      /\ \A j \in todo' : GetItemSlot[j] = slot
  BY <1>0 DEF ClearNext, Control
<1>2. CASE Executed(IF Owned(table, player, i) THEN Cleared(i) ELSE table)
  <2>1. Executed(IF Owned(table, player, i)
                 THEN [table EXCEPT ![i] = Without(@, {side})] ELSE table)
    BY <1>2 DEF Cleared
  <2>2. /\ table' \in Table
        /\ \A j \in Items : j # i => table'[j] = table[j]
        /\ \/ ~Owned(table, player, i) /\ table'[i] = table[i]
           \/ /\ Owned(table, player, i) /\ table[i] \in Row /\ table'[i] \in Row
              /\ table'[i].owner = player
              /\ table'[i].equipped = table[i].equipped \ {side}
        /\ durable' = IF inTransaction THEN durable ELSE table'
        /\ UNCHANGED <<inTransaction, connected>>
    BY <1>0, <2>1, ClearedRows
  <2>3. CASE ~inTransaction
    BY <1>0, <1>1, <2>2, <2>3, Settled DEF TypeOK, Control
  <2>4. CASE inTransaction
    <3>1. TypeOK' /\ Control'
      BY <1>0, <1>1, <2>2, <2>4 DEF TypeOK, Control, Table
    <3>2. ASSUME NEW j \in Items PROVE table'[j] = durable'[j] \/ Changed(j)'
      <4>1. CASE table'[j] = table[j]
        BY <1>0, <1>1, <2>2, <2>4, <4>1 DEF Kept, Changed
      <4>2. CASE table'[j] # table[j]
        <5>1. /\ j = i /\ table[i] \in Row /\ table'[i] \in Row
              /\ table[i].owner = player /\ table'[i].owner = player
              /\ table'[i].equipped = table[i].equipped \ {side}
          BY <2>2, <4>2 DEF Owned
        <5>2. /\ durable[i] \in Row /\ durable[i].owner = player
              /\ table[i].equipped \subseteq durable[i].equipped
              /\ durable[i].equipped \ {side} \subseteq table[i].equipped
          BY <1>0, <1>1, <5>1 DEF Kept, Changed
        <5>3. QED
          BY <1>1, <2>2, <2>4, <5>1, <5>2 DEF Changed
      <4>3. QED
        BY <4>1, <4>2
    <3>3. Kept'
      BY <3>2 DEF Kept
    <3>4. QED
      BY <3>1, <3>3 DEF Inv
  <2>5. QED
    BY <2>3, <2>4
<1>3. CASE Failed
  <2>1. /\ table' \in {table, durable} /\ durable' = durable
        /\ inTransaction' \in BOOLEAN /\ connected' \in BOOLEAN
        /\ ~inTransaction' => table' = durable'
        /\ table' = durable' \/ table' = table
    BY <1>0, <1>3, CopiedRows DEF Failed, StatementFailed, ConnectionLost, Undone, db
  <2>2. TypeOK' /\ Control'
    BY <1>0, <1>1, <2>1 DEF TypeOK, Control
  <2>3. Kept'
    BY <1>0, <1>1, <2>1 DEF Kept, Changed
  <2>4. QED
    BY <2>2, <2>3 DEF Inv
<1>4. QED
  BY <1>2, <1>3 DEF ClearNext

\* The UPDATE that takes an item out of all slots.
LEMMA UpdateUnequippedInductive ==
    ASSUME Inv, UpdateUnequipped
    PROVE  Inv'
<1>0. TypeOK /\ Control /\ Kept /\ pc = "unequip" /\ item \in Items
  BY DEF Inv, UpdateUnequipped, Control
<1>1. CASE FailedAndRolledBack /\ Done
  <2>1. table' = durable' /\ inTransaction' = FALSE /\ connected' \in BOOLEAN /\ durable' = durable
    BY <1>0, <1>1 DEF FailedAndRolledBack, RolledBack, Undone, TypeOK
  <2>2. QED
    BY <1>0, <1>1, <2>1, Settled DEF Done, TypeOK, Table
<1>2. CASE /\ Executed(IF Owned(table, player, item)
                       THEN [table EXCEPT ![item] = Without(@, Sides)] ELSE table)
           /\ GoTo("commitUnequip")
  <2>1. pc' = "commitUnequip" /\ UNCHANGED <<player, item, side, slot, todo>>
    BY <1>2 DEF GoTo
  <2>2. /\ table' \in Table
        /\ \A j \in Items : j # item => table'[j] = table[j]
        /\ \/ ~Owned(table, player, item) /\ table'[item] = table[item]
           \/ /\ Owned(table, player, item) /\ table[item] \in Row /\ table'[item] \in Row
              /\ table'[item].owner = player
              /\ table'[item].equipped = table[item].equipped \ Sides
        /\ durable' = IF inTransaction THEN durable ELSE table'
        /\ UNCHANGED <<inTransaction, connected>>
    BY <1>0, <1>2, ClearedRows
  <2>3. \A j \in Items : table[j] = durable[j]
    BY <1>0 DEF Kept, Changed
  <2>4. TypeOK' /\ Control'
    BY <1>0, <2>1, <2>2 DEF TypeOK, Control, Table
  <2>5. Kept'
    BY <1>0, <2>1, <2>2, <2>3 DEF Kept, Changed, Owned
  <2>6. QED
    BY <2>4, <2>5 DEF Inv
<1>3. QED
  BY <1>1, <1>2 DEF UpdateUnequipped

\* The UPDATE that equips runs outside any transaction.
LEMMA UpdateEquippedRows ==
    ASSUME Inv, UpdateEquipped, ~Failed
    PROVE  /\ pc = "equip" /\ pc' = "commit" /\ UNCHANGED <<player, item, side, slot, todo>>
           /\ table' \in Table /\ durable' = table' /\ table = durable
           /\ UNCHANGED <<inTransaction, connected>> /\ connected
           /\ item \in Items
           /\ \A j \in Items : j # item => table'[j] = table[j]
           /\ \/ ~Owned(table, player, item) /\ table'[item] = table[item]
              \/ /\ Owned(table, player, item) /\ table[item] \in Row /\ table'[item] \in Row
                 /\ table'[item].owner = player
                 /\ table'[item].equipped = table[item].equipped \cup {side}
<1>1. /\ Executed(IF Owned(table, player, item)
                  THEN [table EXCEPT ![item].equipped = @ \cup {side}] ELSE table)
      /\ GoTo("commit") /\ pc = "equip"
  BY DEF UpdateEquipped
<1>2. ~inTransaction /\ table = durable /\ item \in Items
  BY <1>1 DEF Inv, Control
<1>3. /\ table' = IF Owned(table, player, item)
                  THEN [table EXCEPT ![item].equipped = @ \cup {side}] ELSE table
      /\ durable' = table' /\ UNCHANGED <<inTransaction, connected>> /\ connected
  BY <1>1, <1>2 DEF Executed
<1>4. CASE Owned(table, player, item)
  <2>1. table[item] \in Row /\ table[item].owner = player /\ side \in Sides
    BY <1>2, <1>4 DEF Owned, Inv, TypeOK
  <2>2. /\ [table[item] EXCEPT !.equipped = @ \cup {side}] \in Row
        /\ [table[item] EXCEPT !.equipped = @ \cup {side}].owner = player
        /\ [table[item] EXCEPT !.equipped = @ \cup {side}].equipped = table[item].equipped \cup {side}
    BY <2>1, EquippedRow
  <2>3. table' = [table EXCEPT ![item] = [table[item] EXCEPT !.equipped = @ \cup {side}]]
    BY <1>3, <1>4
  <2>4. table \in Table
    BY DEF Inv, TypeOK, Table
  <2>5. QED
    BY <1>1, <1>2, <1>3, <1>4, <2>1, <2>2, <2>3, <2>4 DEF GoTo, Table
<1>5. CASE ~Owned(table, player, item)
  BY <1>1, <1>2, <1>3, <1>5 DEF GoTo, Table, Inv, TypeOK
<1>6. QED
  BY <1>4, <1>5

\* What a gained row and a lost one leave.
LEMMA ForeignRows ==
    ASSUME Inv, NEW i \in Items, (\E p \in Players : Gain(p, i)) \/ Lose(i)
    PROVE  /\ Inv' /\ UNCHANGED <<inTransaction, connected, handler>>
           /\ table' \in Table /\ durable' \in Table
           /\ table[i] = durable[i] /\ table'[i] = durable'[i]
           /\ \A j \in Items : j # i => table'[j] = table[j] /\ durable'[j] = durable[j]
           /\ table'[i] = NoRow \/ (table[i] = NoRow /\ table'[i] \in Row /\ table'[i].equipped = {})
<1>1. PICK row \in Row \cup {NoRow} :
         /\ table[i] = durable[i]
         /\ table' = [table EXCEPT ![i] = row] /\ durable' = [durable EXCEPT ![i] = row]
         /\ row = NoRow \/ (table[i] = NoRow /\ row \in Row /\ row.equipped = {})
         /\ UNCHANGED <<inTransaction, connected, handler>>
  <2>1. ASSUME NEW p \in Players, Gain(p, i)
        PROVE  \E row \in Row \cup {NoRow} :
                 /\ table[i] = durable[i]
                 /\ table' = [table EXCEPT ![i] = row] /\ durable' = [durable EXCEPT ![i] = row]
                 /\ row = NoRow \/ (table[i] = NoRow /\ row \in Row /\ row.equipped = {})
                 /\ UNCHANGED <<inTransaction, connected, handler>>
    <3>1. [owner |-> p, equipped |-> {}] \in Row
      BY DEF Row
    <3>2. QED
      BY <2>1, <3>1 DEF Gain
  <2>2. QED
    BY <2>1 DEF Lose
<1>2. table \in Table /\ durable \in Table
  BY DEF Inv, TypeOK, Table
<1>3. /\ table' \in Table /\ durable' \in Table /\ table'[i] = row /\ durable'[i] = row
      /\ \A j \in Items : j # i => table'[j] = table[j] /\ durable'[j] = durable[j]
  BY <1>1, <1>2 DEF Table
<1>4. TypeOK'
  BY <1>1, <1>3 DEF Inv, TypeOK, Table, handler
<1>5. Control'
  BY <1>1 DEF Inv, Control, handler
<1>6. Kept'
  BY <1>1, <1>3 DEF Inv, Kept, Changed, handler
<1>7. QED
  BY <1>1, <1>3, <1>4, <1>5, <1>6 DEF Inv

\* The invariant holds initially.
LEMMA InvInitially == Init => Inv
<1> SUFFICES ASSUME Init PROVE Inv
  OBVIOUS
<1>1. TypeOK
  BY DEF Init, TypeOK
<1>2. Control /\ Kept
  BY DEF Init, Control, Kept
<1>3. QED
  BY <1>1, <1>2 DEF Inv

\* What follows from each step follows from [Next]_vars.
LEMMA NextCases ==
    ASSUME [Next]_vars, NEW ACTION P,
           \A p \in Players, i \in Items, column \in Sides, s \in Slots :
               EquipItem(p, i, column, s) => P,
           \A p \in Players, i \in Items : UnequipItem(p, i) => P,
           \A i \in Items : (\E p \in Players : Gain(p, i)) \/ Lose(i) => P,
           \A i \in Items : ClearNext(i) => P,
           SelectEquipped => P, CommitCleared => P, UpdateEquipped => P, Commit => P,
           SendUpdate => P, UpdateUnequipped => P, CommitUnequipped => P,
           Restart => P, UNCHANGED vars => P
    PROVE  P
BY DEF Next

\* The steps that end a transaction, or run without one, leave one set of rows.
LEMMA SettledSteps ==
    ASSUME Inv,
           \/ CommitCleared \/ Commit \/ SendUpdate \/ CommitUnequipped \/ Restart
           \/ UpdateEquipped /\ Failed
           \/ SelectEquipped /\ ~(UNCHANGED db)
    PROVE  /\ table' = durable' /\ durable' \in {table, durable}
           /\ inTransaction' = FALSE /\ connected' \in BOOLEAN
<1>0. TypeOK /\ Control
  BY DEF Inv
<1>1. ASSUME Committed \/ CommitFailed \/ ConnectionLost
      PROVE  /\ table' = durable' /\ durable' \in {table, durable}
             /\ inTransaction' = FALSE /\ connected' \in BOOLEAN
  BY <1>0, <1>1 DEF Committed, CommitFailed, ConnectionLost, Undone, TypeOK
<1>2. ASSUME FailedAndRolledBack \/ Reopened
      PROVE  /\ table' = durable' /\ durable' \in {table, durable}
             /\ inTransaction' = FALSE /\ connected' \in BOOLEAN
  BY <1>0, <1>2 DEF FailedAndRolledBack, RolledBack, Reopened, Undone, TypeOK
<1>3. ASSUME pc \in {"equip", "commit", "send"}, Failed \/ UNCHANGED db
      PROVE  /\ table' = durable' /\ durable' \in {table, durable}
             /\ inTransaction' = FALSE /\ connected' \in BOOLEAN
  BY <1>0, <1>3 DEF Failed, StatementFailed, ConnectionLost, Undone, db, Control, TypeOK
<1>4. QED
  BY <1>1, <1>2, <1>3 DEF CommitCleared, Commit, SendUpdate, CommitUnequipped, Restart,
     UpdateEquipped, SelectEquipped

\* Every step keeps the invariant.
LEMMA InvInductive == Inv /\ [Next]_vars => Inv'
<1> SUFFICES ASSUME Inv, [Next]_vars PROVE Inv'
  OBVIOUS
<1>0. TypeOK /\ Control /\ Kept /\ table \in Table /\ durable \in Table
  BY DEF Inv, TypeOK, Table
<1>1. ASSUME NEW p \in Players, NEW i \in Items, NEW column \in Sides, NEW s \in Slots,
             EquipItem(p, i, column, s)
      PROVE  Inv'
  BY <1>0, <1>1, Settled DEF EquipItem, Started
<1>2. ASSUME NEW p \in Players, NEW i \in Items, UnequipItem(p, i) PROVE Inv'
  BY <1>0, <1>2, Settled DEF UnequipItem, Started, TypeOK
<1>3. ASSUME NEW i \in Items, (\E p \in Players : Gain(p, i)) \/ Lose(i) PROVE Inv'
  BY <1>3, ForeignRows
<1>4. ASSUME SelectEquipped PROVE Inv'
  <2>1. /\ pc = "select" /\ item \in Items /\ UNCHANGED <<player, item, side, slot>>
        /\ \/ UNCHANGED db /\ todo' = ItemsToUnequip /\ pc' = "clear"
           \/ FailedAndRolledBack /\ todo' = {} /\ pc' = "equip"
    BY <1>0, <1>4 DEF SelectEquipped, Control
  <2>2. CASE UNCHANGED db /\ todo' = ItemsToUnequip /\ pc' = "clear"
    <3>1. todo' \subseteq Items /\ \A i \in todo' : GetItemSlot[i] = slot
      BY <2>2 DEF ItemsToUnequip, InSlot
    <3>2. TypeOK' /\ Control'
      BY <1>0, <2>1, <2>2, <3>1 DEF TypeOK, Control, db
    <3>3. Kept'
      BY <1>0, <2>1, <2>2 DEF Kept, Changed, db
    <3>4. QED
      BY <3>2, <3>3 DEF Inv
  <2>3. CASE FailedAndRolledBack /\ todo' = {} /\ pc' = "equip"
    <3>1. table' = durable' /\ durable' = durable /\ inTransaction' = FALSE /\ connected' \in BOOLEAN
      BY <1>0, <2>3 DEF FailedAndRolledBack, RolledBack, Undone, TypeOK
    <3>2. QED
      BY <1>0, <2>1, <2>3, <3>1, Settled DEF TypeOK
  <2>4. QED
    BY <2>1, <2>2, <2>3
<1>5. ASSUME NEW i \in Items, ClearNext(i) PROVE Inv'
  BY <1>5, ClearNextInductive
<1>6. ASSUME CommitCleared \/ Commit \/ CommitUnequipped \/ SendUpdate \/ Restart
             \/ (UpdateEquipped /\ Failed /\ Done)
      PROVE  Inv'
  <2>1. table' = durable' /\ table' \in Table /\ inTransaction' = FALSE /\ connected' \in BOOLEAN
    BY <1>0, <1>6, SettledSteps
  <2>2. \/ Done
        \/ pc # "idle" /\ (GoTo("equip") \/ GoTo("send"))
    BY <1>6 DEF CommitCleared, Commit, CommitUnequipped, SendUpdate, Restart
  <2>3. CASE Done
    BY <1>0, <2>1, <2>3, Settled DEF Done, TypeOK
  <2>4. CASE pc # "idle" /\ (GoTo("equip") \/ GoTo("send"))
    BY <1>0, <2>1, <2>4, Settled DEF GoTo, TypeOK, Control
  <2>5. QED
    BY <2>2, <2>3, <2>4
<1>7. ASSUME UpdateEquipped PROVE Inv'
  <2>1. CASE Failed /\ Done
    BY <1>6, <1>7, <2>1
  <2>2. CASE Failed /\ ~Done
    <3>1. /\ Executed(IF Owned(table, player, item)
                      THEN [table EXCEPT ![item].equipped = @ \cup {side}] ELSE table)
          /\ Failed /\ pc = "equip" /\ ~inTransaction /\ GoTo("commit") /\ item \in Items
      BY <1>0, <1>7, <2>2 DEF UpdateEquipped, Control
    <3>2. connected' = connected /\ connected /\ inTransaction' = FALSE /\ durable' = table'
      BY <1>0, <3>1 DEF Executed, TypeOK
    <3>3. durable' = durable /\ connected' \in BOOLEAN
      BY <1>0, <3>1, <3>2 DEF Failed, StatementFailed, ConnectionLost, Undone, db, TypeOK
    <3>4. QED
      BY <1>0, <3>1, <3>2, <3>3, Settled DEF GoTo, TypeOK
  <2>3. CASE ~Failed
    BY <1>0, <1>7, <2>3, UpdateEquippedRows, Settled DEF TypeOK, Control
  <2>4. QED
    BY <2>1, <2>2, <2>3
<1>8. ASSUME UpdateUnequipped PROVE Inv'
  BY <1>8, UpdateUnequippedInductive
<1>9. ASSUME UNCHANGED vars PROVE Inv'
  BY <1>0, <1>9 DEF vars, db, handler, Inv, TypeOK, Control, Kept, Changed
<1>10. QED
  BY <1>1, <1>2, <1>3, <1>4, <1>5, <1>6, <1>7, <1>8, <1>9, NextCases

\* Hence it always holds.
LEMMA Invariance == Spec => []Inv
  BY InvInitially, InvInductive, PTL DEF Spec

\* The rows and the handler keep their types.
THEOREM EquipTypeCorrect == Spec => []TypeOK
<1>1. Inv => TypeOK
  BY DEF Inv
<1>2. QED
  BY <1>1, Invariance, PTL

\* EquipItem and UnequipItem leave no transaction open, neither the outer nor the inner
\* one, whichever statements, commits and connections fail.
THEOREM EquipLeavesNoTransaction == Spec => []AtRest
<1>1. Inv => AtRest
  BY DEF Inv, Control, AtRest
<1>2. QED
  BY <1>1, Invariance, PTL
-----------------------------------------------------------------------------
(* What is taken out of which slot. *)

\* A side that a committed item loses is that of the request.
LEMMA UnequippedSteps ==
    ASSUME Inv, [Next]_vars, NEW i \in Items, NEW column \in Sides,
           durable[i] # NoRow, durable'[i] # NoRow,
           column \in durable[i].equipped \ durable'[i].equipped
    PROVE  /\ durable[i].owner = player
           /\ i = item \/ (pc = "clear" /\ slot = GetItemSlot[i] /\ column = side)
<1> DEFINE Goal == /\ durable[i].owner = player
                   /\ i = item \/ (pc = "clear" /\ slot = GetItemSlot[i] /\ column = side)
<1>0. TypeOK /\ Control /\ Kept
  BY DEF Inv
<1>1. ASSUME durable' \in {table, durable} PROVE Goal
  BY <1>0, <1>1 DEF Kept, Changed
<1>2. ASSUME NEW j \in Items, (\E p \in Players : Gain(p, j)) \/ Lose(j) PROVE Goal
  BY <1>2, ForeignRows
<1>3. ASSUME NEW j \in Items, ClearNext(j) PROVE Goal
  <2>1. pc = "clear" /\ j \in todo /\ GetItemSlot[j] = slot
    BY <1>0, <1>3 DEF ClearNext, Control
  <2>2. CASE Failed
    BY <1>1, <2>2 DEF Failed, StatementFailed, ConnectionLost, Undone, db
  <2>3. CASE Executed(IF Owned(table, player, j)
                      THEN [table EXCEPT ![j] = Without(@, {side})] ELSE table)
    <3>1. /\ \A k \in Items : k # j => table'[k] = table[k]
          /\ \/ ~Owned(table, player, j) /\ table'[j] = table[j]
             \/ /\ Owned(table, player, j) /\ table[j] \in Row /\ table'[j] \in Row
                /\ table'[j].owner = player
                /\ table'[j].equipped = table[j].equipped \ {side}
          /\ durable' = IF inTransaction THEN durable ELSE table'
      BY <1>0, <2>3, ClearedRows
    <3>2. CASE inTransaction
      BY <1>1, <3>1, <3>2
    <3>3. CASE ~inTransaction
      BY <1>0, <2>1, <3>1, <3>3 DEF Control, Owned
    <3>4. QED
      BY <3>2, <3>3
  <2>4. QED
    BY <1>3, <2>2, <2>3 DEF ClearNext, Cleared
<1>4. ASSUME UpdateEquipped, ~Failed PROVE Goal
  <2>1. /\ durable' = table' /\ table = durable
        /\ \A j \in Items : j # item => table'[j] = table[j]
        /\ \/ ~Owned(table, player, item) /\ table'[item] = table[item]
           \/ table'[item].equipped = table[item].equipped \cup {side}
    BY <1>4, UpdateEquippedRows
  <2>2. QED
    BY <2>1
<1>5. ASSUME UpdateUnequipped PROVE Goal
  <2>1. item \in Items
    BY <1>0, <1>5 DEF UpdateUnequipped, Control
  <2>2. CASE FailedAndRolledBack
    BY <1>1, <2>2 DEF FailedAndRolledBack, RolledBack, Undone
  <2>3. CASE Executed(IF Owned(table, player, item)
                      THEN [table EXCEPT ![item] = Without(@, Sides)] ELSE table)
    <3>1. /\ \A k \in Items : k # item => table'[k] = table[k]
          /\ \/ ~Owned(table, player, item) /\ table'[item] = table[item]
             \/ Owned(table, player, item) /\ table[item] \in Row
          /\ durable' = IF inTransaction THEN durable ELSE table'
      BY <1>0, <2>1, <2>3, ClearedRows
    <3>2. CASE inTransaction
      BY <1>1, <3>1, <3>2
    <3>3. CASE ~inTransaction
      BY <1>0, <3>1, <3>3 DEF Control, Owned
    <3>4. QED
      BY <3>2, <3>3
  <2>4. QED
    BY <1>5, <2>2, <2>3 DEF UpdateUnequipped
<1> HIDE DEF Goal
<1>6. ASSUME \/ CommitCleared \/ Commit \/ SendUpdate \/ CommitUnequipped \/ Restart
             \/ UpdateEquipped /\ Failed
             \/ SelectEquipped
      PROVE  Goal
  <2>1. CASE UNCHANGED db
    BY <1>1, <2>1 DEF db
  <2>2. CASE ~(UNCHANGED db)
    BY <1>1, <1>6, <2>2, SettledSteps
  <2>3. QED
    BY <2>1, <2>2
<1>7. ASSUME NEW p \in Players, NEW j \in Items, NEW c \in Sides, NEW s \in Slots,
             EquipItem(p, j, c, s)
      PROVE  Goal
  BY <1>1, <1>7 DEF EquipItem, Started
<1>8. ASSUME NEW p \in Players, NEW j \in Items, UnequipItem(p, j) PROVE Goal
  BY <1>1, <1>8 DEF UnequipItem, Started
<1>9. ASSUME UNCHANGED vars PROVE Goal
  BY <1>1, <1>9 DEF vars, db
<1>10. Goal
  BY <1>2, <1>3, <1>4, <1>5, <1>6, <1>7, <1>8, <1>9, NextCases
<1>11. QED
  BY <1>10 DEF Goal

\* Without any assumption on the database or the clients: what a request takes out is
\* its own item, or what is in the slot it names.
THEOREM OnlyTheSlotIsEmptied == Spec => UnequipsOnlyItsSlot
<1> DEFINE Explained == \A i \in Items, column \in Sides :
          /\ durable[i] # NoRow /\ durable'[i] # NoRow
          /\ column \in durable[i].equipped \ durable'[i].equipped
          => /\ durable[i].owner = player
             /\ i = item \/ (pc = "clear" /\ slot = GetItemSlot[i] /\ column = side)
<1>1. Inv /\ [Next]_vars => [Explained]_vars
  BY UnequippedSteps
<1>2. QED
  BY <1>1, Invariance, PTL DEF Spec, UnequipsOnlyItsSlot
-----------------------------------------------------------------------------
(* One item in a slot. *)

Exclusive(t) ==
    \A p \in Players, column \in Sides, s \in Slots : \A i, j \in InSlot(t, p, column, s) : i = j

\* u has nothing in a slot that t does not have there.
Less(u, t) ==
    \A i \in Items : \/ u[i] = NoRow \/ u[i].equipped = {}
                     \/ /\ t[i] # NoRow /\ u[i].owner = t[i].owner
                        /\ u[i].equipped \subseteq t[i].equipped

\* The slot is that of the item, if it has one, and while the connection lives it is emptied.
Emptying ==
    /\ pc \in {"select", "clear", "equip"} => GetItemSlot[item] \in {slot, NoSlot}
    /\ pc = "clear" /\ connected => InSlot(table, player, side, slot) \subseteq todo
    /\ pc = "equip" /\ connected => InSlot(table, player, side, slot) = {}

SlotInv == Emptying /\ Exclusive(table) /\ Exclusive(durable)

\* Taking out empties slots.
LEMMA LessInSlot ==
    ASSUME NEW t, NEW u, Less(u, t)
    PROVE  /\ \A p \in Players, column \in Sides, s \in Slots :
                 InSlot(u, p, column, s) \subseteq InSlot(t, p, column, s)
           /\ Exclusive(t) => Exclusive(u)
<1>1. ASSUME NEW p \in Players, NEW column \in Sides, NEW s \in Slots
      PROVE  InSlot(u, p, column, s) \subseteq InSlot(t, p, column, s)
  BY DEF Less, InSlot, Owned
<1>2. QED
  BY <1>1 DEF Exclusive

\* Without contention a statement fails only with the connection.
LEMMA FailedForGood ==
    ASSUME ~Contention, Failed \/ FailedAndRolledBack \/ CommitFailed \/ ConnectionLost
    PROVE  connected' = FALSE \/ connected' \notin BOOLEAN
BY DEF Failed, FailedAndRolledBack, CommitFailed, ConnectionLost

\* EquipItem empties the slot before it puts the item there.
LEMMA SlotInvInductive ==
    ASSUME ~Contention, OwnSlots, Inv, SlotInv, [Next]_vars
    PROVE  SlotInv'
<1>0. /\ TypeOK /\ Control /\ Kept /\ table \in Table /\ durable \in Table
      /\ player \in Players /\ side \in Sides /\ slot \in Slots
      /\ Emptying /\ Exclusive(table) /\ Exclusive(durable)
  BY DEF Inv, TypeOK, Table, SlotInv
<1>a. TypeOK'
  BY InvInductive DEF Inv
<1>1. ASSUME table' \in {table, durable}, durable' \in {table, durable}, Emptying' PROVE SlotInv'
  BY <1>0, <1>1 DEF SlotInv
<1>2. ASSUME pc' \notin {"select", "clear", "equip"} PROVE Emptying'
  BY <1>2 DEF Emptying
<1>3. ASSUME connected' = FALSE, slot' = slot, item' = item,
             pc \in {"select", "clear", "equip"}
      PROVE  Emptying'
  BY <1>0, <1>3 DEF Emptying
<1>4. ASSUME NEW p \in Players, NEW i \in Items, NEW column \in Sides, NEW s \in Slots,
             EquipItem(p, i, column, s)
      PROVE  SlotInv'
  <2>1. /\ table' = table /\ durable' = table /\ pc' = "select"
        /\ GetItemSlot[item'] \in {slot', NoSlot}
    BY <1>4 DEF EquipItem, Started
  <2>2. QED
    BY <1>1, <2>1 DEF Emptying
<1>5. ASSUME NEW p \in Players, NEW i \in Items, UnequipItem(p, i) PROVE SlotInv'
  BY <1>1, <1>2, <1>5 DEF UnequipItem, Started
<1>6. ASSUME SelectEquipped PROVE SlotInv'
  <2>1. pc = "select" /\ UNCHANGED <<player, item, side, slot>>
    BY <1>6 DEF SelectEquipped
  <2>2. CASE UNCHANGED db /\ todo' = ItemsToUnequip /\ pc' = "clear"
    <3>1. Emptying'
      BY <1>0, <2>1, <2>2 DEF Emptying, ItemsToUnequip, db
    <3>2. QED
      BY <1>1, <2>2, <3>1 DEF db
  <2>3. CASE FailedAndRolledBack
    <3>1. connected' = FALSE
      BY <1>a, <2>3, FailedForGood DEF TypeOK
    <3>2. table' = durable /\ durable' = durable
      BY <2>3 DEF FailedAndRolledBack, RolledBack, Undone
    <3>3. QED
      BY <1>1, <1>3, <2>1, <3>1, <3>2
  <2>4. QED
    BY <1>6, <2>2, <2>3 DEF SelectEquipped
<1>7. ASSUME NEW i \in Items, ClearNext(i) PROVE SlotInv'
  <2>1. /\ pc = "clear" /\ pc' = "clear" /\ todo' = todo \ {i} /\ i \in todo
        /\ UNCHANGED <<player, item, side, slot>>
    BY <1>7 DEF ClearNext
  <2>2. CASE Failed
    <3>1. connected' = FALSE
      BY <1>a, <2>2, FailedForGood DEF TypeOK
    <3>2. table' = durable /\ durable' = durable
      BY <2>2 DEF Failed, ConnectionLost, Undone
    <3>3. QED
      BY <1>1, <1>3, <2>1, <3>1, <3>2
  <2>3. CASE Executed(IF Owned(table, player, i)
                      THEN [table EXCEPT ![i] = Without(@, {side})] ELSE table)
    <3>1. /\ \A j \in Items : j # i => table'[j] = table[j]
          /\ \/ ~Owned(table, player, i) /\ table'[i] = table[i]
             \/ /\ Owned(table, player, i) /\ table[i] \in Row /\ table'[i] \in Row
                /\ table'[i].owner = player
                /\ table'[i].equipped = table[i].equipped \ {side}
          /\ durable' = IF inTransaction THEN durable ELSE table'
          /\ UNCHANGED <<inTransaction, connected>>
      BY <1>0, <2>3, ClearedRows
    <3>2. Less(table', table)
      BY <1>0, <3>1 DEF Less, Owned, Table
    <3>3. Exclusive(table') /\ Exclusive(durable')
      BY <1>0, <3>1, <3>2, LessInSlot
    <3>4. InSlot(table', player, side, slot) \subseteq InSlot(table, player, side, slot)
      BY <1>0, <3>2, LessInSlot
    <3>5. i \notin InSlot(table', player, side, slot)
      BY <3>1 DEF InSlot, Owned
    <3>6. Emptying'
      BY <1>0, <2>1, <3>1, <3>4, <3>5 DEF Emptying
    <3>7. QED
      BY <3>3, <3>6 DEF SlotInv
  <2>4. QED
    BY <1>7, <2>2, <2>3 DEF ClearNext, Cleared
<1>8. ASSUME CommitCleared PROVE SlotInv'
  <2>1. pc = "clear" /\ pc' = "equip" /\ todo = {} /\ UNCHANGED <<player, item, side, slot>>
    BY <1>8 DEF CommitCleared, GoTo
  <2>2. table' \in {table, durable} /\ durable' \in {table, durable}
    BY <1>8, SettledSteps
  <2>3. CASE Committed
    <3>1. table' = table /\ connected' = connected
      BY <2>3 DEF Committed
    <3>2. Emptying'
      BY <1>0, <2>1, <3>1 DEF Emptying
    <3>3. QED
      BY <1>1, <2>2, <3>2
  <2>4. CASE CommitFailed \/ ConnectionLost
    <3>1. connected' = FALSE
      BY <1>a, <2>4, FailedForGood DEF TypeOK
    <3>2. QED
      BY <1>1, <1>3, <2>1, <2>2, <3>1
  <2>5. QED
    BY <1>8, <2>3, <2>4 DEF CommitCleared
<1>9. ASSUME UpdateEquipped, ~Failed PROVE SlotInv'
  <2>1. /\ pc = "equip" /\ pc' = "commit" /\ durable' = table' /\ connected /\ item \in Items
        /\ \A j \in Items : j # item => table'[j] = table[j]
        /\ \/ ~Owned(table, player, item) /\ table'[item] = table[item]
           \/ /\ Owned(table, player, item) /\ table[item] \in Row /\ table'[item] \in Row
              /\ table'[item].owner = player
              /\ table'[item].equipped = table[item].equipped \cup {side}
    BY <1>9, UpdateEquippedRows
  <2>2. GetItemSlot[item] \in {slot, NoSlot} /\ InSlot(table, player, side, slot) = {}
    BY <1>0, <2>1 DEF Emptying
  <2>3. ASSUME NEW p \in Players, NEW column \in Sides, NEW s \in Slots,
               NEW i \in InSlot(table', p, column, s), NEW j \in InSlot(table', p, column, s)
        PROVE  i = j
    <3>1. CASE p = player /\ column = side /\ s = slot
      <4>1. \A k \in InSlot(table', player, side, slot) : k = item
        BY <2>1, <2>2 DEF InSlot, Owned
      <4>2. QED
        BY <2>3, <3>1, <4>1
    <3>2. CASE ~(p = player /\ column = side /\ s = slot)
      <4>1. InSlot(table', p, column, s) \subseteq InSlot(table, p, column, s)
        <5>1. ASSUME NEW k \in InSlot(table', p, column, s), k # item
              PROVE  k \in InSlot(table, p, column, s)
          BY <2>1, <5>1 DEF InSlot, Owned
        <5>2. ASSUME item \in InSlot(table', p, column, s) PROVE item \in InSlot(table, p, column, s)
          <6>1. CASE table'[item] = table[item]
            BY <5>2, <6>1 DEF InSlot, Owned
          <6>2. CASE table'[item] # table[item]
            <7>1. p = player /\ s = slot
              <8>1. GetItemSlot[item] = s /\ s # NoSlot
                BY <5>2, EquipAssumption DEF InSlot
              <8>2. QED
                BY <2>1, <2>2, <5>2, <6>2, <8>1 DEF InSlot, Owned
            <7>2. column # side
              BY <3>2, <7>1
            <7>3. QED
              BY <2>1, <5>2, <6>2, <7>1, <7>2 DEF InSlot, Owned
          <6>3. QED
            BY <6>1, <6>2
        <5>3. QED
          BY <5>1, <5>2
      <4>2. QED
        BY <1>0, <2>3, <4>1 DEF Exclusive
    <3>3. QED
      BY <3>1, <3>2
  <2>4. Exclusive(table')
    BY <2>3 DEF Exclusive
  <2>5. QED
    BY <1>2, <2>1, <2>4 DEF SlotInv
<1>10. ASSUME UpdateEquipped, Failed PROVE SlotInv'
  <2>1. table' \in {table, durable} /\ durable' \in {table, durable}
    BY <1>10, SettledSteps
  <2>2. pc' \notin {"select", "clear", "equip"}
    BY <1>10 DEF UpdateEquipped, GoTo, Done
  <2>3. QED
    BY <1>1, <1>2, <2>1, <2>2
<1>11. ASSUME Commit \/ SendUpdate \/ CommitUnequipped \/ Restart PROVE SlotInv'
  <2>1. table' \in {table, durable} /\ durable' \in {table, durable}
    BY <1>11, SettledSteps
  <2>2. pc' \notin {"select", "clear", "equip"}
    BY <1>11 DEF Commit, SendUpdate, CommitUnequipped, Restart, GoTo, Done
  <2>3. QED
    BY <1>1, <1>2, <2>1, <2>2
<1>12. ASSUME UpdateUnequipped PROVE SlotInv'
  <2>1. pc' \notin {"select", "clear", "equip"} /\ item \in Items
    BY <1>0, <1>12 DEF UpdateUnequipped, GoTo, Done, Control
  <2>2. CASE FailedAndRolledBack
    <3>1. table' = durable /\ durable' = durable
      BY <2>2 DEF FailedAndRolledBack, RolledBack, Undone
    <3>2. QED
      BY <1>1, <1>2, <2>1, <3>1
  <2>3. CASE Executed(IF Owned(table, player, item)
                      THEN [table EXCEPT ![item] = Without(@, Sides)] ELSE table)
    <3>1. /\ \A k \in Items : k # item => table'[k] = table[k]
          /\ \/ ~Owned(table, player, item) /\ table'[item] = table[item]
             \/ /\ Owned(table, player, item) /\ table[item] \in Row /\ table'[item] \in Row
                /\ table'[item].owner = player
                /\ table'[item].equipped = table[item].equipped \ Sides
          /\ durable' = IF inTransaction THEN durable ELSE table'
      BY <1>0, <2>1, <2>3, ClearedRows
    <3>2. Less(table', table)
      BY <1>0, <3>1 DEF Less, Owned, Table
    <3>3. Exclusive(table') /\ Exclusive(durable')
      BY <1>0, <3>1, <3>2, LessInSlot
    <3>4. QED
      BY <1>2, <2>1, <3>3 DEF SlotInv
  <2>4. QED
    BY <1>12, <2>2, <2>3 DEF UpdateUnequipped
<1>13. ASSUME NEW i \in Items, (\E p \in Players : Gain(p, i)) \/ Lose(i) PROVE SlotInv'
  <2>1. /\ UNCHANGED <<inTransaction, connected, handler>>
        /\ table' \in Table /\ durable' \in Table
        /\ table[i] = durable[i] /\ table'[i] = durable'[i]
        /\ \A j \in Items : j # i => table'[j] = table[j] /\ durable'[j] = durable[j]
        /\ table'[i] = NoRow \/ (table[i] = NoRow /\ table'[i] \in Row /\ table'[i].equipped = {})
    BY <1>13, ForeignRows
  <2>2. Less(table', table) /\ Less(durable', durable)
    BY <1>0, <2>1 DEF Less, Table
  <2>3. Exclusive(table') /\ Exclusive(durable')
    BY <1>0, <2>2, LessInSlot
  <2>4. InSlot(table', player, side, slot) \subseteq InSlot(table, player, side, slot)
    BY <1>0, <2>2, LessInSlot
  <2>5. Emptying'
    BY <1>0, <2>1, <2>4 DEF Emptying, handler
  <2>6. QED
    BY <2>3, <2>5 DEF SlotInv
<1>14. ASSUME UNCHANGED vars PROVE SlotInv'
  <2>1. Emptying'
    BY <1>0, <1>14 DEF Emptying, vars, db, handler
  <2>2. QED
    BY <1>1, <1>14, <2>1 DEF vars, db
<1>15. QED
  BY <1>4, <1>5, <1>6, <1>7, <1>8, <1>9, <1>10, <1>11, <1>12, <1>13, <1>14, NextCases

\* A slot of a side never holds two items in the database, wherever the connection goes
\* or the process dies in a request, if nothing else makes a statement fail and clients
\* name the slot of the item.
THEOREM SlotsExclusive == ASSUME ~Contention, OwnSlots PROVE Spec => []SlotExclusive
<1>1. Init => SlotInv
  BY DEF Init, SlotInv, Emptying, Exclusive, InSlot, Owned
<1>2. Inv /\ SlotInv /\ [Next]_vars => SlotInv'
  BY SlotInvInductive
<1>3. SlotInv => SlotExclusive
  BY DEF SlotInv, Exclusive, SlotExclusive
<1>4. QED
  BY <1>1, <1>2, <1>3, Invariance, PTL DEF Spec
=============================================================================
