-------------------------------- MODULE Equip --------------------------------
(***************************************************************************)
(* Equipping (gc_server/networking_inventory_actions.cpp:115-290): the     *)
(* client puts an item in a slot of one side, and whatever was in the slot *)
(* is taken out first.  EquipItem opens a transaction and calls            *)
(* UnequipItemsInSlot, which opens its own on the same connection: that    *)
(* commits the outer one, and when the inner one ends what is left of the  *)
(* handler runs statement by statement.                                    *)
(*                                                                         *)
(* A step is one statement, so that statements can fail, and the process   *)
(* die, anywhere in the handler.  Rows come and go behind its back.        *)
(***************************************************************************)
EXTENDS Transactions, FiniteSets

CONSTANTS Players, Items, Slots,
          GetItemSlot,   \* the slot an item goes in, by its definition index
          NoSlot,        \* of an item whose item_id is NULL or cannot be parsed
          Contention,    \* may a statement be refused while the connection lives?
          OwnSlots,      \* do clients name only the slot of the item?
          NoRow, NoItem

Sides == {"ct", "t"}     \* the columns equipped_ct and equipped_t
Row   == [owner: Players, equipped: SUBSET Sides]

ASSUME EquipAssumption ==
    /\ GetItemSlot \in [Items -> Slots \cup {NoSlot}]
    /\ NoSlot \notin Slots
    /\ Contention \in BOOLEAN
    /\ OwnSlots \in BOOLEAN
    /\ Deadlocks => Contention
    /\ NoRow \notin Row
    /\ NoItem \notin Items

VARIABLES
    pc,       \* the statement the handler is about to run
    player,   \* whose request it is
    item,     \* the item to be equipped or unequipped
    side,     \* its column
    slot,     \* the slot the client named, of no account to an unequip
    todo      \* itemsToUnequip

handler == <<pc, player, item, side, slot, todo>>
vars    == <<db, handler>>

TypeOK ==
    /\ table \in [Items -> Row \cup {NoRow}]
    /\ durable \in [Items -> Row \cup {NoRow}]
    /\ inTransaction \in BOOLEAN
    /\ connected \in BOOLEAN
    /\ pc \in {"idle", "select", "clear", "equip", "commit", "send",
               "unequip", "commitUnequip"}
    /\ player \in Players
    /\ item \in Items \cup {NoItem}
    /\ side \in Sides
    /\ slot \in Slots
    /\ todo \subseteq Items

Init ==
    /\ table = [i \in Items |-> NoRow]
    /\ durable = table
    /\ inTransaction = FALSE
    /\ connected = TRUE
    /\ pc = "idle"
    /\ player \in Players
    /\ item = NoItem
    /\ side \in Sides
    /\ slot \in Slots
    /\ todo = {}

Owned(t, p, i) == t[i] # NoRow /\ t[i].owner = p

\* The items p has equipped in a slot of one side.
InSlot(t, p, column, s) ==
    {i \in Items : Owned(t, p, i) /\ column \in t[i].equipped /\ GetItemSlot[i] = s}

\* A statement that does not succeed: without contention only for want of a
\* connection.
Failed == IF Contention THEN StatementFailed ELSE ConnectionLost

FailedAndRolledBack == RolledBack /\ (connected' => Contention)

Done ==
    /\ pc' = "idle"
    /\ item' = NoItem
    /\ todo' = {}
    /\ UNCHANGED <<player, side, slot>>

GoTo(step) == pc' = step /\ UNCHANGED <<player, item, side, slot, todo>>
-----------------------------------------------------------------------------
\* Both transactions begin; nothing happens between the two.
EquipItem(p, i, column, s) ==
    /\ pc = "idle"
    /\ OwnSlots => GetItemSlot[i] \in {s, NoSlot}
    /\ Started
    /\ pc' = "select"
    /\ player' = p
    /\ item' = i
    /\ side' = column
    /\ slot' = s
    /\ todo' = {}

\* Mutant of ItemsToUnequip: the slot is not compared, nor looked for.
ItemsToUnequipAll == {i \in Items : Owned(table, player, i) /\ side \in table[i].equipped}

\* What the SELECT finds, filtered by the slot the client named: rows without a slot
\* are skipped.
ItemsToUnequip == InSlot(table, player, side, slot)

\* When it fails, the destructor of the inner transaction rolls back, and EquipItem
\* does not look at the result.
SelectEquipped ==
    /\ pc = "select"
    /\ \/ connected /\ todo' = ItemsToUnequip /\ pc' = "clear" /\ UNCHANGED db
       \/ FailedAndRolledBack /\ todo' = {} /\ pc' = "equip"
    /\ UNCHANGED <<player, item, side, slot>>

Without(row, columns) == [row EXCEPT !.equipped = @ \ columns]

\* Mutant of Cleared: the other column is cleared.
ClearedOther(i) == [table EXCEPT ![i] = Without(@, Sides \ {side})]

Cleared(i) == [table EXCEPT ![i] = Without(@, {side})]

\* One UPDATE for each of them, of no effect when the row has gone.  A failure is
\* not noticed.
ClearNext(i) ==
    /\ pc = "clear"
    /\ i \in todo
    /\ \/ Executed(IF Owned(table, player, i) THEN Cleared(i) ELSE table)
       \/ Failed
    /\ todo' = todo \ {i}
    /\ UNCHANGED <<pc, player, item, side, slot>>

\* The inner COMMIT, or the rollback when it fails; EquipItem goes on in any case.
CommitCleared ==
    /\ pc = "clear"
    /\ todo = {}
    /\ Committed \/ CommitFailed \/ ConnectionLost
    /\ GoTo("equip")

\* The UPDATE that equips.  It does not look at the slot, and no transaction is open.
UpdateEquipped ==
    /\ pc = "equip"
    /\ \/ /\ Executed(IF Owned(table, player, item)
                      THEN [table EXCEPT ![item].equipped = @ \cup {side}] ELSE table)
          /\ GoTo("commit")
       \/ Failed /\ Done

\* The outer COMMIT, which has nothing to commit.
Commit ==
    /\ pc = "commit"
    /\ \/ Committed /\ GoTo("send")
       \/ CommitFailed /\ Done

\* The item as it is now, if it can still be fetched; or nothing.
SendUpdate ==
    /\ pc = "send"
    /\ UNCHANGED db \/ ConnectionLost
    /\ Done
-----------------------------------------------------------------------------
\* UnequipItem, for the slot numbers 65535 and 0xFFFFFFFF.  An item that is not the
\* player's is not found, and the transaction is rolled back.
UnequipItem(p, i) ==
    /\ pc = "idle"
    /\ Owned(table, p, i)
    /\ Started
    /\ pc' = "unequip"
    /\ player' = p
    /\ item' = i
    /\ UNCHANGED <<side, slot, todo>>

\* Mutant of UpdateUnequipped: a failing UPDATE leaves the transaction open.
UpdateUnequippedLeaks ==
    /\ pc = "unequip"
    /\ \/ /\ Executed(IF Owned(table, player, item)
                      THEN [table EXCEPT ![item] = Without(@, Sides)] ELSE table)
          /\ GoTo("commitUnequip")
       \/ connected /\ UNCHANGED db /\ Done

\* Both columns are cleared; on a failure the destructor rolls back.
UpdateUnequipped ==
    /\ pc = "unequip"
    /\ \/ /\ Executed(IF Owned(table, player, item)
                      THEN [table EXCEPT ![item] = Without(@, Sides)] ELSE table)
          /\ GoTo("commitUnequip")
       \/ FailedAndRolledBack /\ Done

CommitUnequipped ==
    /\ pc = "commitUnequip"
    /\ \/ Committed /\ GoTo("send")
       \/ CommitFailed /\ Done
-----------------------------------------------------------------------------
\* A row inserted by whoever makes items; new items are not equipped.
Gain(p, i) ==
    /\ table[i] = NoRow
    /\ durable[i] = NoRow
    /\ table' = [table EXCEPT ![i] = [owner |-> p, equipped |-> {}]]
    /\ durable' = [durable EXCEPT ![i] = [owner |-> p, equipped |-> {}]]
    /\ UNCHANGED <<inTransaction, connected, handler>>

\* A row deleted or sold, unless the open transaction wrote it and holds its lock.
Lose(i) ==
    /\ table[i] # NoRow
    /\ table[i] = durable[i]
    /\ table' = [table EXCEPT ![i] = NoRow]
    /\ durable' = [durable EXCEPT ![i] = NoRow]
    /\ UNCHANGED <<inTransaction, connected, handler>>

Restart ==
    /\ Reopened
    /\ Done

Next ==
    \/ \E p \in Players, i \in Items :
          \/ \E column \in Sides, s \in Slots : EquipItem(p, i, column, s)
          \/ UnequipItem(p, i)
          \/ Gain(p, i)
    \/ \E i \in Items : ClearNext(i) \/ Lose(i)
    \/ SelectEquipped
    \/ CommitCleared
    \/ UpdateEquipped
    \/ Commit
    \/ SendUpdate
    \/ UpdateUnequipped
    \/ CommitUnequipped
    \/ Restart

Spec == Init /\ [][Next]_vars
-----------------------------------------------------------------------------
(* Properties. *)

\* A slot of a side holds at most one item that has a slot, whatever is lost in the middle of a
\* request: the "unequip others" and the "equip this one" of EquipItem.  Needs
\* clients that name the item's own slot, and a database without contention.
SlotExclusive ==
    \A p \in Players, column \in Sides, s \in Slots :
        \A i, j \in InSlot(durable, p, column, s) : i = j

\* The two nested transactions leave none open, on any path through the handler.
AtRest == pc = "idle" => ~inTransaction /\ table = durable

\* A committed item loses a side only to its owner's request, which named the item
\* or the item's slot on that side.
UnequipsOnlyItsSlot ==
    [][\A i \in Items, column \in Sides :
          /\ durable[i] # NoRow /\ durable'[i] # NoRow
          /\ column \in durable[i].equipped \ durable'[i].equipped
          => /\ durable[i].owner = player
             /\ i = item \/ (pc = "clear" /\ slot = GetItemSlot[i] /\ column = side)]_vars
=============================================================================
