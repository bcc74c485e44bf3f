------------------------------ MODULE Exchange ------------------------------
(***************************************************************************)
(* The handlers that consume, make or change items (gc_server/             *)
(* networking_inventory_actions.cpp and _transactions.cpp): opening a      *)
(* crate, a trade-up, stickers, names and deletion.  One handler runs at a *)
(* time; a step of it is one statement or one message to the client, so    *)
(* that statements can fail, the client vanish and the process die         *)
(* anywhere in it.  Meanwhile the web shop inserts rows and trades give    *)
(* rows to other players.                                                  *)
(*                                                                         *)
(* A row remembers in "from" what it was made of, which the database does  *)
(* not: it is what an exchange is about.                                   *)
(***************************************************************************)
EXTENDS Transactions, Integers, FiniteSets

CONSTANTS Players,
          MaxItems,     \* bound: rows ever inserted
          CraftSize,    \* items in a trade-up: 10
          Operations,   \* the requests the clients make
          Shop,         \* what the shop inserts: <<kind, acquired_by>>
          Tradable,     \* what changes hands behind the coordinator's back
          NoRow, Null

Ids     == 1..MaxItems
Kinds   == {"crate", "low", "high", "plain", "sticker", "base"}
Sources == {"0", "2", "8", "crate", "purchased", Null}   \* acquired_by
Requests == {"unbox", "craft", "apply", "scrape", "unname", "name", "base", "delete"}

Row == [owner: Players, kind: Kinds, by: Sources, from: SUBSET Ids,
        slot: 0..MaxItems]      \* sticker_slot_n_id, named by the item it came from

ASSUME ExchangeAssumption ==
    /\ MaxItems \in Nat
    /\ CraftSize \in Nat \ {0}
    /\ Operations \subseteq Requests
    /\ Shop \subseteq Kinds \X Sources
    /\ Tradable \subseteq Kinds
    /\ NoRow \notin Row
    /\ NoRow \notin [owner: Players, from: SUBSET Ids]

VARIABLES
    nextId,    \* AUTO_INCREMENT of csgo_items, which a rollback does not take back
    op,        \* the request being handled, "none" between requests
    pc,        \* its next statement or message
    player,    \* whose request it is
    used,      \* the items it consumes
    made,      \* the item it makes or changes, 0 for none
    shown,     \* the items each client has in its inventory
    link,      \* "up", "lost": the client is gone and its session is not, "none"
    cursor     \* lastCheckedItemId of each session

handler == <<op, pc, player, used, made>>
clients == <<shown, link, cursor>>
vars    == <<db, nextId, handler, clients>>

TypeOK ==
    /\ table \in [Ids -> Row \cup {NoRow}]
    /\ durable \in [Ids -> Row \cup {NoRow}]
    /\ inTransaction \in BOOLEAN
    /\ connected \in BOOLEAN
    /\ nextId \in 1..(MaxItems + 1)
    /\ op \in Requests \cup {"none"}
    /\ pc \in {"idle", "save", "update", "delete", "commit",
               "create", "forget", "unlock", "show"}
    /\ player \in Players
    /\ used \subseteq Ids
    /\ made \in 0..MaxItems
    /\ shown \in [Players -> SUBSET Ids]
    /\ link \in [Players -> {"none", "lost", "up"}]
    /\ cursor \in [Players -> 0..MaxItems]

Init ==
    /\ table = [i \in Ids |-> NoRow]
    /\ durable = table
    /\ inTransaction = FALSE
    /\ connected = TRUE
    /\ nextId = 1
    /\ op = "none"
    /\ pc = "idle"
    /\ player \in Players
    /\ used = {}
    /\ made = 0
    /\ shown = [p \in Players |-> {}]
    /\ link = [p \in Players |-> "none"]
    /\ cursor = [p \in Players |-> 0]
-----------------------------------------------------------------------------
\* FetchItemFromDatabase finds item i among those of p.
Owned(p, i) == table[i] # NoRow /\ table[i].owner = p

Holdings(p) == {i \in Ids : Owned(p, i)}

\* SendSOSingleObject: only a client that is there hears of it.
Show(p, i)   == shown' = IF link[p] = "up" THEN [shown EXCEPT ![p] = @ \cup {i}] ELSE shown
Forget(p, S) == shown' = IF link[p] = "up" THEN [shown EXCEPT ![p] = @ \ S] ELSE shown

Done ==
    /\ op' = "none"
    /\ pc' = "idle"
    /\ used' = {}
    /\ made' = 0
    /\ UNCHANGED player

GoTo(step) == pc' = step /\ UNCHANGED <<op, player, used, made>>

\* A request of p's client for o reaches the dispatcher.
Begin(o, p, consumed, target, step) ==
    /\ op = "none"
    /\ connected
    /\ o \in Operations
    /\ link[p] = "up"
    /\ op' = o
    /\ pc' = step
    /\ player' = p
    /\ used' = consumed
    /\ made' = target
    /\ UNCHANGED <<nextId, clients>>

\* Mutant of HandleUnboxCrate: no transaction around the whole.
HandleUnboxCrateBare(p, crate) ==
    /\ Owned(p, crate)
    /\ table[crate].kind = "crate"
    /\ Begin("unbox", p, {crate}, 0, "save")
    /\ UNCHANGED db

HandleUnboxCrate(p, crate) ==
    /\ Owned(p, crate)
    /\ table[crate].kind = "crate"
    /\ Begin("unbox", p, {crate}, 0, "save")
    /\ Started

\* Mutant of HandleCraft: no transaction around the whole.
HandleCraftBare(p, inputs) ==
    /\ Cardinality(inputs) \in 1..CraftSize
    /\ \A i \in inputs : Owned(p, i) /\ table[i].kind = "low"
    /\ Begin("craft", p, inputs, 0, "delete")
    /\ UNCHANGED db

\* The message names CraftSize inputs, of one rarity below the highest; the same one
\* may be named more than once.
HandleCraft(p, inputs) ==
    /\ Cardinality(inputs) \in 1..CraftSize
    /\ \A i \in inputs : Owned(p, i) /\ table[i].kind = "low"
    /\ Begin("craft", p, inputs, 0, "delete")
    /\ Started

\* Any two items of the player; nothing keeps them from being the same.
HandleApplySticker(p, sticker, target) ==
    /\ Owned(p, sticker)
    /\ Owned(p, target)
    /\ Begin("apply", p, {sticker}, target, "update")
    /\ Started

\* The target may be anybody's, or not be there: only the UPDATE looks.
HandleScrapeSticker(p, target) ==
    /\ Begin("scrape", p, {}, target, "update")
    /\ Started

HandleRemoveItemName(p, target) ==
    /\ Owned(p, target)
    /\ Begin("unname", p, {}, target, "update")
    /\ Started

\* The UPDATE of the name, outside any transaction.
HandleNameItem(p, target) ==
    /\ Owned(p, target)
    /\ Begin("name", p, {}, target, "show")
    /\ UNCHANGED db

HandleNameBaseItem(p) ==
    /\ Begin("base", p, {}, 0, "save")
    /\ UNCHANGED db

DeleteItem(p, item) ==
    /\ Owned(p, item)
    /\ Begin("delete", p, {item}, 0, "delete")
    /\ UNCHANGED db
-----------------------------------------------------------------------------
\* What each operation makes, and what comes after its INSERT.
ProductKinds == CASE op = "unbox" -> {"low", "high", "plain", "sticker"}
                  [] op = "craft" -> {"high"}
                  [] op = "base"  -> {"base"}

\* Mutant of AfterSave: a trade-up is announced before it is committed.
AfterSaveTells == CASE op = "unbox" -> "create" [] op = "craft" -> "forget" [] op = "base" -> "show"

AfterSave == CASE op = "unbox" -> "create" [] op = "craft" -> "commit" [] op = "base" -> "show"

\* The row SaveNewItemToDatabase writes: FoundInCrate is 8, a trade-up's origin is
\* set to 8, and a base item is Purchased, 2.
NewRow(kind) ==
    [owner |-> player, kind |-> kind, by |-> IF op = "base" THEN "2" ELSE "8",
     from |-> used, slot |-> 0]

\* Mutant of SaveNewItemToDatabase: a failed INSERT is not noticed.
SaveNewItemToDatabaseUnchecked ==
    /\ pc = "save"
    /\ nextId <= MaxItems
    /\ \/ \E kind \in ProductKinds : Executed([table EXCEPT ![nextId] = NewRow(kind)])
       \/ UNCHANGED db
    /\ nextId' = nextId + 1
    /\ made' = nextId
    /\ pc' = AfterSave
    /\ UNCHANGED <<op, player, used, clients>>

SaveNewItemToDatabase ==
    /\ pc = "save"
    /\ nextId <= MaxItems
    /\ \E kind \in ProductKinds : Executed([table EXCEPT ![nextId] = NewRow(kind)])
    /\ nextId' = nextId + 1
    /\ made' = nextId
    /\ pc' = AfterSave
    /\ UNCHANGED <<op, player, used, clients>>

\* The UPDATE of a sticker or a name; only the scraping one looks at the owner.  An
\* item applied to itself is not made of anything.
Updated(row) ==
    CASE op = "apply"  -> {[row EXCEPT !.slot = s, !.from = @ \cup (used \ {made})] : s \in used}
      [] op = "scrape" -> {IF Owned(player, made) THEN [row EXCEPT !.slot = 0] ELSE row}
      [] op = "unname" -> {row}

Update ==
    /\ pc = "update"
    /\ \E row \in Updated(table[made]) : Executed([table EXCEPT ![made] = row])
    /\ GoTo(IF op = "apply" THEN "delete" ELSE "commit")
    /\ UNCHANGED <<nextId, clients>>

\* A trade-up deletes its inputs by id, the others by id and owner.
Deleted == IF op = "craft" THEN used ELSE used \cap Holdings(player)

\* Mutant of AfterDelete: the client is not told that the sticker is used up.
AfterDeleteSilent == CASE op \in {"unbox", "apply"} -> "commit" [] op = "craft" -> "save"
                       [] op \in {"delete", "unname"} -> "forget"

AfterDelete == CASE op = "unbox" -> "commit" [] op = "craft" -> "save"
                 [] op \in {"apply", "delete", "unname"} -> "forget"

\* Mutant of Delete: DeleteItem does not look at the number of rows either.
DeleteUnchecked ==
    /\ pc = "delete"
    /\ Executed([i \in Ids |-> IF i \in Deleted THEN NoRow ELSE table[i]])
    /\ GoTo(AfterDelete)
    /\ UNCHANGED <<nextId, clients>>

\* The DELETE.  DeleteItem gives up when it affects no row, the other handlers do
\* not look.
Delete ==
    /\ pc = "delete"
    /\ op \in {"apply", "delete", "unname"} => Deleted # {}
    /\ Executed([i \in Ids |-> IF i \in Deleted THEN NoRow ELSE table[i]])
    /\ GoTo(AfterDelete)
    /\ UNCHANGED <<nextId, clients>>

AfterCommit == IF op = "craft" THEN "forget" ELSE "show"

Commit ==
    /\ pc = "commit"
    /\ \/ Committed /\ IF op = "unbox" THEN Done ELSE GoTo(AfterCommit)
       \/ CommitFailed /\ Done
    /\ UNCHANGED <<nextId, clients>>

\* Mutant of Abandon: the handler returns without rolling back.
AbandonLeaks ==
    /\ \/ pc \in {"save", "update", "delete"}
       \/ pc = "forget" /\ op = "apply" /\ link[player] # "up"
    /\ UNCHANGED db
    /\ Done
    /\ UNCHANGED <<nextId, clients>>

\* A statement fails, or nothing was deleted, or the client is not there to be told
\* by DeleteItem: the handler returns and the transaction's destructor rolls back.
Abandon ==
    /\ \/ pc \in {"save", "update", "delete"}
       \/ pc = "forget" /\ op = "apply" /\ link[player] # "up"
    /\ RolledBack
    /\ Done
    /\ UNCHANGED <<nextId, clients>>
-----------------------------------------------------------------------------
\* k_ESOMsg_Create for what was in the crate, before the crate is deleted.
SendCreate ==
    /\ pc = "create"
    /\ Show(player, made)
    /\ GoTo("forget")
    /\ UNCHANGED <<db, nextId, link, cursor>>

AfterForget == CASE op = "unbox" -> "unlock" [] op = "craft" -> "show" [] op = "apply" -> "commit"

\* k_EMsgGC_CC_DeleteItem for every item consumed.
SendDelete ==
    /\ pc = "forget"
    /\ op = "apply" => link[player] = "up"
    /\ Forget(player, used)
    /\ IF op \in {"delete", "unname"} THEN Done ELSE GoTo(AfterForget)
    /\ UNCHANGED <<db, nextId, link, cursor>>

\* The answer that ends the animation.
SendUnlockCrateResponse ==
    /\ pc = "unlock"
    /\ Show(player, made)
    /\ GoTo("delete")
    /\ UNCHANGED <<db, nextId, link, cursor>>

\* Tradable, and neither painted, nor counting kills, a sticker or a music kit: nothing
\* that becomes an attribute of the item.  A base item cannot be traded, which is one.
Plain(row) == row.kind \in {"crate", "plain"}

\* The item as it is now: a new one from memory, a changed one fetched again.
SendItem ==
    /\ pc = "show"
    /\ op \in {"craft", "base"} \/ (connected /\ Owned(player, made))
    /\ op = "unname" => ~Plain(table[made])
    /\ Show(player, made)
    /\ Done
    /\ UNCHANGED <<db, nextId, link, cursor>>

\* The fetch finds nothing, or fails.
SendNothing ==
    /\ pc = "show"
    /\ op \notin {"craft", "base"}
    /\ StatementFailed
    /\ Done
    /\ UNCHANGED <<nextId, clients>>

\* An item without attributes is taken for a base item that has lost its name, and
\* DeleteItem removes it.
DeleteUnnamed ==
    /\ pc = "show"
    /\ op = "unname"
    /\ connected
    /\ Owned(player, made)
    /\ Plain(table[made])
    /\ pc' = "delete"
    /\ used' = {made}
    /\ UNCHANGED <<db, nextId, op, player, made, clients>>
-----------------------------------------------------------------------------
Highest(S) == {m \in S : \A n \in S : n <= m}

\* GetLatestItemIdForUser: the highest id, 0 without items.
LatestItemId(p) == Highest(Holdings(p) \cup {0})

\* A client connects and shows its ticket.  A session that is still there keeps its
\* cursor, unless the cursor was never set.
Login(p) ==
    /\ op = "none"
    /\ connected
    /\ link[p] # "up"
    /\ link' = [link EXCEPT ![p] = "up"]
    /\ shown' = [shown EXCEPT ![p] = {}]
    /\ \E latest \in LatestItemId(p) :
         cursor' = [cursor EXCEPT ![p] = IF link[p] = "lost" /\ @ # 0 THEN @ ELSE latest]
    /\ UNCHANGED <<db, nextId, handler>>

\* A client disappears, at any time; its session is dropped later.
Vanish(p) ==
    /\ link[p] = "up"
    /\ link' = [link EXCEPT ![p] = "lost"]
    /\ UNCHANGED <<db, nextId, handler, shown, cursor>>

DropSession(p) ==
    /\ op = "none"
    /\ link[p] = "lost"
    /\ link' = [link EXCEPT ![p] = "none"]
    /\ cursor' = [cursor EXCEPT ![p] = 0]
    /\ UNCHANGED <<db, nextId, handler, shown>>

SendSOCache(p) ==
    /\ op = "none"
    /\ connected
    /\ link[p] = "up"
    /\ shown' = [shown EXCEPT ![p] = Holdings(p)]
    /\ UNCHANGED <<db, nextId, handler, link, cursor>>

\* acquired_by as the poll reads it.  All new rows are fetched into one buffer and
\* then the first one again; NULL leaves in the buffer what the last row with a
\* value put there, or whatever the stack held.
AcquiredBy(first, new) ==
    LET valued == {i \in new : table[i].by # Null}
    IN IF table[first].by # Null THEN {table[first].by}
       ELSE IF valued = {} THEN Sources \ {Null}
       ELSE {table[i].by : i \in Highest(valued)}

Marked(row) == [row EXCEPT !.by = "crate"]

NewItems(p) == {i \in Holdings(p) : i > cursor[p]}

\* CheckAndSendNewItemsSince: of the new rows the first is sent, or marked if the
\* handler that made it has sent it; the cursor passes them all.
CheckAndSendNewItemsSince(p) ==
    /\ op = "none"
    /\ connected
    /\ link[p] # "none"
    /\ \E first \in NewItems(p), last \in Highest(NewItems(p)) :
         /\ \A i \in NewItems(p) : first <= i
         /\ cursor' = [cursor EXCEPT ![p] = last]
         /\ \E by \in AcquiredBy(first, NewItems(p)) :
              \/ /\ by \in {"0", "8"}
                 /\ Executed([table EXCEPT ![first] = Marked(@)]) \/ StatementFailed
                 /\ UNCHANGED shown
              \/ /\ by \notin {"0", "8"}
                 /\ Show(p, first)
                 /\ UNCHANGED db
    /\ UNCHANGED <<nextId, handler, link>>

\* The web shop, and whatever else inserts items, on a connection of its own.
ShopInserts(p, kind, by) ==
    LET row == [owner |-> p, kind |-> kind, by |-> by, from |-> {}, slot |-> 0]
    IN /\ nextId <= MaxItems
       /\ table' = [table EXCEPT ![nextId] = row]
       /\ durable' = [durable EXCEPT ![nextId] = row]
       /\ nextId' = nextId + 1
       /\ UNCHANGED <<inTransaction, connected, handler, clients>>

GivenTo(row, p) == [row EXCEPT !.owner = p]

\* An item goes to another player; rows the open transaction wrote are locked.
Trade(i, p) ==
    /\ table[i] # NoRow
    /\ table[i].kind \in Tradable
    /\ table[i] = durable[i]
    /\ table[i].owner # p
    /\ table' = [table EXCEPT ![i] = GivenTo(@, p)]
    /\ durable' = [durable EXCEPT ![i] = GivenTo(@, p)]
    /\ UNCHANGED <<inTransaction, connected, nextId, handler, clients>>

\* The process dies wherever it is and is started again; every session is gone.
Restart ==
    /\ Reopened
    /\ Done
    /\ link' = [p \in Players |-> "none"]
    /\ cursor' = [p \in Players |-> 0]
    /\ UNCHANGED <<nextId, shown>>
-----------------------------------------------------------------------------
Request(p) ==
    \/ \E i \in Ids : \/ HandleUnboxCrate(p, i)
                      \/ HandleScrapeSticker(p, i)
                      \/ HandleRemoveItemName(p, i)
                      \/ HandleNameItem(p, i)
                      \/ DeleteItem(p, i)
    \/ \E i, j \in Ids : HandleApplySticker(p, i, j)
    \/ \E inputs \in SUBSET Ids : HandleCraft(p, inputs)
    \/ HandleNameBaseItem(p)

Statement == SaveNewItemToDatabase \/ Update \/ Delete \/ Commit \/ Abandon

Message == SendCreate \/ SendDelete \/ SendUnlockCrateResponse \/ SendItem \/ SendNothing
              \/ DeleteUnnamed

Client(p) == \/ Login(p) \/ Vanish(p) \/ DropSession(p) \/ SendSOCache(p)
             \/ CheckAndSendNewItemsSince(p)

Next ==
    \/ \E p \in Players : Request(p) \/ Client(p)
    \/ Statement
    \/ Message
    \/ \E p \in Players, s \in Shop : ShopInserts(p, s[1], s[2])
    \/ \E i \in Ids, p \in Players : Trade(i, p)
    \/ Restart

Spec == Init /\ [][Next]_vars
-----------------------------------------------------------------------------
(* Properties. *)

\* What an item was made of is gone: no failure, crash or trade leaves a player with
\* both.  The comment in HandleUnboxCrate asks for it; if crates are traded while
\* they are opened it is not so.
NotDuplicated ==
    \A i, j \in Ids : durable[i] # NoRow /\ j \in durable[i].from => durable[j] = NoRow

\* The requests that destroy item i: its deletion, and two that were not meant to, the
\* removal of the name of a plain item and the application of an item to itself.
Destroys(i) ==
    /\ used = {i}
    /\ \/ op = "delete"
       \/ op = "unname" /\ Plain(durable[i])
       \/ op = "apply" /\ made = i

\* A committed item disappears only at its owner's request, and unless that request
\* destroys it, it has become part of something that is committed with it.  Only a
\* trade-up takes an input along that has changed hands since it was looked at.
NothingLost ==
    [][\A i \in Ids : durable[i] # NoRow /\ durable'[i] = NoRow =>
          /\ durable[i].owner = player \/ (op = "craft" /\ durable[i].kind \in Tradable)
          /\ \/ Destroys(i)
             \/ \E j \in Ids : durable'[j] # NoRow /\ i \in durable'[j].from]_vars

\* No handler returns with its transaction open, whatever failed in it.
AtRest == op = "none" => ~inTransaction /\ table = durable

\* "We must commit before sending ANY messages to the client": what a request shows
\* the client or takes from it is so in the database by then.  Opening a crate and
\* applying a sticker do not keep to it.
MessagesFollowCommit ==
    [][op \notin {"none", "unbox", "apply"} => \A p \in Players :
          /\ \A i \in shown'[p] \ shown[p] : durable[i] # NoRow
          /\ \A i \in shown[p] \ shown'[p] : durable[i] = NoRow]_vars

\* Between requests a connected client has no item that does not exist, so that no
\* request it can make fails with "Item not found".
NoPhantoms ==
    op = "none" /\ connected =>
        \A p \in Players : link[p] = "up" => \A i \in shown[p] : durable[i] # NoRow

\* "Checks for new items and sends them to the client": the cursor passes no item
\* that the client has not been sent.
EveryNewItemSent ==
    [][\A p \in Players : link[p] = "up" /\ cursor[p] < cursor'[p] =>
          \A i \in NewItems(p) : i <= cursor'[p] => i \in shown'[p]]_vars

-----------------------------------------------------------------------------
\* The rows as Inventory sees them.
Abstract(t) == [i \in Ids |-> IF t[i] = NoRow THEN NoRow
                              ELSE [owner |-> t[i].owner, from |-> t[i].from]]

Promise == INSTANCE Inventory WITH items <- Abstract(durable), NoItem <- NoRow

\* Whatever fails, what is committed changes as if each request were one step.
ExchangesAreAtomic == Promise!Spec
=============================================================================
