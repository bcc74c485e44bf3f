# fragNet in TLA+

fragNet is a game coordinator (GC) for a CS:GO client: a C++ process that
answers the client's inventory, profile and matchmaking messages over Steam
networking and keeps the items in MySQL. This directory models the parts of
`src/gc_server/` that keep state, checks them with TLC on small instances, and
proves the results that matter most with TLAPS.

The top-level `src/*.cpp` are old copies; CMake builds `src/gc_server/`, and
only that is modelled. Nine tenths of the repository's lines are generated
protocol buffers and the Steamworks SDK, which have no control of their own.
`production_matchmaking.cpp`, `rcon_client.cpp` and `discord_notifier.cpp` are not in
the build. There are no tests and no SQL schema in the repository; what the schema
must be is read from the queries.

## 1. Inventory

`main` (main.cpp:88-95) is one thread: it calls `GCNetwork::Update` for ever.
Update runs Steam's callbacks, polls the web site, cleans up sessions, polls for
new items, and dispatches the packets that have arrived, one handler after the
other. So handlers do not interleave with each other. They do interleave, at
every statement and message, with everything outside the process: clients that
come and go, Steam's callbacks for what happened earlier, the web shop and game
servers that write the same tables, a database that can fail any statement, and
the death of the process.

| Component | State | Operations | What makes it correct |
|---|---|---|---|
| **Sessions and authentication** networking.cpp | `m_activeSessions` (Steam id → socket, flags, cursor), `m_socketToSteamId` | welcome with ticket, socket status callback, clean-up, eviction, item poll | the tables are inverse; a packet acts for nobody who was never behind its handle; the cursor misses and repeats nothing; abandoned sessions go |
| **SQL transactions** sql_transaction.hpp, prepared_stmt.hpp | one connection, an open transaction | begin, execute, commit, roll back | all or nothing, whatever fails |
| **Item acknowledgement** networking_inventory.cpp:1669 | `csgo_items.acknowledged` | ProcessClientAcknowledgment | positions distinct, final, and those the client is told |
| **Item exchange** networking_inventory_transactions.cpp, _actions.cpp, networking_inventory.cpp | rows of `csgo_items`; the client's view of them | unbox, craft, apply and scrape sticker, name, name base item, remove name, delete; poll; SO cache | each request one step or none; nothing lost, nothing duplicated; the client sees what is committed |
| **Equipment** networking_inventory_actions.cpp:22-290 | `equipped_t`, `equipped_ct` | equip, unequip, empty a slot | one item per slot and side; no other item is taken out; no transaction stays open |
| **Reputation and profiles** networking_users.cpp | `player_commends`, `player_reports`; ranks, cooldowns | commend, report, count tokens; profile queries | tokens are spent once, and no more than there are; the rows are what was asked for |
| **Matchmaking** matchmaking_manager.cpp, networking_matchmaking.cpp | queue, matches, player → match; two mutexes | join, leave, match, accept, decline, time out | the map is right; a match begins when all accepted; operations return; who accepted is queued again |
| **Game servers** gameserver_manager.cpp | server table | register, assign, release, heartbeat, time out | a match is made only if a server is there |
| **Database pool** db_pool.hpp | idle connections, shutdown flag, a condition variable | get, wait, time out, return, move, shut down | no connection is lost or shared; no wake-up is lost; shutting down lets everybody go |
| **Messages and chunking** steam_network_message.cpp, gc_message.cpp | – | cut into chunks, send; parse, build | the chunks are the payload |
| **Web API polling** web_api_client.cpp | pending requests, one call result, caches | two polls, completion | every answer finds its callback, caches do not go back |
| **Inventory serialisation** networking_inventory.cpp | – | rows ↔ protobuf, item id encoding | conversions inverse |
| **Store purchases** networking_inventory_transactions.cpp | `csgo_items` | not dispatched | – |
| **Production matchmaker** (not built) | queue, matches, threads | as above | as above |
| **Item schema** item_schema.cpp, keyvalue*.cpp, random.cpp | parsed item data | parse, choose products | odds and fallbacks |
| **Legacy inventory, TCP networking, tunables, RCON, Discord, logging, protocol buffers, Steamworks** | see PROJECT.json | | |

How they interact: every packet handler asks *Sessions* for the user behind a
socket. *Acknowledgement*, *Exchange* and *Equip* share the connection
(*Transactions*) and the item table; *Reputation* uses a connection without
transactions. *Sessions* keeps the cursor with which the poll of *Exchange*
recognises rows somebody else inserted. *Web polling* hands its cached alerts to
new sessions. The matchmaking manager asks the game servers for a free one before
it makes a match. The managers and the pool are compiled, but the server does not
construct them (networking.cpp:47); they are modelled as their interfaces promise
them to be used, by several threads.

The hard behaviours, each at its line, are the `hazards` of PROJECT.json:
late and reordered status callbacks; reused handles; values read before a
transaction and used in it; a transaction begun inside another; statements,
deadlocks, connections and commits that fail in the middle of a handler; death of
the process between two statements; trades and shop insertions behind the
coordinator's back; messages sent before the commit they announce; a call result
shared by two requests; threads that find, store and remove the same queue entries
under two mutexes; wake-ups that reach a thread which no longer needs them; sizes
rounded twice.

## 2. Plan

| Order | Module | Composes | State |
|---|---|---|---|
| 1 | Sessions, SessionsProofs | – | done, safety proved |
| 2 | Transactions | – | done |
| 3 | Acknowledgement, AcknowledgementProofs | Transactions | done, proved |
| 4 | Exchange, Inventory, ExchangeProofs | Transactions; implements Inventory | done, safety and refinement proved |
| 5 | WebPolling, OutboundProofs | – | done, proved |
| 6 | Equip, EquipProofs | Transactions | done, proved |
| 7 | Lobby, LobbyProofs (queue, matches, and the servers they look at) | – | done, safety proved |
| 8 | Reputation, ReputationProofs | – | done, proved |
| 9 | DBPool, DBPoolProofs | – | done, safety proved |
| 10 | Chunks, OutboundProofs | – | done, proved |

Every safety property that a passing run checks is a theorem. What is left: the item
id codec and the rating formulas as operators against a reference definition, and
what has no state yet (section 7).

## 3. The models

### Sessions (networking.cpp)

`activeSessions` and `socketToSteamId` are the two maps. `peer` and `statusEvents`
are Steam: who is at the other end of a handle, and the status callbacks not yet
delivered, in any order. `behind` is history: who has stood behind a handle, by
connecting with it or by a ticket that was accepted on it, since it was handed out.
`ownedItems` and `nextItemId` are the rows the poll looks for.

| Action | Code |
|---|---|
| ReadAuthTicket | networking.cpp:238-388, with the rebinding of 305-316 (`Rebind`) and the cursor of 321-340 |
| SocketStatusCallback | 1015-1038 |
| CheckNewItemsForActiveSessions | 428-449 and the poll in networking_inventory.cpp |
| CleanupSessions | 390-419 and the eviction of 466-498 |
| Tick | `time()`; idle time is counted to one past Expiry |
| Connect, Disconnect, GainItem, LoseItem | Steam and the other writers of the table |
| Restart | the process dies and starts again |

Three facts of the code shape it. SocketStatusCallback never looks at the state
of the connection, so a closing connection is handled as a new one. ReadAuthTicket
checks a ticket against the id in the message and never against who is at the other
end of the socket, so a valid ticket of one user may come in on another's
connection, and takes its entry over: the first session is then without one, and what
its client sends is handled for the second. ReverseIndexComplete and
RequestActsForItsUsers are stated for any such tickets: the index leads back to every
session whose handle nobody else has stood behind, and to nobody who has not. They
are about the packets that are handled for the session of their socket; two
read-only requests name their user themselves (section 6). And eviction
compares ages after the expired sessions are gone, so counting idle time beyond
Expiry would change nothing. `ReuseHandles` says whether Steam may hand a closed
handle out again; the properties that need handles to be fresh say so. Handles are
opaque, so that one which nothing refers to any more (`New`) can stand for one that
was never used: a few of them stand for any number of connections over time.

### Transactions (sql_transaction.hpp, prepared_stmt.hpp)

No Next of its own: the item modules extend it. `table` is what the connection
sees, `durable` what is committed. A statement succeeds (`Executed`), is undone
alone, is the victim of a deadlock, which undoes its whole transaction
(`Deadlocks`), or finds the connection gone. `inTransaction = FALSE` is
autocommit. A lost connection stays lost until the process is restarted, as in
the code. START TRANSACTION is taken to fail only with the connection: the code
only logs the failure (sql_transaction.hpp:21), and these handlers leave the
connection in no state in which the server would refuse it.

### Acknowledgement (networking_inventory.cpp:1669-1836)

One step per statement: the highest position is read (`ProcessClientAcknowledgment`,
before the transaction, as the code does), the transaction starts, each id is updated
(`PositionAssigned`, `NothingAssigned`, `AssignmentFailed`), and `Finish` commits and
answers or rolls back. `next` is `next_position` with the code's increments and
decrements and the reserved position 1; `told` and `count` are the answer and
`successCount`. `shown` is what each owner has been told, by the answer or by
`SendSOCache`. `Insert` and `DeleteItem` are the other writers of the table. Left out is
that the handler goes on with 1 for the highest position if its one row, which
`storeResult` has brought into the client's memory, then cannot be bound or fetched
(networking_inventory.cpp:1717-1719).

### Exchange (networking_inventory_transactions.cpp, _actions.cpp)

One handler runs at a time; `op` is the request, `pc` its next statement or
message, `used` the items it consumes, `made` the item it makes or changes. The
order of statements and messages is the code's, and differs from handler to
handler:

| Request | Steps after the checks |
|---|---|
| unbox | BEGIN, save, create, forget, unlock, delete, COMMIT |
| craft | BEGIN, delete (each input, by id alone), save, COMMIT, forget, show |
| apply | BEGIN, update, delete, forget, COMMIT, show |
| scrape | BEGIN, update, COMMIT, show |
| unname | BEGIN, update, COMMIT, show; or delete, forget if the item has no attributes |
| name | update (autocommit), show |
| base | save (autocommit), show |
| delete | delete (autocommit), forget |

*create*, *forget*, *unlock* and *show* are messages: they change `shown`, the
client's view, if the client is there (`link`). `Abandon` is every error path:
the handler returns and the destructor of its SQLTransaction rolls back.
`CheckAndSendNewItemsSince` is the poll, with what the code reads into its one
buffer: an `acquired_by` that is NULL leaves the previous row's value there, or
whatever the stack held (`AcquiredBy`). `ShopInserts` and `Trade` are other
users of the database; a trade updates `owner_steamid2` of a row in place, and
cannot touch a row the open transaction has written. `Tradable` is the kinds of
items that change hands in this way.

The checks are the code's and no more. Applying a sticker fetches both ids for the
player and does not ask what they are, nor whether they differ; scraping one fetches
nothing before the UPDATE; a trade-up counts the entries of the message, so that an id
may be repeated (`HandleCraft` takes up to CraftSize different ones). Removing a name
ends with the deletion of an item that has no attributes. `Plain` says which those are
(networking_inventory.cpp:954-996): tradable items that are not painted, count no
kills and are neither sticker nor music kit, such as crates. A base item is saved as
not tradable, which is an attribute, so that it is *not* deleted.

A row's `from` is the set of rows it was made of. The database does not keep it; the
properties need it. `slot` is the sticker column the row carries, named by the sticker.
Everything else about an item is abstracted to its `kind`: a crate, a possible input of
a trade-up, what a trade-up makes, a thing without attributes, a sticker, a base item
with a name. Deletions of a trade-up's inputs are one step: a crash between two of them
and a crash after all are the same for the database, which has committed neither.

**Inventory** is what Exchange promises: an item is inserted, deleted, given away,
or made of others that go in the same step. Exchange implements it with `items`
mapped to the owner and the origin of the *committed* rows (`Abstract(durable)`):
every statement and message is a stutter, the COMMIT the exchange, a statement
outside a transaction the step it makes. `ExchangesAreAtomic` is that refinement.

### Equip (networking_inventory_actions.cpp:115-290)

One step per statement; `pc` is the next, `todo` is itemsToUnequip.

| Action | Code |
|---|---|
| EquipItem | 249-263 and the START TRANSACTION of 119: both transactions begin before anything is written, so that one step stands for them |
| SelectEquipped, ClearNext, CommitCleared | UnequipItemsInSlot, 115-201: the SELECT, one UPDATE per item, the inner COMMIT |
| UpdateEquipped, Commit | 265-290: they run after the inner COMMIT, the UPDATE on its own |
| UnequipItem, UpdateUnequipped, CommitUnequipped | 203-247 |
| SendUpdate | 22-113; it may find the connection gone |
| Gain, Lose, Restart | other users of the table; the process dies |

`START TRANSACTION` inside a transaction commits the outer one, so that `inTransaction`
is one flag. `GetItemSlot` is the slot of an item by its definition; `slot` is the one
the client names, which the code does not compare with it: `OwnSlots` says that clients
name the right one. An item whose `item_id` is NULL or cannot be parsed has no slot
(`NoSlot`) and is skipped by UnequipItemsInSlot. `Contention` says whether a statement
can be refused while the connection lives.

### Reputation (networking_users.cpp:191-850)

The rows of one sender: every query names the sender, so that senders do not meet. A row
is a target, a type and its age in steps of `Tick`, and is forgotten when it is too old
for every query. `GetPlayerReportTokens` and `GetPlayerCommendTokens` count receivers in
their windows and fall back to all tokens when the query fails; `CheckReports` and
`CheckCommends` look for the target's rows; `WriteReport` and `WriteCommend` write one
row for each type, each by itself and with failures skipped. There is no transaction. No
key keeps two rows from being alike, so a row has a `copy` that tells a second one from
the first. Time passes only between requests: a window of days is not thought to end
within the milliseconds of one.

### Lobby (matchmaking_manager.cpp, networking_matchmaking.cpp, gameserver_manager.cpp)

Threads of two sorts, `Handlers` of messages and `Updaters`. A step is what happens
under one mutex, m_queueMutex or m_matchMutex; no change is made under both.

| Action | Code |
|---|---|
| HandleMatchmakingStart, HandleMatchmakingStop | networking_matchmaking.cpp:46-120 |
| RemovePlayerFromQueue, AddPlayerToQueue | 49-125: AddPlayerToQueue removes under one hold of the lock, pushes under another |
| ProcessMatchmakingQueue, FindMatchCandidates, StoreMatch or NoServer, UnqueueMatched | 128-258: found, entered and removed from the queue under three separate holds |
| AcceptMatch, DeclineMatch | 806-886; DeclineMatch locks m_matchMutex again in CancelMatchInternal and stays where it is |
| CheckReadyUpTimeouts, CancelMatchInternal, Proceed | 583-633, 773-791: the late matches are collected under the lock and cancelled after it |
| RegisterServer, UnregisterServer | gameserver_manager.cpp |

A queue entry is a shared object: its `acceptedMatch` is seen in every match it is in.
It is named by its player and a number; `Alive` are the entries that the queue, a match
or a thread still points to, and the number of any other is free. Ratings are left open:
any entries may be compatible, and a player's may be in one skill bracket or in several.
RemovePlayerFromQueue stops at the first bracket in which it finds the player
(`WithoutFirstBracket`), and AcceptMatch marks the player's first entry in the order of
the teams: any of them. The id of a match and its server are taken shortly before the
match is stored under the lock; `StoreMatch` is all three, since nothing depends on the
order of ids. A server is never marked as assigned, since nothing calls
AssignMatchToServer, so that having a server means that one is registered.

### DBPool (db_pool.hpp)

`conn` is `m_conn` of each RAII client, `available` the idle connections, `open` those
that MySQL has. A step is what happens between taking m_poolMutex and releasing it or
waiting on it. `signalled` are the waiting clients a notify has reached and that have
not got the mutex yet: `NotifyOne` picks one that sleeps, `WakeUp` and
`SpuriousWakeUp` look at the predicate again, and `TimeOut` looks at it once
more, as `wait_for` does. `CheckedOut` pings, closes and reopens: addresses of closed
connections are used again.

### Chunks (steam_network_message.cpp)

`WriteToSocket` computes the number of chunks, `WriteSingleMsg` sends all at once,
`WriteChunk` is one turn of the loop, `SendFails` a refusal by the socket. A chunk is
the part of the payload between two positions; the bytes themselves do not matter.
`Counted` is what GetTotalSize adds to the size of the payload. The assumption bounds
the payload to where the formulas of the code are right (section 6).

### WebPolling (web_api_client.cpp)

`lastPoll`, `pending`, `registered` and `cached` are the members; `inFlight` is
what Steam has not completed; `site` is the version of what the web site
says, an answer carrying any version since its request was sent. `registered` is
the one `CCallResult`: `Set` for a new request unregisters the old one
(steam_api_internal.h:89-102), so that only the request it holds is answered
(`Listened`). Steam completes or gives up a request within its timeout: `Tick`
waits for that.

## 4. Runs

TLC checks every property below exhaustively for the instance given. Every
passing property is also checked to *fail* for a mutant of the code
(PROJECT.json `mutants`; the mutant definitions stand before what they mutate).

| Run | Instance | Shows |
|---|---|---|
| sessions_tables | 2 users, 2 handles at a time, never reused, cache of 1, 1 item, 2 callbacks under way, tickets on anybody's connection, fairness | ReverseIndexSound, ReverseIndexComplete, RequestActsForItsUsers, CursorBelowNewItems, CursorNeverRewinds, AbandonedSessionReclaimed |
| sessions_displaced | 1 user, 2 handles | **violation** of LiveSocketNotDisplaced |
| ack_positions | 2 players, 3 rows, requests of up to 2 ids, every failure but deadlocks | PositionsDistinct, AtRest, ToldWhatIsStored, PositionsFinal |
| exchange_crates | 2 players, 2 rows, crates, stickers, trade-ups of one input, removed names and deletions, trades of all but crates, every failure | NotDuplicated, AtRest, NothingLost, ExchangesAreAtomic |
| exchange_uses | 1 player, 3 rows, with and without attributes, every request but unbox, every failure | NoPhantoms, ExchangesAreAtomic, MessagesFollowCommit |
| exchange_poll | 1 player, shop insertions | **violation** of EveryNewItemSent |
| web_order | intervals 2 and 1, timeout 4: answers slower than polls | TypeOK, WaitsForPending, CacheNeverGoesBack |
| equip_slots | 2 players, 4 items, two for one of 2 slots and one without a slot, lost connections and crashes | SlotExclusive, AtRest, UnequipsOnlyItsSlot |
| reputation_tokens | 3 targets, 2 tokens and 2 types of each sort, windows of 1 and 2 | TypeOK, ReportsWithinTokens, ToldNoMoreThanLeft, CommendedOnce, FirstCommendCostsToken, StoredAsWanted |
| lobby_threads | 2 players, 2 threads, matches of 2, up to 3 entries of each player at once, 2 matches ever made, fairness | MapSound, BegunAccepted, OperationsReturn, AcceptedRequeued |
| dbpool_waiting | 4 clients, 2 connections, 3 addresses, fairness | Accounted, WithinPoolSize, NoLostWakeUp, ShutDownReleases |
| chunks_bounds | 8 bytes to a chunk, every payload up to the assumption's limit | SentIsPrefix, TrueIsComplete, PayloadFits |

Type invariants are theorems in every module that has a next-state relation
(section 5), and are run only where something can break them that no other property
sees: in Reputation, where they say how old a row can be, and in WebPolling, where the
request itself is what an error would spoil.

Why the bounds are enough. The session properties relate at most two users and the old
and the new handle of one of them, either of which may also be the other's, by a ticket;
a handle that is forgotten is a new one; the cache of one forces evictions; one item is
enough for a cursor to pass it or not. (With a third handle, which gives one user two
and the other one, the five safety properties hold over 9,270,952 states; that is too
long a run for the liveness property.) A position clash needs two items with positions
and one being placed. An exchange consumes at most two rows (a trade-up is shrunk from
ten inputs to CraftSize) and makes one, so three rows hold one complete exchange and
what the next one starts from; the run with trades has two rows, one consumed and one
made, or one for each of two players, and two owners for each. A slot clash needs two
items of one slot, and a wrong clearing a third one of another, or one without a slot.
With two tokens and three targets the tokens run out with a target left, and windows of
one and two steps let a row be too old for one query and not for the other. Two threads
that find the same two entries, a player who joins again while the entry before is in a
match or on its way back to the queue, and a second match are what the races of Lobby
are made of: nobody asks for an entry once three exist, and re-queueing never runs out
of numbers, so that AcceptedRequeued has no exception for the bound. Four clients are
two that hold the two connections and two that wait, and the third address is what a
dead connection is opened again at. Chunks has every size in which the two roundings of
the code differ. WebPolling's bound on time covers several periods of both polls in the
regime in which answers are slower than polls. The theorems below are about every size.

web_order sets CHECK_DEADLOCK FALSE because time is bounded there and
everything stops at the end of it. The other models never stop: a Restart, a
poll, a connection or a server is always possible.

### Fairness

- sessions_tables: `WF(CleanupSessions)` and weak fairness of the
  delivery of status callbacks are main's endless loop, which runs both in every
  turn; `WF(Tick)` is that time passes. Nothing is assumed of the players, the
  shop or the poll.
- dbpool_waiting: `WF(WakeUp(c))`. A woken thread gets m_poolMutex in the end, since
  whoever holds it does a bounded amount of work. That a connection comes back, or
  that a wait times out, is not assumed: ShutDownReleases does not need it.
- lobby_threads: `WF(Step(t))`, that a thread in the middle of an operation runs on.
  That anybody joins, accepts or declines, that servers register or that a ready-up
  check is made is not assumed. A thread whose next step needs m_matchMutex is not
  enabled while another one is stuck in DeclineMatch, and OperationsReturn and
  AcceptedRequeued say what holds as long as nobody is. AcceptedRequeued is about each
  player who had accepted when the match was found late, not about the match as a
  whole: with one acceptor and one absentee it is the acceptor who must come back,
  whoever else joins or leaves.

The mutants of the four liveness properties (an age limit that never comes, a
shutdown that wakes one client, a list of matches that is not advanced, the wrong
players queued again) show that the code and not the fairness makes them true.

## 5. Proofs

TLAPS checks every theorem for every value of the constants that satisfies the
ASSUMEs, which TLC evaluates in every run. They are listed in PROJECT.json.

**SessionsProofs.** Assumptions: the null values are not users or handles,
bounds are natural numbers. The inductive invariant for any `ReuseHandles` is
the type, ReverseIndexSound and the cursor's position; it is needed as a whole
since Rebind erases the entry of a user's *old* socket, which only
ReverseIndexSound says is the user's only one. Without reuse two more things are
inductive. ClaimsKnown: peers, sessions and callbacks under way place at a handle only
users who are `behind` it, which Connect cannot break because nobody claims a new handle.
And ReverseIndexComplete: a rebinding takes an entry from another user only by putting
somebody new behind the handle. RequestActsForItsUsers follows from ReverseIndexSound and
ClaimsKnown. No theorem assumes that a ticket is shown by who it belongs to. Proved:
TypeCorrect, ReverseIndexCorrect, BidirectionalWithoutReuse, RequestsActForTheirUsers,
CursorCorrect, CursorMonotone.

**AcknowledgementProofs.** PositionsDistinct is not inductive: that the next
position is free depends on `next` being at or above every position the
player has, in the table as the connection sees it *and* in what a rollback
restores. The invariant adds: where the transaction is open (Bracketed), that
rows at and above `nextId` do not exist (Fresh), that the open transaction keeps
what was committed of a placed row (Kept), and that `next` is ahead of the
player's positions in both (Ahead). Proved: AcknowledgementTypeCorrect,
PositionsAreDistinct, TransactionsEnd, PositionsAreFinal — with deadlocks, which
the run leaves out for the sake of ToldWhatIsStored.

*ToldWhatIsStoredAlways* has two hypotheses. ~Deadlocks: section 6 says what a deadlock
does. Roomy: positions cannot reach 2^30, which the column takes for "no position". It
is needed: with Unacknowledged = 4 TLC finds a request that names an item twice, gives
it position 4, puts that in the answer, and then gives it 5, which is stored. The code
has no such check; it only relies on there being fewer items. How far positions go is
therefore an invariant of its own (Bounded). Only a commit keeps what a request has
moved the highest position by, at most one for each id it names, and a request commits
only if it gave a position to a row that had none. So with k rows that need no position
any more (placed or deleted, Filled) no committed position is past Limit(k) = 1 +
MaxRequest * k, and nothing in the open transaction past Limit(k + 1). Roomy says that
Limit(MaxItems + 1) is below 2^30; in the run it is 9. The other half is Telling: while
the connection lives the answer being put together holds what the transaction has
written, so that a commit makes it true; a lost connection undoes both, and a commit
that is reported as failed sends nothing. That a commit does not change an older answer
is Kept.

**ExchangeProofs.** The control invariant says where each handler has its transaction
open (Control, Bracketed) and that the item it changes exists and is not one it consumes
(Target): ExchangeTypeCorrect and HandlersLeaveNoTransaction follow. What is lost or
duplicated is a statement about the committed rows only, while the handlers write the
rows the connection sees, so that neither NothingLost nor NotDuplicated is inductive.
The ledger adds what the open transaction may differ in:

- Past: ids still to be handed out are in no row, nor in what a row is made of;
  a rollback takes rows back and not the ids, and a used id must not come back.
- Product: a product that is not committed holds all that is being consumed, and
  is none of it; so a commit that removes the inputs commits the product. The exception
  is an item applied to itself (Itself), which is gone before the commit.
- Kept: how a row the connection sees may differ from the committed one. It is gone
  only if it is being consumed by a request that makes something of it (Gone), it
  has the same owner, kind and origin unless it is the item a sticker was just put on
  (Same), it is new only as the product (New), and what an open transaction consumes
  is committed (Backed).
- Yours: what is consumed stays the player's unless it is Tradable, what is
  opened is a crate, and what is deleted for the loss of its name is Plain.
- Consumed: in what the connection sees, a product and an input are together only
  while the deletion is pending.

NothingIsLost needs no hypothesis: NothingLost itself says that a trade-up, which
deletes by id alone, may take an input from its new owner, and names the requests that
destroy an item without making anything of it (Destroys): its deletion, and two that
were not meant to, the removal of a name from an item without attributes and the
application of an item to itself. Everything else that disappears is part of what is
committed with its disappearance. NothingIsDuplicated assumes Undisturbed, that crates
are not traded or not opened (section 6 says why it must).

*The refinement.* ExchangeRefinesInventory proves `Spec => Promise!Spec` under the
same hypothesis. A COMMIT maps to Exchange of Inventory with what is consumed, and to
that step the ledger contributes everything: Kept that nothing but `used` and `made`
differs, Product that the origin is right, Consumed that the inputs are really gone.
Added is that a product's id is not in the database, in no row and no origin (Novel), so
that the abstract item is Fresh; that a deletion outside a transaction is of one item
(Single), and so one abstract step, is already part of the ledger.
Everything else is a step of the other users or leaves `durable` alone.

*What the clients are shown.* MessagesFollowCommitAlways has no hypothesis: any trades,
any failures, every request. It needs Settled: what a trade-up consumed is gone from
the table when its messages begin and what it made is committed; what a deletion
announces is gone. It follows from the ledger, since no other user can bring a used id
back or delete what is not theirs to delete while a handler runs. NoPhantomsAlways
assumes Quiet: crates are not opened, and nothing is traded. Without either half TLC
finds a phantom: the crate's item that was announced and rolled back, and the item that
was traded away and then deleted by its new owner, of which the first client is told
nothing. Its invariant goes beyond the property: what a connected client has belongs to
its player in the database, or is what the handler is just about to take off it (Real);
what a trade-up or a name makes is made for the player (ForPlayer); and a sticker that
is being applied is off the client before its deletion commits (Taken).

**EquipProofs.** The invariant is the type, where a transaction may be open (Control)
and what it has changed (Kept: rows of the player's, which have only lost the side
that is being cleared, in the slot that is being cleared). EquipTypeCorrect,
EquipLeavesNoTransaction and OnlyTheSlotIsEmptied follow with no hypothesis, thus with
deadlocks too. SlotsExclusive assumes ~Contention and OwnSlots; it
adds Emptying: while the connection lives, what is still in the slot is in `todo`, and
by the time the new item is equipped the slot is empty. If the connection has gone,
the item is not equipped either, which is why the ignored result of
UnequipItemsInSlot does no harm.

**LobbyProofs.** For any number of threads and any match size. MapSound and
BegunAccepted are inductive together with the type and with Unmade, that ids still to
be handed out are in use nowhere. Nothing about the threads' program counters is
needed: the map and the matches change under one mutex in single steps, so that no
interleaving of what is between them matters. Proved: LobbyTypeCorrect, MapAlwaysSound,
BegunAlwaysAccepted.

**DBPoolProofs.** Accounted is inductive with Asleep (who is woken waits, who waits has
no connection, a pool that is shut down keeps nothing). NoLostWakeUp compares two
cardinalities, so every step is one of a few cases of how `available` and `signalled`
grow and shrink (CountsInductive), with the theorems on finite sets: each return adds
one of each, each checkout takes one of each or finds nobody asleep. Proved:
DBPoolTypeCorrect, ConnectionsAccounted, NothingIdleAfterShutdown (which no run
repeats), PoolSizeHolds, NoWakeUpLost.

**ReputationProofs.** ReputationTypeCorrect needs the control of the handler (Control)
and no hypothesis. Everything else assumes ~Contention, that no statement is refused while
the connection lives; with Contention TLC violates each of the five properties, most
directly because a count that fails gives all tokens. Connections may be lost and the
process may die anywhere. The tokens are counted over *receivers*, and the handler writes
rows, so that the invariant relates the two: what the handler has been told is what a
count would give now (Reporting), where `written` says whether the target is already
among the receivers, so that its second row costs nothing; the types still to be written
are those in which the stored rows differ from the request (Commending); a first row is
written only after a token was found (Paid). They are inductive together with
ReportsWithinTokens and CommendedOnce. Cardinalities are handled by the theorems on finite
sets: time only takes receivers out of a window, and a write adds at most the target. That
the loop can always pick a next type (First) is shown from types being natural numbers.
Proved: ReputationTypeCorrect, ReportsWithinTokensAlways, ToldNoMoreThanLeftAlways,
CommendedOnceAlways, StoredAsWantedAlways, FirstCommendCostsTokenAlways.

**OutboundProofs** is about the two modules that only send. *Chunks*: arithmetic lemmas
bound the two roundings: under ChunksAssumption the last chunk begins before the end and
ends at it. The invariant Cut says that what has been sent is the first chunks of the cut.
Proved: ChunksTypeCorrect, SentIsPrefixAlways, TrueIsCompleteAlways, PayloadFitsAlways.
*WebPolling*: CacheNeverGoesBack needs Fresh, that nothing cached is newer than the request
that is waited for; that requests which were displaced cannot reach the cache is what keeps
it true. Proved: WebPollingTypeCorrect, AlwaysWaitsForPending, CacheMonotone.

Only model-checked: the four liveness properties, AbandonedSessionReclaimed,
OperationsReturn, AcceptedRequeued and ShutDownReleases, which are out of the prover's
reach. No module has a recursive definition, so that nothing else is. For a theorem with a
hypothesis, the run's constants satisfy the hypothesis.

## 6. Observations

What the violation runs show, with the line of the code that says otherwise, is under
`findings` in PROJECT.json. In short:

- **sessions_displaced**: the status callback of a closed connection that is
  delivered after the user has reconnected takes the session off the new socket.
- **exchange_poll**: of several new rows the poll sends one and passes all.

Seen while modelling, with no run of its own:

Sessions

- A ticket is checked against the id in the welcome message, and neither is compared
  with the remote end of the socket (networking.cpp:261-317). A ticket of another user
  takes the entry over, and the session that was there has none until its next status
  event or welcome.
- BuildMatchmakingHelloRequest and SOCacheSubscribedRequest are answered for the
  `steam_id` in the message and not for the session (networking.cpp:580, 595); no
  property of Sessions speaks of them.

Acknowledgement

- After a deadlock in the middle of a request the loop goes on, commits the rest and
  answers with positions that were rolled back (networking_inventory.cpp:1777).
  ToldWhatIsStored is therefore checked and proved without deadlocks; the other theorems
  hold with them.
- Positions only grow, so an inventory of some 4000 acknowledged items reaches
  the fixed position of the operation coin (networking_inventory.cpp:439).

Exchange

- Unboxing does not look at how many rows the DELETE of the crate affected
  (networking_inventory_transactions.cpp:263): a crate that was traded
  since it was fetched is opened and stays with its new owner. This is the
  hypothesis Undisturbed.
- The crate is destroyed on the client before the unlock response, against the comment
  above it (networking_inventory_transactions.cpp:219).
- HandleUnboxCrate sends its messages before the DELETE and the COMMIT, where
  HandleCraft says they must follow (networking_inventory_actions.cpp:789);
  DeleteItem tells the client before HandleApplySticker commits.
  MessagesFollowCommit is therefore stated for the other requests, and NoPhantoms
  is neither checked nor proved of crates (Quiet).
- HandleApplySticker writes `sticker_slot_<n>_id` (networking_inventory_actions.cpp:574);
  every query reads `sticker_1` to `sticker_5` (networking_inventory.cpp:1054, 2118).
  Exchange assumes that the columns it writes exist.
- A trade-up deletes its inputs by id alone (networking_inventory_actions.cpp:762),
  so that an input that changed hands after the fetch is taken from its new owner. It
  counts the entries of the message (701), so that an id named more than once counts
  as more than one input.
- Nothing keeps a sticker and the item it is applied to from being the same
  (networking_inventory_actions.cpp:546-598): the row is written, deleted and
  committed, and the item is lost. Nor does anything ask whether it is a sticker.
- Removing a name deletes an item without attributes, "if it was a base item that is
  now stock" (networking_inventory_actions.cpp:488-495). A base item is saved as not
  tradable, which is an attribute (networking_inventory.cpp:1939, 985-987), and so is
  kept; an ordinary crate has none and is deleted.

Equip

- The transaction of UnequipItemsInSlot begins inside that of EquipItem and so commits
  it: the slot is committed empty before the item is equipped, and the
  ROLLBACK that SQLTransaction promises without a Commit (sql_transaction.hpp:8-13) has
  nothing left to undo.
- With a refused SELECT or UPDATE, as after a lock timeout or a deadlock, the new item
  is equipped beside the old one (Contention).
- The slot a request names is not compared with the item's own: an item put in another
  slot empties that one and joins whatever is in its own (OwnSlots).
- The items that are taken out of the slot are not announced to the client.

Web polling

- Both polls share one call result, so that of two requests sent in one turn the first
  is never answered and its entry in `m_pendingRequests` stays.

Reputation

- A count that fails gives all tokens (networking_users.cpp:198, 628).
- Adding to a commendation, or swapping its types, costs no token, and taking it back
  gives the token back; FirstCommendCostsToken says what is left.

Matchmaking

- DeclineMatch holds m_matchMutex when it calls CancelMatchInternal, which locks it
  again (matchmaking_manager.cpp:874): the first decline stops every thread that needs
  that mutex.
- Two threads that find the same candidates make two matches of them. A match whose
  players have all accepted in the other one never begins, is cancelled when it is
  late, and takes players of the match that has begun off the map; MapSound holds, its
  converse does not.
- A player in a match can queue again, and one who is in the queue when a match is
  cancelled is removed and added at its end.
- RemovePlayerFromQueue returns after the first skill bracket in which it finds the
  player (matchmaking_manager.cpp:111-123): an entry in another bracket stays.
- A match that is late is cancelled even if its last player accepts between
  the check and the cancellation.
- GetQueueStatistics holds both mutexes. DistributePlayersToTeams is
  written for ten players whatever the configuration says.

Database pool

- A dead connection that cannot be opened again is not given back: the pool is smaller
  from then on (db_pool.hpp:142).
- A client that asks for a second connection while it holds the only one waits for
  itself.

Chunks

- GetTotalSize counts two of the three words of the header, so that a chunk of
  MAX_CHUNK_SIZE bytes is sent in a slightly larger message.
- A payload of 1,049,599 bytes, and some longer ones, has a last chunk that would
  begin after the end of the payload; MaxData is what excludes them.
- The result of WriteToSocket is ignored by its callers, and the constructor
  that reads a message does not look at the number of chunks.

## 7. Not modelled

- *End of a match, ratings and the release of servers*: HandleMatchEnd and
  UpdateMatchState are called with match 0, which the manager never makes, so that
  what follows has no effect; CleanupAbandonedMatches looks for states
  that are therefore never reached. The rating formulas are data.
- *Profile, rank and cooldown queries* only read.
- *Item schema*: a parser and a table of odds; Exchange leaves its choice open.
- *Serialisation*: data without control, apart from what Exchange and
  Acknowledgement keep of it.
- *Parsing and building of messages*: done by protobuf; Chunks has the part with a
  state.
- *Store purchases, the legacy inventory and the production matchmaker* are not
  reachable from the server's main loop.
- *TCP networking, RCON and Discord* are input and output; *tunables* are a file read
  into constants; *logging* has no state the rest reads.
- *Generated and vendored code* (protobufs, Steamworks) is serialisation and
  declarations; what the code depends on of Steam's behaviour is in Sessions and
  WebPolling.
