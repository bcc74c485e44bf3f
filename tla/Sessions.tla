------------------------------ MODULE Sessions ------------------------------
(***************************************************************************)
(* The session tables of the game coordinator (gc_server/networking.cpp):  *)
(* m_activeSessions, keyed by Steam id, and its reverse index              *)
(* m_socketToSteamId, keyed by socket handle.  Both are written by the     *)
(* welcome handler, by Steam's socket status callback and by the periodic  *)
(* cleanup; every packet handler trusts the reverse index to name the user *)
(* it acts for.                                                            *)
(*                                                                         *)
(* Time is kept as the number of ticks a session has been idle, capped one *)
(* past Expiry: cleanup removes everything beyond the cap before eviction  *)
(* compares ages, so the cap loses nothing.                                *)
(***************************************************************************)
EXTENDS Integers, FiniteSets

CONSTANTS Users,         \* Steam ids
          Sockets,       \* SNetSocket_t handles
          NoUser,        \* id 0: "no valid session for this socket"
          NoSocket,      \* k_HSteamNetConnection_Invalid
          NoSession,     \* no entry in m_activeSessions
          Expiry,        \* 24 hours, in ticks
          CacheSize,     \* GetCacheSizeMB(), read as a number of sessions
          MaxItems,      \* bound: rows ever inserted in csgo_items
          MaxPending,    \* bound: status changes waiting when another occurs
          ReuseHandles   \* may Steam hand a closed handle out again?

ASSUME SessionAssumption ==
    /\ NoUser \notin Users
    /\ NoSocket \notin Sockets
    /\ Expiry \in Nat
    /\ CacheSize \in Nat \ {0}      \* GetCacheSizeMB never returns less than 1
    /\ MaxItems \in Nat
    /\ MaxPending \in Nat \ {0}
    /\ ReuseHandles \in BOOLEAN

Session == [socket: Sockets, isAuthenticated: BOOLEAN, idle: 0..(Expiry + 1),
            lastCheckedItemId: Nat, itemIdInitialized: BOOLEAN]

ASSUME NoSessionAssumption == NoSession \notin Session

StatusEvent == [socket: Sockets, user: Users, state: {"opened", "closed"}]

VARIABLES
    activeSessions,    \* m_activeSessions
    socketToSteamId,   \* m_socketToSteamId
    peer,              \* the user at the other end of each open connection
    behind,            \* who stands behind a handle: connected, or named by a ticket
                       \* accepted on it; nobody while it has not been handed out
    statusEvents,      \* socket status callbacks Steam has yet to deliver
    ownedItems,        \* ids of each user's rows in csgo_items
    nextItemId         \* AUTO_INCREMENT of csgo_items

tables  == <<activeSessions, socketToSteamId>>
network == <<peer, behind, statusEvents>>
items   == <<ownedItems, nextItemId>>
vars    == <<tables, network, items>>

TypeOK ==
    /\ activeSessions \in [Users -> Session \cup {NoSession}]
    /\ socketToSteamId \in [Sockets -> Users \cup {NoUser}]
    /\ peer \in [Sockets -> Users \cup {NoUser}]
    /\ behind \in [Sockets -> SUBSET Users]
    /\ statusEvents \in SUBSET StatusEvent
    /\ ownedItems \in [Users -> SUBSET (1..MaxItems)]
    /\ nextItemId \in 1..(MaxItems + 1)
-----------------------------------------------------------------------------
Active == {u \in Users : activeSessions[u] # NoSession}

\* GetSessionSteamId: the user on whose behalf a packet from p is handled.
GetSessionSteamId(p) == socketToSteamId[p]

\* Mutants of Rebind: the old entry stays; it is erased after the new one is
\* written.
RebindKeepsOld(u, p) == [socketToSteamId EXCEPT ![p] = u]
RebindErasesLast(u, p) ==
    LET old == IF u \in Active THEN activeSessions[u].socket ELSE NoSocket
    IN  [s \in Sockets |-> CASE s = old -> NoUser
                             [] s # old /\ s = p -> u
                             [] OTHER -> socketToSteamId[s]]

\* The reverse index once u holds p: the entry of u's old socket is erased
\* first, whoever it names, and then p's is written.
Rebind(u, p) ==
    LET old == IF u \in Active THEN activeSessions[u].socket ELSE NoSocket
    IN  [s \in Sockets |-> CASE s = p -> u
                             [] s # p /\ s = old -> NoUser
                             [] OTHER -> socketToSteamId[s]]

\* Mutant of LatestItemIds: one past the highest id.
LatestItemIdsPlusOne(u) ==
    {1} \cup {i + 1 : i \in {j \in ownedItems[u] : \A k \in ownedItems[u] : k <= j}}

\* GetLatestItemIdForUser: MAX(id) of the user's rows, 0 without one and 0 when
\* the query fails.
LatestItemIds(u) ==
    {0} \cup {i \in ownedItems[u] : \A j \in ownedItems[u] : j <= i}

Init ==
    /\ activeSessions = [u \in Users |-> NoSession]
    /\ socketToSteamId = [p \in Sockets |-> NoUser]
    /\ peer = [p \in Sockets |-> NoUser]
    /\ behind = [p \in Sockets |-> {}]
    /\ statusEvents = {}
    /\ ownedItems = [u \in Users |-> {}]
    /\ nextItemId = 1
-----------------------------------------------------------------------------
(* Steam and the players. *)

\* v is taken to be at handle p: connected by it, by a session that holds it, or by
\* a status change still to be delivered.
Claims(p, v) ==
    \/ peer[p] = v
    \/ v \in Active /\ activeSessions[v].socket = p
    \/ \E e \in statusEvents : e.socket = p /\ e.user = v

\* Handles are opaque: a handle nothing refers to stands for one never used before.
New(p) == socketToSteamId[p] = NoUser /\ \A v \in Users : ~Claims(p, v)

Connect(u, p) ==
    /\ peer[p] = NoUser
    /\ ReuseHandles \/ (New(p) /\ p = CHOOSE q \in Sockets : New(q))
    /\ Cardinality(statusEvents) < MaxPending
    /\ peer' = [peer EXCEPT ![p] = u]
    /\ behind' = [behind EXCEPT ![p] = {u}]
    /\ statusEvents' = statusEvents \cup {[socket |-> p, user |-> u, state |-> "opened"]}
    /\ UNCHANGED <<tables, items>>

\* The remote end leaves, or Steam notices that it is gone.
Disconnect(p) ==
    /\ peer[p] # NoUser
    /\ Cardinality(statusEvents) < MaxPending
    /\ peer' = [peer EXCEPT ![p] = NoUser]
    /\ statusEvents' =
          statusEvents \cup {[socket |-> p, user |-> peer[p], state |-> "closed"]}
    /\ UNCHANGED <<behind, tables, items>>

(* The item table: rows arrive from the shop, a game server or a craft, and    *)
(* leave by deletion.                                                          *)

GainItem(u) ==
    /\ nextItemId <= MaxItems
    /\ ownedItems' = [ownedItems EXCEPT ![u] = @ \cup {nextItemId}]
    /\ nextItemId' = nextItemId + 1
    /\ UNCHANGED <<tables, network>>

LoseItem(u, i) ==
    /\ i \in ownedItems[u]
    /\ ownedItems' = [ownedItems EXCEPT ![u] = @ \ {i}]
    /\ UNCHANGED <<nextItemId, tables, network>>
-----------------------------------------------------------------------------
(* The coordinator. *)

\* Every status change is handled alike: the state it reports is not looked at.
SocketStatusCallback(e) ==
    /\ e \in statusEvents
    /\ statusEvents' = statusEvents \ {e}
    /\ activeSessions' = [activeSessions EXCEPT ![e.user] =
          IF e.user \in Active
          THEN [@ EXCEPT !.socket = e.socket, !.idle = 0]
          ELSE [socket |-> e.socket, isAuthenticated |-> FALSE, idle |-> 0,
                lastCheckedItemId |-> 0, itemIdInitialized |-> FALSE]]
    /\ socketToSteamId' = Rebind(e.user, e.socket)
    /\ UNCHANGED <<peer, behind, items>>

\* Mutants of ReadAuthTicket: the session is bound before the ticket is looked at,
\* so one that Steam rejects does it too; the cursor is read anew at every welcome.
Reread(u, p) ==
    /\ peer[p] # NoUser
    /\ \E latest \in LatestItemIds(u) :
          activeSessions' = [activeSessions EXCEPT ![u] =
             [socket |-> p, isAuthenticated |-> TRUE, idle |-> 0,
              lastCheckedItemId |-> latest, itemIdInitialized |-> TRUE]]
    /\ socketToSteamId' = Rebind(u, p)
ReadAuthTicketUnchecked(u, p) ==
    Reread(u, p) /\ behind' \in {behind, [behind EXCEPT ![p] = @ \cup {u}]}
                 /\ UNCHANGED <<peer, statusEvents, items>>
ReadAuthTicketRereads(u, p) ==
    Reread(u, p) /\ behind' = [behind EXCEPT ![p] = @ \cup {u}]
                 /\ UNCHANGED <<peer, statusEvents, items>>

\* A welcome with a ticket of u that Steam accepts; any other leaves the tables
\* alone.  The ticket is checked against the id in the message and never against
\* who is at the other end of p: it may come in on anybody's connection.
ReadAuthTicket(u, p) ==
    /\ peer[p] # NoUser
    /\ \E latest \in LatestItemIds(u) :
          activeSessions' = [activeSessions EXCEPT ![u] =
             [socket |-> p, isAuthenticated |-> TRUE, idle |-> 0,
              lastCheckedItemId |->
                 IF u \in Active /\ activeSessions[u].itemIdInitialized
                 THEN activeSessions[u].lastCheckedItemId ELSE latest,
              itemIdInitialized |-> TRUE]]
    /\ socketToSteamId' = Rebind(u, p)
    /\ behind' = [behind EXCEPT ![p] = @ \cup {u}]
    /\ UNCHANGED <<peer, statusEvents, items>>

\* The poll reads the rows above the cursor; if there are any the cursor moves
\* to the highest, and the session counts as active when one was handled.
Polled(u) ==
    /\ u \in Active
    /\ activeSessions[u].isAuthenticated
    /\ activeSessions[u].itemIdInitialized
    /\ \E i \in ownedItems[u] : i > activeSessions[u].lastCheckedItemId

\* answered: the users whose query succeeds; handled: those whose item was sent;
\* newest: the highest id each query returns.
CheckNewItemsForActiveSessions ==
    \E answered \in SUBSET {u \in Users : Polled(u)} :
      \E handled \in SUBSET answered, newest \in [answered -> 1..MaxItems] :
        /\ answered # {}
        /\ \A u \in answered : /\ newest[u] \in ownedItems[u]
                               /\ \A j \in ownedItems[u] : j <= newest[u]
        /\ activeSessions' = [u \in Users |->
              IF u \notin answered THEN activeSessions[u]
              ELSE [activeSessions[u] EXCEPT
                      !.lastCheckedItemId = newest[u],
                      !.idle = IF u \in handled THEN 0 ELSE @]]
        /\ UNCHANGED <<socketToSteamId, network, items>>

\* Mutant of Young: nobody is ever too old.
YoungAlways == Active

\* CleanupSessions drops what is idle beyond Expiry; the loop after it evicts
\* the longest idle until CacheSize sessions are left, and destroys their
\* sockets (Steam may or may not report that with a status change).
Young == {u \in Active : activeSessions[u].idle <= Expiry}

SurvivorSets(young) ==
    {kept \in SUBSET young :
        /\ Cardinality(kept) = IF Cardinality(young) > CacheSize
                               THEN CacheSize ELSE Cardinality(young)
        /\ \A u \in kept, v \in young \ kept :
              activeSessions[v].idle >= activeSessions[u].idle}

CleanupSessions ==
    \E kept \in SurvivorSets(Young) :
      LET evicted == Young \ kept
          erased  == {activeSessions[u].socket : u \in Active \ kept}
          closed  == {activeSessions[u].socket : u \in evicted}
      IN  /\ kept # Active
          /\ activeSessions' = [u \in Users |->
                IF u \in kept THEN activeSessions[u] ELSE NoSession]
          /\ socketToSteamId' = [p \in Sockets |->
                IF p \in erased THEN NoUser ELSE socketToSteamId[p]]
          /\ peer' = [p \in Sockets |-> IF p \in closed THEN NoUser ELSE peer[p]]
          /\ \E reported \in SUBSET {p \in closed : peer[p] # NoUser} :
                statusEvents' = statusEvents \cup
                  {[socket |-> p, user |-> peer[p], state |-> "closed"] : p \in reported}
          /\ UNCHANGED <<behind, items>>

Tick ==
    /\ \E u \in Active : activeSessions[u].idle <= Expiry
    /\ activeSessions' = [u \in Users |->
          IF u \in Active /\ activeSessions[u].idle <= Expiry
          THEN [activeSessions[u] EXCEPT !.idle = @ + 1] ELSE activeSessions[u]]
    /\ UNCHANGED <<socketToSteamId, network, items>>

\* The process dies and is started again: the tables are memory only, and no handle
\* outlives the process that was given it.
Restart ==
    /\ activeSessions' = [u \in Users |-> NoSession]
    /\ socketToSteamId' = [p \in Sockets |-> NoUser]
    /\ peer' = [p \in Sockets |-> NoUser]
    /\ behind' = [p \in Sockets |-> {}]
    /\ statusEvents' = {}
    /\ UNCHANGED items
-----------------------------------------------------------------------------
Next ==
    \/ \E u \in Users, p \in Sockets : Connect(u, p) \/ ReadAuthTicket(u, p)
    \/ \E p \in Sockets : Disconnect(p)
    \/ \E u \in Users : GainItem(u)
    \/ \E u \in Users, i \in 1..MaxItems : LoseItem(u, i)
    \/ \E e \in statusEvents : SocketStatusCallback(e)
    \/ CheckNewItemsForActiveSessions
    \/ CleanupSessions
    \/ Tick
    \/ Restart

Spec == Init /\ [][Next]_vars

\* main() calls Update for ever, and Update delivers callbacks and cleans up;
\* time passes.  Nothing is assumed of the players.
Fairness ==
    /\ WF_vars(Tick)
    /\ WF_vars(CleanupSessions)
    /\ WF_vars(\E e \in statusEvents : SocketStatusCallback(e))

FairSpec == Spec /\ Fairness
-----------------------------------------------------------------------------
(* Properties. *)

\* Every entry of the reverse index names a user whose session holds exactly
\* that socket: no packet is handled for a user whose session is gone or has
\* moved, and no user is named by two sockets.
ReverseIndexSound ==
    \A p \in Sockets : socketToSteamId[p] # NoUser =>
        /\ socketToSteamId[p] \in Active
        /\ activeSessions[socketToSteamId[p]].socket = p

\* The other half of "bidirectional map": a session whose handle nobody else has
\* stood behind is led back to from it.  (A ticket of another user on that handle
\* takes the entry over and leaves the first session without one, as the code
\* does not compare the two.)  Needs handles that are never reused.
ReverseIndexComplete ==
    \A u \in Active : behind[activeSessions[u].socket] = {u}
                        => socketToSteamId[activeSessions[u].socket] = u

\* A request that is handled for the session of its socket acts for somebody who
\* was at the other end of that handle or whose ticket was accepted on it, or for
\* nobody, however late the status changes and whatever was evicted meanwhile.
\* Needs handles that are never reused.
RequestActsForItsUsers ==
    \A p \in Sockets : GetSessionSteamId(p) \in behind[p] \cup {NoUser}

\* The network, the session table and every callback under way name only users who
\* have stood behind the handle: what ReverseIndexComplete and RequestActsForItsUsers
\* rest on.
ClaimsKnown ==
    \A p \in Sockets, v \in Users : Claims(p, v) => v \in behind[p]

\* The cursor of an authenticated session has been read from the database and
\* lies below every id the database can still assign: no row inserted after the
\* login escapes the poll.
CursorBelowNewItems ==
    \A u \in Active : activeSessions[u].isAuthenticated =>
        /\ activeSessions[u].itemIdInitialized
        /\ activeSessions[u].lastCheckedItemId < nextItemId

\* While a session lasts its cursor never moves back, over reconnects and new
\* welcomes: nothing is announced twice.
CursorNeverRewinds ==
    [][\A u \in Users :
         (/\ u \in Active /\ activeSessions[u].itemIdInitialized
          /\ activeSessions'[u] # NoSession)
         => /\ activeSessions'[u].itemIdInitialized
            /\ activeSessions'[u].lastCheckedItemId >= activeSessions[u].lastCheckedItemId]_vars

\* What SocketStatusCallback logs for every event ("received a socket
\* connection"): the event that takes a session off an open connection brings it
\* to an open one.
LiveSocketNotDisplaced ==
    [][\A u \in Users :
         (/\ u \in Active /\ activeSessions'[u] # NoSession
          /\ activeSessions'[u].socket # activeSessions[u].socket
          /\ peer[activeSessions[u].socket] = u)
         => peer'[activeSessions'[u].socket] = u]_vars

\* A player who is gone for good, and gets no more items, loses the session
\* whatever callbacks were still under way.  Gone is who is behind no open
\* connection: not even another's on which a ticket of theirs was accepted.
Offline(u) == \A p \in Sockets : peer[p] # NoUser => u \notin behind[p]
AbandonedSessionReclaimed ==
    \A u \in Users : <>[]Offline(u) => <>[](activeSessions[u] = NoSession)
=============================================================================
