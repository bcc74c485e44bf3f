--------------------------- MODULE SessionsProofs ---------------------------
(***************************************************************************)
(* Proofs about Sessions, for any set of users, sockets and any bounds.    *)
(***************************************************************************)
EXTENDS Sessions, TLAPS

\* Splits a step into the actions; every preservation proof below uses it.
LEMMA NextCases ==
    ASSUME [Next]_vars,
           NEW ACTION P,
           \A u \in Users, p \in Sockets : Connect(u, p) => P,
           \A u \in Users, p \in Sockets : ReadAuthTicket(u, p) => P,
           \A p \in Sockets : Disconnect(p) => P,
           \A u \in Users : GainItem(u) => P,
           \A u \in Users, i \in 1..MaxItems : LoseItem(u, i) => P,
           \A e \in statusEvents : SocketStatusCallback(e) => P,
           CheckNewItemsForActiveSessions => P,
           CleanupSessions => P,
           Tick => P,
           Restart => P,
           UNCHANGED vars => P
    PROVE  P
  BY DEF Next

\* The two record updates the handlers make keep a session a session.
LEMMA SocketUpdate ==
    ASSUME NEW r \in Session, NEW p \in Sockets
    PROVE  [r EXCEPT !.socket = p, !.idle = 0] \in Session
  <1>1. 0 \in 0..(Expiry + 1)
    BY SessionAssumption
  <1>2. QED
    BY <1>1 DEF Session

LEMMA CursorUpdate ==
    ASSUME NEW r \in Session, NEW i \in Nat, NEW k \in 0..(Expiry + 1)
    PROVE  [r EXCEPT !.lastCheckedItemId = i, !.idle = k] \in Session
  BY SessionAssumption DEF Session

\* What the poll does to one session: nothing, or move its cursor up to one of the
\* user's rows.
LEMMA PollStep ==
    ASSUME TypeOK, CheckNewItemsForActiveSessions
    PROVE  /\ activeSessions' = [u \in Users |-> activeSessions'[u]]
           /\ \A u \in Users : \E i \in Nat, k \in 0..(Expiry + 1) :
                \/ activeSessions'[u] = activeSessions[u]
                \/ /\ u \in Active
                   /\ activeSessions[u] \in Session
                   /\ i \in ownedItems[u]
                   /\ i > activeSessions[u].lastCheckedItemId
                   /\ activeSessions'[u] =
                        [activeSessions[u] EXCEPT !.lastCheckedItemId = i, !.idle = k]
  <1>1. PICK answered \in SUBSET {v \in Users : Polled(v)} :
          \E handled \in SUBSET answered, newest \in [answered -> 1..MaxItems] :
            /\ answered # {}
            /\ \A v \in answered : /\ newest[v] \in ownedItems[v]
                                   /\ \A j \in ownedItems[v] : j <= newest[v]
            /\ activeSessions' = [v \in Users |->
                  IF v \notin answered THEN activeSessions[v]
                  ELSE [activeSessions[v] EXCEPT
                          !.lastCheckedItemId = newest[v],
                          !.idle = IF v \in handled THEN 0 ELSE @]]
            /\ UNCHANGED <<socketToSteamId, network, items>>
    BY Zenon DEF CheckNewItemsForActiveSessions
  <1>2. PICK handled \in SUBSET answered, newest \in [answered -> 1..MaxItems] :
            /\ \A v \in answered : /\ newest[v] \in ownedItems[v]
                                   /\ \A j \in ownedItems[v] : j <= newest[v]
            /\ activeSessions' = [v \in Users |->
                  IF v \notin answered THEN activeSessions[v]
                  ELSE [activeSessions[v] EXCEPT
                          !.lastCheckedItemId = newest[v],
                          !.idle = IF v \in handled THEN 0 ELSE @]]
    BY <1>1, Zenon
  <1>3. activeSessions' = [u \in Users |-> activeSessions'[u]]
    BY <1>2, Zenon
  <1>4. \A v \in answered : /\ newest[v] \in ownedItems[v]
                            /\ \A j \in ownedItems[v] : j <= newest[v]
    BY <1>2, Zenon
  <1>5. ASSUME NEW u \in Users
        PROVE  \E i \in Nat, k \in 0..(Expiry + 1) :
                \/ activeSessions'[u] = activeSessions[u]
                \/ /\ u \in Active
                   /\ activeSessions[u] \in Session
                   /\ i \in ownedItems[u]
                   /\ i > activeSessions[u].lastCheckedItemId
                   /\ activeSessions'[u] =
                        [activeSessions[u] EXCEPT !.lastCheckedItemId = i, !.idle = k]
    <2>1. CASE u \notin answered
      <3>1. activeSessions'[u] = activeSessions[u]
        BY <1>2, <2>1, Zenon
      <3>2. 0 \in Nat /\ 0 \in 0..(Expiry + 1)
        BY SessionAssumption
      <3>3. QED
        BY <3>1, <3>2
    <2>2. CASE u \in answered
      <3> DEFINE idle == IF u \in handled THEN 0 ELSE activeSessions[u].idle
      <3>1. u \in Active /\ activeSessions[u] \in Session
        BY <2>2 DEF Polled, Active, TypeOK
      <3>2. idle \in 0..(Expiry + 1)
        BY <3>1, SessionAssumption DEF Session
      <3>3. newest[u] \in ownedItems[u] /\ newest[u] \in Nat
        BY <1>4, <2>2
      <3>4. newest[u] > activeSessions[u].lastCheckedItemId
        <4>1. PICK j \in ownedItems[u] : j > activeSessions[u].lastCheckedItemId
          BY <2>2 DEF Polled
        <4>2. j <= newest[u]
          BY <1>4, <2>2
        <4>3. j \in Nat /\ activeSessions[u].lastCheckedItemId \in Nat
          BY <3>1, SessionAssumption DEF TypeOK, Session
        <4>4. QED
          BY <3>3, <4>1, <4>2, <4>3
      <3>5. activeSessions'[u] =
              [activeSessions[u] EXCEPT !.lastCheckedItemId = newest[u], !.idle = idle]
        BY <1>2, <2>2, Zenon
      <3> HIDE DEF idle
      <3>6. QED
        BY <3>1, <3>2, <3>3, <3>4, <3>5, Zenon
    <2>3. QED
      BY <2>1, <2>2
  <1>6. QED
    BY <1>3, <1>5

\* The session a welcome leaves behind.
LEMMA AuthSession ==
    ASSUME TypeOK, NEW u \in Users, NEW p \in Sockets, ReadAuthTicket(u, p)
    PROVE  /\ activeSessions'[u] \in Session
           /\ activeSessions'[u].socket = p
           /\ activeSessions'[u].itemIdInitialized
           /\ \/ /\ u \in Active /\ activeSessions[u].itemIdInitialized
                 /\ activeSessions'[u].lastCheckedItemId = activeSessions[u].lastCheckedItemId
              \/ /\ ~(u \in Active /\ activeSessions[u].itemIdInitialized)
                 /\ activeSessions'[u].lastCheckedItemId \in LatestItemIds(u)
           /\ activeSessions' = [activeSessions EXCEPT ![u] = activeSessions'[u]]
  <1>1. PICK latest \in LatestItemIds(u) :
          activeSessions' = [activeSessions EXCEPT ![u] =
             [socket |-> p, isAuthenticated |-> TRUE, idle |-> 0,
              lastCheckedItemId |->
                 IF u \in Active /\ activeSessions[u].itemIdInitialized
                 THEN activeSessions[u].lastCheckedItemId ELSE latest,
              itemIdInitialized |-> TRUE]]
    BY DEF ReadAuthTicket
  <1> DEFINE cursor == IF u \in Active /\ activeSessions[u].itemIdInitialized
                       THEN activeSessions[u].lastCheckedItemId ELSE latest
  <1>2. cursor \in Nat
    BY DEF TypeOK, Active, Session, LatestItemIds
  <1>3. activeSessions'[u] = [socket |-> p, isAuthenticated |-> TRUE, idle |-> 0,
                              lastCheckedItemId |-> cursor, itemIdInitialized |-> TRUE]
    BY <1>1 DEF TypeOK
  <1>4. activeSessions' = [activeSessions EXCEPT ![u] = activeSessions'[u]]
    BY <1>1, <1>3, Zenon
  <1>5. activeSessions'[u] \in Session
    <2> HIDE DEF cursor
    <2> QED BY <1>2, <1>3, SessionAssumption DEF Session
  <1>6. QED
    BY <1>3, <1>4, <1>5

\* The session a status change leaves behind.
LEMMA StatusSession ==
    ASSUME TypeOK, NEW e \in statusEvents, SocketStatusCallback(e)
    PROVE  /\ e.user \in Users /\ e.socket \in Sockets
           /\ activeSessions'[e.user] \in Session
           /\ activeSessions'[e.user].socket = e.socket
           /\ IF e.user \in Active
              THEN activeSessions'[e.user] =
                     [activeSessions[e.user] EXCEPT !.socket = e.socket, !.idle = 0]
              ELSE ~activeSessions'[e.user].isAuthenticated
           /\ activeSessions' = [activeSessions EXCEPT ![e.user] = activeSessions'[e.user]]
  <1>1. e.user \in Users /\ e.socket \in Sockets
    BY DEF TypeOK, StatusEvent
  <1> DEFINE after == IF e.user \in Active
                      THEN [activeSessions[e.user] EXCEPT !.socket = e.socket, !.idle = 0]
                      ELSE [socket |-> e.socket, isAuthenticated |-> FALSE, idle |-> 0,
                            lastCheckedItemId |-> 0, itemIdInitialized |-> FALSE]
  <1>2. after \in Session /\ after.socket = e.socket
    <2>1. CASE e.user \in Active
      <3>1. activeSessions[e.user] \in Session
        BY <1>1, <2>1 DEF TypeOK, Active
      <3>2. [activeSessions[e.user] EXCEPT !.socket = e.socket, !.idle = 0] \in Session
        BY <1>1, <3>1, SocketUpdate
      <3>3. QED
        BY <2>1, <3>1, <3>2 DEF Session
    <2>2. CASE e.user \notin Active
      BY <1>1, <2>2, SessionAssumption DEF Session
    <2>3. QED
      BY <2>1, <2>2
  <1>3. activeSessions' = [activeSessions EXCEPT ![e.user] = after]
    BY DEF SocketStatusCallback
  <1>4. activeSessions'[e.user] = after
    <2> HIDE DEF after
    <2> QED BY <1>1, <1>3 DEF TypeOK
  <1>5. activeSessions' = [activeSessions EXCEPT ![e.user] = activeSessions'[e.user]]
    BY <1>3, <1>4, Zenon
  <1>6. QED
    BY <1>1, <1>2, <1>4, <1>5
-----------------------------------------------------------------------------
LEMMA TypeOKInductive == TypeOK /\ [Next]_vars => TypeOK'
  <1> SUFFICES ASSUME TypeOK, [Next]_vars PROVE TypeOK'
    OBVIOUS
  <1> USE SessionAssumption, NoSessionAssumption
  <1>1. ASSUME NEW u \in Users, NEW p \in Sockets, Connect(u, p) PROVE TypeOK'
    BY <1>1 DEF TypeOK, Connect, StatusEvent, tables, items
  <1>2. ASSUME NEW u \in Users, NEW p \in Sockets, ReadAuthTicket(u, p) PROVE TypeOK'
    <2>1. activeSessions' \in [Users -> Session \cup {NoSession}]
      BY <1>2, AuthSession DEF TypeOK
    <2>4. socketToSteamId' \in [Sockets -> Users \cup {NoUser}]
      BY <1>2 DEF ReadAuthTicket, Rebind, TypeOK
    <2>5. QED
      BY <1>2, <2>1, <2>4 DEF ReadAuthTicket, network, items, TypeOK
  <1>3. ASSUME NEW p \in Sockets, Disconnect(p) PROVE TypeOK'
    BY <1>3 DEF TypeOK, Disconnect, StatusEvent, tables, items
  <1>4. ASSUME NEW u \in Users, GainItem(u) PROVE TypeOK'
    BY <1>4 DEF TypeOK, GainItem, tables, network
  <1>5. ASSUME NEW u \in Users, NEW i \in 1..MaxItems, LoseItem(u, i) PROVE TypeOK'
    BY <1>5 DEF TypeOK, LoseItem, tables, network
  <1>6. ASSUME NEW e \in statusEvents, SocketStatusCallback(e) PROVE TypeOK'
    <2>1. e.user \in Users /\ e.socket \in Sockets
      BY <1>6, StatusSession
    <2>2. activeSessions' \in [Users -> Session \cup {NoSession}]
      BY <1>6, StatusSession DEF TypeOK
    <2>3. socketToSteamId' \in [Sockets -> Users \cup {NoUser}]
      BY <1>6, <2>1 DEF SocketStatusCallback, Rebind, TypeOK
    <2>4. QED
      BY <1>6, <2>2, <2>3 DEF SocketStatusCallback, items, TypeOK
  <1>7. ASSUME CheckNewItemsForActiveSessions PROVE TypeOK'
    <2>1. ASSUME NEW u \in Users PROVE activeSessions'[u] \in Session \cup {NoSession}
      <3>1. PICK i \in Nat, k \in 0..(Expiry + 1) :
              \/ activeSessions'[u] = activeSessions[u]
              \/ /\ activeSessions[u] \in Session
                 /\ activeSessions'[u] =
                      [activeSessions[u] EXCEPT !.lastCheckedItemId = i, !.idle = k]
        BY <1>7, PollStep
      <3>2. activeSessions[u] \in Session \cup {NoSession}
        BY DEF TypeOK
      <3>3. [activeSessions[u] EXCEPT !.lastCheckedItemId = i, !.idle = k] \in Session
            \/ activeSessions[u] \notin Session
        BY CursorUpdate, Zenon
      <3>4. QED
        BY <3>1, <3>2, <3>3, Zenon
    <2>2. activeSessions' = [u \in Users |-> activeSessions'[u]]
      BY <1>7, PollStep, Zenon
    <2>4. activeSessions' \in [Users -> Session \cup {NoSession}]
      BY <2>1, <2>2
    <2>5. QED
      BY <1>7, <2>4 DEF CheckNewItemsForActiveSessions, network, items, TypeOK
  <1>8. ASSUME CleanupSessions PROVE TypeOK'
    BY <1>8 DEF TypeOK, CleanupSessions, Young, StatusEvent, items, Active, Session
  <1>9. ASSUME Tick PROVE TypeOK'
    <2>1. activeSessions' \in [Users -> Session \cup {NoSession}]
      BY <1>9 DEF TypeOK, Tick, Active, Session
    <2>2. QED
      BY <1>9, <2>1 DEF TypeOK, Tick, network, items
  <1>10. ASSUME Restart PROVE TypeOK'
    BY <1>10 DEF TypeOK, Restart, items
  <1>11. ASSUME UNCHANGED vars PROVE TypeOK'
    BY <1>11 DEF TypeOK, vars, tables, network, items
  <1>12. QED
    BY <1>1, <1>2, <1>3, <1>4, <1>5, <1>6, <1>7, <1>8, <1>9, <1>10, <1>11, NextCases

\* Every reachable state of the session tables, of the network and of the item
\* ids has its type.
THEOREM TypeCorrect == Spec => []TypeOK
  <1>1. Init => TypeOK
    BY SessionAssumption DEF Init, TypeOK
  <1>2. QED
    BY <1>1, TypeOKInductive, PTL DEF Spec
-----------------------------------------------------------------------------
\* What Rebind leaves behind, for the two handlers that call it.
LEMMA RebindSound ==
    ASSUME TypeOK, ReverseIndexSound, NEW u \in Users, NEW p \in Sockets,
           socketToSteamId' = Rebind(u, p),
           u \in Active', activeSessions'[u].socket = p,
           \A v \in Users \ {u} : activeSessions'[v] = activeSessions[v]
    PROVE  ReverseIndexSound'
  <1> SUFFICES ASSUME NEW s \in Sockets, socketToSteamId'[s] # NoUser
               PROVE  /\ socketToSteamId'[s] \in Active'
                      /\ activeSessions'[socketToSteamId'[s]].socket = s
    BY DEF ReverseIndexSound
  <1>1. CASE s = p
    BY <1>1 DEF Rebind
  <1>2. CASE s # p
    <2>1. socketToSteamId'[s] = socketToSteamId[s]
      BY <1>2 DEF Rebind
    <2>2. /\ socketToSteamId[s] \in Active
          /\ activeSessions[socketToSteamId[s]].socket = s
      BY <2>1 DEF ReverseIndexSound
    <2>3. socketToSteamId[s] # u
      BY <1>2, <2>1, <2>2, SessionAssumption DEF Rebind
    <2>4. activeSessions'[socketToSteamId[s]] = activeSessions[socketToSteamId[s]]
      BY <2>2, <2>3 DEF Active
    <2>5. QED
      BY <2>1, <2>2, <2>4 DEF Active
  <1>3. QED
    BY <1>1, <1>2

\* Steps that leave the index alone and keep every session on its socket.
LEMMA SoundUnderSameSockets ==
    ASSUME ReverseIndexSound, UNCHANGED socketToSteamId,
           \A v \in Active : v \in Active' /\ activeSessions'[v].socket = activeSessions[v].socket
    PROVE  ReverseIndexSound'
  BY DEF ReverseIndexSound

\* Poll and tick change a session's cursor and idle time, never its socket.
LEMMA PollKeepsSockets ==
    ASSUME TypeOK, CheckNewItemsForActiveSessions \/ Tick
    PROVE  /\ Active' = Active
           /\ \A v \in Active : activeSessions'[v].socket = activeSessions[v].socket
           /\ UNCHANGED <<socketToSteamId, network>>
  <1>1. CASE CheckNewItemsForActiveSessions
    <2>2. ASSUME NEW v \in Users
          PROVE  /\ (v \in Active) = (v \in Active')
                 /\ v \in Active => activeSessions'[v].socket = activeSessions[v].socket
      <3>1. PICK i \in Nat, k \in 0..(Expiry + 1) :
              \/ activeSessions'[v] = activeSessions[v]
              \/ /\ v \in Active
                 /\ activeSessions[v] \in Session
                 /\ activeSessions'[v] =
                      [activeSessions[v] EXCEPT !.lastCheckedItemId = i, !.idle = k]
        BY <1>1, PollStep
      <3>2. CASE activeSessions'[v] = activeSessions[v]
        BY <3>2 DEF Active
      <3>3. CASE /\ v \in Active
                 /\ activeSessions[v] \in Session
                 /\ activeSessions'[v] =
                      [activeSessions[v] EXCEPT !.lastCheckedItemId = i, !.idle = k]
        <4>1. activeSessions'[v] \in Session
          BY <3>3, CursorUpdate, Zenon
        <4>2. activeSessions'[v].socket = activeSessions[v].socket
          BY <3>3 DEF Session
        <4>3. QED
          BY <3>3, <4>1, <4>2, NoSessionAssumption DEF Active
      <3>4. QED
        BY <3>1, <3>2, <3>3
    <2>3. QED
      BY <1>1, <2>2 DEF Active, CheckNewItemsForActiveSessions
  <1>2. CASE Tick
    BY <1>2, NoSessionAssumption, SessionAssumption DEF Tick, TypeOK, Session, Active
  <1>3. QED
    BY <1>1, <1>2
-----------------------------------------------------------------------------
LEMMA SoundInductive ==
    TypeOK /\ ReverseIndexSound /\ [Next]_vars => ReverseIndexSound'
  <1> SUFFICES ASSUME TypeOK, ReverseIndexSound, [Next]_vars PROVE ReverseIndexSound'
    OBVIOUS
  <1> USE NoSessionAssumption
  <1>1. ASSUME NEW u \in Users, NEW p \in Sockets, Connect(u, p)
        PROVE  ReverseIndexSound'
    BY <1>1 DEF Connect, tables, ReverseIndexSound, Active
  <1>2. ASSUME NEW u \in Users, NEW p \in Sockets, ReadAuthTicket(u, p)
        PROVE  ReverseIndexSound'
    <2>1. /\ u \in Active' /\ activeSessions'[u].socket = p
          /\ \A v \in Users \ {u} : activeSessions'[v] = activeSessions[v]
      BY <1>2, AuthSession DEF Active, TypeOK
    <2>2. QED
      BY <1>2, <2>1, RebindSound DEF ReadAuthTicket
  <1>3. ASSUME NEW p \in Sockets, Disconnect(p) PROVE ReverseIndexSound'
    BY <1>3 DEF Disconnect, tables, ReverseIndexSound, Active
  <1>4. ASSUME NEW u \in Users, GainItem(u) PROVE ReverseIndexSound'
    BY <1>4 DEF GainItem, tables, ReverseIndexSound, Active
  <1>5. ASSUME NEW u \in Users, NEW i \in 1..MaxItems, LoseItem(u, i)
        PROVE  ReverseIndexSound'
    BY <1>5 DEF LoseItem, tables, ReverseIndexSound, Active
  <1>6. ASSUME NEW e \in statusEvents, SocketStatusCallback(e) PROVE ReverseIndexSound'
    <2>1. /\ e.user \in Users /\ e.socket \in Sockets
          /\ e.user \in Active' /\ activeSessions'[e.user].socket = e.socket
          /\ \A v \in Users \ {e.user} : activeSessions'[v] = activeSessions[v]
      BY <1>6, StatusSession DEF Active, TypeOK
    <2>2. QED
      BY <1>6, <2>1, RebindSound DEF SocketStatusCallback
  <1>7. ASSUME CheckNewItemsForActiveSessions \/ Tick PROVE ReverseIndexSound'
    BY <1>7, PollKeepsSockets, SoundUnderSameSockets
  <1>8. ASSUME CleanupSessions PROVE ReverseIndexSound'
    <2>1. PICK kept \in SUBSET Active :
            /\ activeSessions' = [u \in Users |->
                 IF u \in kept THEN activeSessions[u] ELSE NoSession]
            /\ socketToSteamId' = [p \in Sockets |->
                 IF p \in {activeSessions[u].socket : u \in Active \ kept}
                 THEN NoUser ELSE socketToSteamId[p]]
      BY <1>8 DEF CleanupSessions, SurvivorSets, Young
    <2>2. QED
      BY <2>1, SessionAssumption DEF ReverseIndexSound, Active, TypeOK
  <1>9. ASSUME Restart PROVE ReverseIndexSound'
    BY <1>9 DEF Restart, ReverseIndexSound
  <1>10. ASSUME UNCHANGED vars PROVE ReverseIndexSound'
    BY <1>10 DEF vars, tables, ReverseIndexSound, Active
  <1>11. QED
    BY <1>1, <1>2, <1>3, <1>4, <1>5, <1>6, <1>7, <1>8, <1>9, <1>10, NextCases

\* A packet is never handled for a user whose session is gone or has moved to
\* another socket, and one user is never named by two sockets, whatever handles
\* Steam reuses and however late its callbacks are.
THEOREM ReverseIndexCorrect == Spec => []ReverseIndexSound
  <1>1. Init => ReverseIndexSound
    BY DEF Init, ReverseIndexSound
  <1>2. QED
    BY <1>1, SoundInductive, TypeCorrect, PTL DEF Spec
-----------------------------------------------------------------------------
(* With handles that are never reused. *)

\* What a user stands behind is kept by every step but a new connection and a
\* restart, and those leave no claim on the handle but the new user's.
LEMMA ClaimsKnownInductive ==
    ASSUME ~ReuseHandles, TypeOK, ClaimsKnown, [Next]_vars
    PROVE  ClaimsKnown'
  <1> USE NoSessionAssumption, SessionAssumption
  <1>1. ASSUME NEW u \in Users, NEW p \in Sockets, Connect(u, p) PROVE ClaimsKnown'
    <2>1. \A q \in Sockets, v \in Users :
            Claims(q, v)' => Claims(q, v) \/ (q = p /\ v = u)
      BY <1>1 DEF Connect, Claims, Active, tables, TypeOK
    <2>2. \A v \in Users : ~Claims(p, v)
      BY <1>1 DEF Connect, New
    <2>3. behind' = [behind EXCEPT ![p] = {u}]
      BY <1>1 DEF Connect
    <2>4. QED
      BY <2>1, <2>2, <2>3 DEF ClaimsKnown, TypeOK
  <1>2. ASSUME NEW u \in Users, NEW p \in Sockets, ReadAuthTicket(u, p) PROVE ClaimsKnown'
    <2>1. UNCHANGED <<peer, statusEvents>> /\ behind' = [behind EXCEPT ![p] = @ \cup {u}]
      BY <1>2 DEF ReadAuthTicket
    <2>2. /\ activeSessions'[u].socket = p
          /\ \A v \in Users \ {u} : activeSessions'[v] = activeSessions[v]
      BY <1>2, AuthSession DEF TypeOK
    <2>3. \A q \in Sockets, v \in Users :
            Claims(q, v)' => Claims(q, v) \/ (q = p /\ v = u)
      BY <2>1, <2>2 DEF Claims, Active
    <2>4. QED
      BY <2>1, <2>3 DEF ClaimsKnown, TypeOK
  <1>3. ASSUME NEW p \in Sockets, Disconnect(p) PROVE ClaimsKnown'
    BY <1>3 DEF Disconnect, ClaimsKnown, Claims, Active, tables, TypeOK
  <1>4. ASSUME NEW u \in Users, GainItem(u) PROVE ClaimsKnown'
    BY <1>4 DEF GainItem, ClaimsKnown, Claims, Active, tables, network
  <1>5. ASSUME NEW u \in Users, NEW i \in 1..MaxItems, LoseItem(u, i) PROVE ClaimsKnown'
    BY <1>5 DEF LoseItem, ClaimsKnown, Claims, Active, tables, network
  <1>6. ASSUME NEW e \in statusEvents, SocketStatusCallback(e) PROVE ClaimsKnown'
    <2>1. /\ statusEvents' = statusEvents \ {e}
          /\ UNCHANGED <<peer, behind>>
      BY <1>6 DEF SocketStatusCallback
    <2>2. /\ activeSessions'[e.user].socket = e.socket
          /\ \A v \in Users \ {e.user} : activeSessions'[v] = activeSessions[v]
      BY <1>6, StatusSession DEF TypeOK
    <2>3. \A q \in Sockets, v \in Users : Claims(q, v)' => Claims(q, v)
      BY <2>1, <2>2 DEF Claims, Active
    <2>4. QED
      BY <2>1, <2>3 DEF ClaimsKnown
  <1>7. ASSUME CheckNewItemsForActiveSessions \/ Tick PROVE ClaimsKnown'
    BY <1>7, PollKeepsSockets DEF ClaimsKnown, Claims, network
  <1>8. ASSUME CleanupSessions PROVE ClaimsKnown'
    <2> DEFINE young == {u \in Active : activeSessions[u].idle <= Expiry}
    <2>1. PICK kept \in SUBSET young :
            LET closed == {activeSessions[u].socket : u \in young \ kept} IN
            /\ activeSessions' = [u \in Users |->
                 IF u \in kept THEN activeSessions[u] ELSE NoSession]
            /\ peer' = [p \in Sockets |-> IF p \in closed THEN NoUser ELSE peer[p]]
            /\ \E reported \in SUBSET {p \in closed : peer[p] # NoUser} :
                 statusEvents' = statusEvents \cup
                   {[socket |-> p, user |-> peer[p], state |-> "closed"] : p \in reported}
            /\ behind' = behind
      BY <1>8 DEF CleanupSessions, SurvivorSets, Young
    <2>2. \A p \in Sockets : peer'[p] \in {peer[p], NoUser}
      BY <2>1
    <2>3. \A v \in Active' : v \in Active /\ activeSessions'[v] = activeSessions[v]
      BY <2>1 DEF Active
    <2>4. behind' = behind
      BY <2>1
    <2>5. \A e \in statusEvents' : e \in statusEvents \/ peer[e.socket] = e.user
      BY <2>1
    <2>6. QED
      BY <2>2, <2>3, <2>4, <2>5 DEF ClaimsKnown, Claims, TypeOK
  <1>9. ASSUME Restart PROVE ClaimsKnown'
    BY <1>9 DEF Restart, ClaimsKnown, Claims, Active
  <1>10. ASSUME UNCHANGED vars PROVE ClaimsKnown'
    BY <1>10 DEF vars, ClaimsKnown, Claims, Active, tables, network
  <1>11. QED
    BY <1>1, <1>2, <1>3, <1>4, <1>5, <1>6, <1>7, <1>8, <1>9, <1>10, NextCases

\* Rebind keeps the index complete: it takes over an entry only on a handle the
\* new user then stands behind, and erases one only on a handle he stood behind.
LEMMA RebindComplete ==
    ASSUME TypeOK, ReverseIndexComplete, ClaimsKnown,
           NEW u \in Users, NEW p \in Sockets, u \in behind'[p],
           \A q \in Sockets : behind[q] \subseteq behind'[q] /\ behind'[q] \subseteq behind[q] \cup {u},
           socketToSteamId' = Rebind(u, p),
           u \in Active', activeSessions'[u].socket = p,
           \A v \in Users \ {u} : activeSessions'[v] = activeSessions[v]
    PROVE  ReverseIndexComplete'
  <1> SUFFICES ASSUME NEW v \in Active', behind'[activeSessions'[v].socket] = {v}
               PROVE  socketToSteamId'[activeSessions'[v].socket] = v
    BY DEF ReverseIndexComplete
  <1>1. CASE v = u
    BY <1>1 DEF Rebind
  <1>2. CASE v # u
    <2>1. v \in Users /\ v \in Active /\ activeSessions'[v] = activeSessions[v]
      BY <1>2 DEF Active
    <2> DEFINE s == activeSessions[v].socket
    <2>2. s \in Sockets /\ v \in behind[s]
      BY <2>1 DEF TypeOK, Session, Active, Claims, ClaimsKnown
    <2>3. behind[s] = {v} /\ u \notin behind'[s]
      BY <1>2, <2>1, <2>2
    <2>4. socketToSteamId[s] = v
      BY <2>1, <2>3 DEF ReverseIndexComplete
    <2>5. s # p
      BY <2>3
    <2>6. u \in Active => activeSessions[u].socket # s
      BY <1>2, <2>2, <2>3 DEF ClaimsKnown, Claims
    <2>7. socketToSteamId'[s] = socketToSteamId[s]
      BY <2>2, <2>5, <2>6, SessionAssumption DEF Rebind, TypeOK
    <2>8. QED
      BY <2>1, <2>4, <2>7
  <1>3. QED
    BY <1>1, <1>2

LEMMA CompleteInductive ==
    ASSUME ~ReuseHandles, TypeOK, ClaimsKnown, ReverseIndexComplete, [Next]_vars
    PROVE  ReverseIndexComplete'
  <1> USE NoSessionAssumption
  <1>1. ASSUME NEW u \in Users, NEW p \in Sockets, Connect(u, p)
        PROVE  ReverseIndexComplete'
    <2>1. UNCHANGED <<activeSessions, socketToSteamId>> /\ behind' = [behind EXCEPT ![p] = {u}]
      BY <1>1 DEF Connect, tables
    <2>2. \A v \in Active : activeSessions[v].socket # p
      BY <1>1 DEF Connect, New, Claims, Active
    <2>3. QED
      BY <2>1, <2>2 DEF ReverseIndexComplete, Active, TypeOK, Session
  <1>2. ASSUME NEW u \in Users, NEW p \in Sockets, ReadAuthTicket(u, p)
        PROVE  ReverseIndexComplete'
    <2>1. /\ u \in Active' /\ activeSessions'[u].socket = p
          /\ \A v \in Users \ {u} : activeSessions'[v] = activeSessions[v]
      BY <1>2, AuthSession DEF Active, TypeOK
    <2>2. /\ u \in behind'[p]
          /\ \A q \in Sockets : behind[q] \subseteq behind'[q] /\ behind'[q] \subseteq behind[q] \cup {u}
      BY <1>2 DEF ReadAuthTicket, TypeOK
    <2>3. QED
      BY <1>2, <2>1, <2>2, RebindComplete DEF ReadAuthTicket
  <1>3. ASSUME NEW p \in Sockets, Disconnect(p) PROVE ReverseIndexComplete'
    BY <1>3 DEF Disconnect, tables, ReverseIndexComplete, Active
  <1>4. ASSUME NEW u \in Users, GainItem(u) PROVE ReverseIndexComplete'
    BY <1>4 DEF GainItem, tables, network, ReverseIndexComplete, Active
  <1>5. ASSUME NEW u \in Users, NEW i \in 1..MaxItems, LoseItem(u, i)
        PROVE  ReverseIndexComplete'
    BY <1>5 DEF LoseItem, tables, network, ReverseIndexComplete, Active
  <1>6. ASSUME NEW e \in statusEvents, SocketStatusCallback(e)
        PROVE  ReverseIndexComplete'
    <2>1. /\ e.user \in Users /\ e.socket \in Sockets
          /\ e.user \in Active' /\ activeSessions'[e.user].socket = e.socket
          /\ \A v \in Users \ {e.user} : activeSessions'[v] = activeSessions[v]
      BY <1>6, StatusSession DEF Active, TypeOK
    <2>2. behind' = behind /\ e.user \in behind[e.socket]
      BY <1>6, <2>1 DEF SocketStatusCallback, Claims, ClaimsKnown
    <2>3. QED
      BY <1>6, <2>1, <2>2, RebindComplete DEF SocketStatusCallback
  <1>7. ASSUME CheckNewItemsForActiveSessions \/ Tick PROVE ReverseIndexComplete'
    BY <1>7, PollKeepsSockets DEF ReverseIndexComplete, network
  <1>8. ASSUME CleanupSessions PROVE ReverseIndexComplete'
    <2>1. PICK kept \in SUBSET Active :
            /\ activeSessions' = [u \in Users |->
                 IF u \in kept THEN activeSessions[u] ELSE NoSession]
            /\ socketToSteamId' = [p \in Sockets |->
                 IF p \in {activeSessions[u].socket : u \in Active \ kept}
                 THEN NoUser ELSE socketToSteamId[p]]
            /\ behind' = behind
      BY <1>8 DEF CleanupSessions, SurvivorSets, Young
    <2>2. ASSUME NEW v \in Active', behind'[activeSessions'[v].socket] = {v}
          PROVE  socketToSteamId'[activeSessions'[v].socket] = v
      <3>1. v \in kept /\ v \in Active /\ activeSessions'[v] = activeSessions[v]
        BY <2>1 DEF Active
      <3>2. activeSessions[v].socket \in Sockets
        BY <3>1 DEF TypeOK, Active, Session
      <3>3. \A u \in Active \ kept : activeSessions[u].socket # activeSessions[v].socket
        BY <2>1, <2>2, <3>1, <3>2 DEF ClaimsKnown, Claims, Active
      <3>4. QED
        BY <2>1, <2>2, <3>1, <3>2, <3>3 DEF ReverseIndexComplete
    <2>3. QED
      BY <2>2 DEF ReverseIndexComplete
  <1>9. ASSUME Restart PROVE ReverseIndexComplete'
    BY <1>9 DEF Restart, ReverseIndexComplete, Active
  <1>10. ASSUME UNCHANGED vars PROVE ReverseIndexComplete'
    BY <1>10 DEF vars, tables, network, ReverseIndexComplete, Active
  <1>11. QED
    BY <1>1, <1>2, <1>3, <1>4, <1>5, <1>6, <1>7, <1>8, <1>9, <1>10, NextCases

\* If Steam never hands a handle out twice then only users who have stood behind a
\* handle are taken to be at it, and a session whose handle nobody else has stood
\* behind is led back to, whatever tickets come in on whatever connections.
THEOREM BidirectionalWithoutReuse ==
    ASSUME ~ReuseHandles
    PROVE  Spec => [](ClaimsKnown /\ ReverseIndexComplete)
  <1>1. Init => ClaimsKnown /\ ReverseIndexComplete
    BY SessionAssumption DEF Init, ClaimsKnown, ReverseIndexComplete, Claims, Active
  <1>2. TypeOK /\ (ClaimsKnown /\ ReverseIndexComplete) /\ [Next]_vars
          => (ClaimsKnown /\ ReverseIndexComplete)'
    BY ClaimsKnownInductive, CompleteInductive
  <1>3. QED
    BY <1>1, <1>2, TypeCorrect, PTL DEF Spec

\* If Steam never hands a handle out twice then no request is handled for the
\* session of a user who was never at the other end of its connection and had no
\* ticket accepted on it.
THEOREM RequestsActForTheirUsers ==
    ASSUME ~ReuseHandles
    PROVE  Spec => []RequestActsForItsUsers
  <1>1. TypeOK /\ ReverseIndexSound /\ ClaimsKnown => RequestActsForItsUsers
    BY DEF RequestActsForItsUsers, GetSessionSteamId, ReverseIndexSound, ClaimsKnown,
           Claims, TypeOK
  <1>2. QED
    BY <1>1, BidirectionalWithoutReuse, ReverseIndexCorrect, TypeCorrect, PTL
-----------------------------------------------------------------------------
(* The poll cursor. *)

\* What makes CursorBelowNewItems inductive: every id in the table has been
\* assigned, and the cursor of any session, authenticated or not, is an assigned
\* id or 0.
CursorInv ==
    /\ \A u \in Users : \A i \in ownedItems[u] : i < nextItemId
    /\ \A u \in Active : /\ activeSessions[u].lastCheckedItemId < nextItemId
                         /\ activeSessions[u].isAuthenticated
                              => activeSessions[u].itemIdInitialized

\* A step relates every surviving session to what it was.
CursorStep(u) ==
    \/ activeSessions'[u].lastCheckedItemId = 0 /\ ~activeSessions'[u].isAuthenticated
       /\ u \notin Active
    \/ /\ u \in Active
       /\ activeSessions'[u].lastCheckedItemId = activeSessions[u].lastCheckedItemId
       /\ activeSessions'[u].itemIdInitialized = activeSessions[u].itemIdInitialized
       /\ activeSessions'[u].isAuthenticated = activeSessions[u].isAuthenticated
    \/ /\ u \in Active /\ activeSessions[u].itemIdInitialized
       /\ activeSessions'[u].itemIdInitialized
       /\ activeSessions'[u].lastCheckedItemId = activeSessions[u].lastCheckedItemId
    \/ /\ ~(u \in Active /\ activeSessions[u].itemIdInitialized)
       /\ activeSessions'[u].itemIdInitialized
       /\ activeSessions'[u].lastCheckedItemId \in ownedItems[u] \cup {0}
    \/ /\ u \in Active
       /\ activeSessions'[u].itemIdInitialized = activeSessions[u].itemIdInitialized
       /\ activeSessions'[u].isAuthenticated = activeSessions[u].isAuthenticated
       /\ activeSessions'[u].lastCheckedItemId \in ownedItems[u]
       /\ activeSessions'[u].lastCheckedItemId > activeSessions[u].lastCheckedItemId

LEMMA CursorSteps ==
    ASSUME TypeOK, [Next]_vars, NEW u \in Active'
    PROVE  CursorStep(u)
  <1> USE NoSessionAssumption
  <1>0. u \in Users
    BY DEF Active
  <1>1. ASSUME NEW v \in Users, NEW p \in Sockets, Connect(v, p) PROVE CursorStep(u)
    BY <1>1 DEF Connect, tables, CursorStep, Active
  <1>2. ASSUME NEW v \in Users, NEW p \in Sockets, ReadAuthTicket(v, p)
        PROVE  CursorStep(u)
    <2>1. CASE u = v
      <3>1. \/ /\ u \in Active /\ activeSessions[u].itemIdInitialized
               /\ activeSessions'[u].lastCheckedItemId = activeSessions[u].lastCheckedItemId
            \/ /\ ~(u \in Active /\ activeSessions[u].itemIdInitialized)
               /\ activeSessions'[u].lastCheckedItemId \in LatestItemIds(u)
        BY <1>2, <2>1, AuthSession
      <3>2. activeSessions'[u].itemIdInitialized
        BY <1>2, <2>1, AuthSession
      <3>3. LatestItemIds(u) \subseteq ownedItems[u] \cup {0}
        BY DEF LatestItemIds
      <3>4. QED
        BY <3>1, <3>2, <3>3 DEF CursorStep
    <2>2. CASE u # v
      BY <1>0, <1>2, <2>2, AuthSession DEF CursorStep, Active, TypeOK
    <2>3. QED
      BY <2>1, <2>2
  <1>3. ASSUME NEW p \in Sockets, Disconnect(p) PROVE CursorStep(u)
    BY <1>3 DEF Disconnect, tables, CursorStep, Active
  <1>4. ASSUME NEW v \in Users, GainItem(v) PROVE CursorStep(u)
    BY <1>4 DEF GainItem, tables, CursorStep, Active
  <1>5. ASSUME NEW v \in Users, NEW i \in 1..MaxItems, LoseItem(v, i)
        PROVE  CursorStep(u)
    BY <1>5 DEF LoseItem, tables, CursorStep, Active
  <1>6. ASSUME NEW e \in statusEvents, SocketStatusCallback(e) PROVE CursorStep(u)
    <2>1. CASE u = e.user /\ u \in Active
      <3>1. activeSessions[u] \in Session
        BY <2>1 DEF Active, TypeOK
      <3>2. activeSessions'[u] =
              [activeSessions[u] EXCEPT !.socket = e.socket, !.idle = 0]
        BY <1>6, <2>1, StatusSession
      <3>3. /\ activeSessions'[u].lastCheckedItemId = activeSessions[u].lastCheckedItemId
            /\ activeSessions'[u].itemIdInitialized = activeSessions[u].itemIdInitialized
            /\ activeSessions'[u].isAuthenticated = activeSessions[u].isAuthenticated
        BY <3>1, <3>2 DEF Session
      <3>4. QED
        BY <2>1, <3>3, Zenon DEF CursorStep
    <2>2. CASE u = e.user /\ u \notin Active
      <3>1. activeSessions'[u] =
              [socket |-> e.socket, isAuthenticated |-> FALSE, idle |-> 0,
               lastCheckedItemId |-> 0, itemIdInitialized |-> FALSE]
        BY <1>0, <1>6, <2>2 DEF SocketStatusCallback, TypeOK
      <3>2. /\ activeSessions'[u].lastCheckedItemId = 0
            /\ ~activeSessions'[u].isAuthenticated
        BY <3>1
      <3>3. QED
        BY <2>2, <3>2, Zenon DEF CursorStep
    <2>3. CASE u # e.user
      BY <1>0, <1>6, <2>3, StatusSession DEF CursorStep, Active, TypeOK
    <2>4. QED
      BY <2>1, <2>2, <2>3
  <1>7. ASSUME CheckNewItemsForActiveSessions PROVE CursorStep(u)
    <2>1. PICK i \in Nat, k \in 0..(Expiry + 1) :
              \/ activeSessions'[u] = activeSessions[u]
              \/ /\ u \in Active
                 /\ activeSessions[u] \in Session
                 /\ i \in ownedItems[u]
                 /\ i > activeSessions[u].lastCheckedItemId
                 /\ activeSessions'[u] =
                      [activeSessions[u] EXCEPT !.lastCheckedItemId = i, !.idle = k]
      BY <1>0, <1>7, PollStep
    <2>2. CASE activeSessions'[u] = activeSessions[u]
      BY <2>2 DEF CursorStep, Active
    <2>3. CASE activeSessions'[u] # activeSessions[u]
      <3>1. /\ u \in Active
            /\ activeSessions[u] \in Session
            /\ i \in ownedItems[u]
            /\ i > activeSessions[u].lastCheckedItemId
            /\ activeSessions'[u] =
                 [activeSessions[u] EXCEPT !.lastCheckedItemId = i, !.idle = k]
        BY <2>1, <2>3, Zenon
      <3>2. /\ activeSessions'[u].lastCheckedItemId = i
            /\ activeSessions'[u].itemIdInitialized = activeSessions[u].itemIdInitialized
            /\ activeSessions'[u].isAuthenticated = activeSessions[u].isAuthenticated
        BY <3>1 DEF Session
      <3>3. QED
        BY <3>1, <3>2, Zenon DEF CursorStep
    <2>4. QED
      BY <2>2, <2>3
  <1>8. ASSUME CleanupSessions PROVE CursorStep(u)
    <2>1. PICK kept \in SUBSET Active :
            activeSessions' = [v \in Users |->
                 IF v \in kept THEN activeSessions[v] ELSE NoSession]
      BY <1>8 DEF CleanupSessions, SurvivorSets, Young
    <2>2. QED
      BY <2>1 DEF CursorStep, Active
  <1>9. ASSUME Tick PROVE CursorStep(u)
    BY <1>0, <1>9 DEF Tick, CursorStep, Active, TypeOK, Session
  <1>10. ASSUME Restart PROVE CursorStep(u)
    BY <1>10 DEF Restart, Active
  <1>11. ASSUME UNCHANGED vars PROVE CursorStep(u)
    BY <1>11 DEF vars, tables, CursorStep, Active
  <1>12. QED
    BY <1>1, <1>2, <1>3, <1>4, <1>5, <1>6, <1>7, <1>8, <1>9, <1>10, <1>11, NextCases

LEMMA ItemsAssigned ==
    ASSUME TypeOK, CursorInv, [Next]_vars
    PROVE  /\ nextItemId' >= nextItemId
           /\ \A u \in Users : \A i \in ownedItems'[u] : i < nextItemId'
  <1>1. ASSUME NEW u \in Users, GainItem(u) PROVE
           /\ nextItemId' >= nextItemId
           /\ \A v \in Users : \A i \in ownedItems'[v] : i < nextItemId'
    BY <1>1, SessionAssumption DEF GainItem, CursorInv, TypeOK
  <1>2. ASSUME NEW u \in Users, NEW i \in 1..MaxItems, LoseItem(u, i) PROVE
           /\ nextItemId' >= nextItemId
           /\ \A v \in Users : \A j \in ownedItems'[v] : j < nextItemId'
    BY <1>2, SessionAssumption DEF LoseItem, CursorInv, TypeOK
  <1>3. CASE UNCHANGED items
    BY <1>3, SessionAssumption DEF items, CursorInv, TypeOK
  <1>4. QED
    BY <1>1, <1>2, <1>3 DEF Next, Connect, ReadAuthTicket, Disconnect, SocketStatusCallback,
       CheckNewItemsForActiveSessions, CleanupSessions, Tick, Restart, vars

LEMMA CursorInductive ==
    ASSUME TypeOK, CursorInv, [Next]_vars
    PROVE  CursorInv'
  <1>1. ASSUME NEW u \in Active'
        PROVE  /\ activeSessions'[u].lastCheckedItemId < nextItemId'
               /\ activeSessions'[u].isAuthenticated => activeSessions'[u].itemIdInitialized
    <2>1. CursorStep(u)
      BY CursorSteps
    <2>2. u \in Users /\ nextItemId \in Nat /\ nextItemId' \in Nat /\ nextItemId > 0
      BY SessionAssumption, TypeOKInductive DEF Active, TypeOK
    <2>3. nextItemId' >= nextItemId
      BY ItemsAssigned
    <2>4. u \in Active => activeSessions[u].lastCheckedItemId \in Nat
      BY DEF TypeOK, Active, Session
    <2>5. activeSessions'[u].lastCheckedItemId \in Nat
      BY TypeOKInductive, <2>2 DEF TypeOK, Active, Session
    <2>6. \A i \in ownedItems[u] : i \in Nat /\ i < nextItemId
      BY <2>2, SessionAssumption DEF TypeOK, CursorInv
    <2>7. QED
      BY <2>1, <2>2, <2>3, <2>4, <2>5, <2>6 DEF CursorStep, CursorInv
  <1>2. QED
    BY <1>1, ItemsAssigned DEF CursorInv

\* Whatever logins, reconnects, failed queries and deletions happen, the cursor of
\* an authenticated session stays below every id still to be assigned.
THEOREM CursorCorrect == Spec => []CursorBelowNewItems
  <1>1. Init => CursorInv
    BY SessionAssumption DEF Init, CursorInv, Active
  <1>2. CursorInv => CursorBelowNewItems
    BY DEF CursorInv, CursorBelowNewItems
  <1>3. QED
    BY <1>1, <1>2, CursorInductive, TypeCorrect, PTL DEF Spec

\* The cursor of a session never moves back while the session lasts.
THEOREM CursorMonotone == Spec => CursorNeverRewinds
  <1> DEFINE Forward == \A u \in Users :
         (/\ u \in Active /\ activeSessions[u].itemIdInitialized
          /\ activeSessions'[u] # NoSession)
         => /\ activeSessions'[u].itemIdInitialized
            /\ activeSessions'[u].lastCheckedItemId >= activeSessions[u].lastCheckedItemId
  <1>1. ASSUME TypeOK, [Next]_vars PROVE Forward
    <2> SUFFICES ASSUME NEW u \in Users, u \in Active, activeSessions[u].itemIdInitialized,
                        activeSessions'[u] # NoSession
                 PROVE  /\ activeSessions'[u].itemIdInitialized
                        /\ activeSessions'[u].lastCheckedItemId
                             >= activeSessions[u].lastCheckedItemId
      OBVIOUS
    <2>1. CursorStep(u)
      BY <1>1, CursorSteps DEF Active
    <2>2. activeSessions[u].lastCheckedItemId \in Nat
      BY <1>1 DEF TypeOK, Active, Session
    <2>3. activeSessions'[u].lastCheckedItemId \in Nat
      BY <1>1, TypeOKInductive DEF TypeOK, Session
    <2>4. activeSessions'[u].itemIdInitialized
      BY <2>1, Zenon DEF CursorStep
    <2>5. \/ activeSessions'[u].lastCheckedItemId = activeSessions[u].lastCheckedItemId
          \/ activeSessions'[u].lastCheckedItemId > activeSessions[u].lastCheckedItemId
      BY <2>1, Zenon DEF CursorStep
    <2>6. QED
      BY <2>2, <2>3, <2>4, <2>5
  <1>2. TypeOK /\ [Next]_vars => [Forward]_vars
    BY <1>1
  <1>3. QED
    BY <1>2, TypeCorrect, PTL DEF Spec, CursorNeverRewinds
=============================================================================
