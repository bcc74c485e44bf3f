----------------------------- MODULE LobbyProofs -----------------------------
(***************************************************************************)
(* What holds of the queue and the matches for any number of players,      *)
(* servers and threads, whichever of them wait for each other.             *)
(***************************************************************************)
EXTENDS Lobby, TLAPS

\* Matches that have not been made yet.
Unmade == \A m \in Matches : m >= nextMatchId => activeMatches[m] = NoMatch

Inv == TypeOK /\ Unmade /\ MapSound /\ BegunAccepted
-----------------------------------------------------------------------------
\* The steps by what they change besides the threads' own variables.
LEMMA NextCases ==
    ASSUME [Next]_vars, NEW ACTION P,
           \A t \in Threads, p \in Players :
               HandleMatchmakingStart(t, p) \/ HandleMatchmakingStop(t, p) \/ DeclineMatch(t, p) => P,
           \A t \in Threads, p \in Players : AcceptMatch(t, p) => P,
           \A t \in Threads :
               \/ ProcessMatchmakingQueue(t) \/ RemovePlayerFromQueue(t) \/ FindMatchCandidates(t)
               \/ NoServer(t) \/ UnqueueMatched(t) \/ CheckReadyUpTimeouts(t) \/ Proceed(t)
               => P,
           \A t \in Threads : AddPlayerToQueue(t) => P,
           \A t \in Threads : StoreMatch(t) => P,
           \A t \in Threads : CancelMatchInternal(t) => P,
           \A s \in Servers : RegisterServer(s) \/ UnregisterServer(s) => P,
           UNCHANGED vars => P
    PROVE  P
BY DEF Next, Step, Handle, Threads

\* A thread that goes on is at some step of an operation.
LEMMA PcTyped ==
    ASSUME TypeOK, NEW t \in Threads,
           \/ Return(t)
           \/ \E step \in {"idle", "remove", "push", "find", "store", "unqueue",
                           "return", "cancel", "declining"} : GoTo(t, step)
    PROVE  pc' \in [Threads -> {"idle", "remove", "push", "find", "store", "unqueue",
                                "return", "cancel", "declining"}]
BY DEF TypeOK, GoTo, Return

\* The members of a match are entries, and no match that is there is NoMatch.
LEMMA MatchFields ==
    ASSUME NEW m \in Match
    PROVE  m.members \subseteq Entries /\ m.state \in {"waiting", "inProgress"} /\ m # NoMatch
BY LobbyAssumption DEF Match

\* A match that begins is the same match.
LEMMA BegunMatch ==
    ASSUME NEW m \in Match
    PROVE  /\ [m EXCEPT !.state = "inProgress"] \in Match
           /\ [m EXCEPT !.state = "inProgress"].members = m.members
           /\ [m EXCEPT !.state = "inProgress"].state = "inProgress"
BY DEF Match

\* The requests and the steps that leave entries and matches alone keep the types.
LEMMA ThreadsTyped ==
    ASSUME TypeOK, NEW t \in Threads,
           \/ \E p \in Players : \/ HandleMatchmakingStart(t, p) \/ HandleMatchmakingStop(t, p)
                                 \/ DeclineMatch(t, p)
           \/ ProcessMatchmakingQueue(t) \/ RemovePlayerFromQueue(t) \/ FindMatchCandidates(t)
           \/ NoServer(t) \/ UnqueueMatched(t) \/ CheckReadyUpTimeouts(t) \/ Proceed(t)
    PROVE  /\ TypeOK'
           /\ UNCHANGED <<accepted, activeMatches, playerToMatch, nextMatchId>>
<1> DEFINE Goal == TypeOK' /\ UNCHANGED <<accepted, activeMatches, playerToMatch, nextMatchId>>
<1>1. ASSUME NEW p \in Players, HandleMatchmakingStart(t, p) PROVE Goal
  <2>1. GoTo(t, "remove") /\ player' = [player EXCEPT ![t] = p]
        /\ UNCHANGED <<shared, servers, found, requeue, toCancel>>
    BY <1>1 DEF HandleMatchmakingStart
  <2>2. QED
    BY <2>1, PcTyped DEF TypeOK, shared
<1>2. ASSUME NEW p \in Players, HandleMatchmakingStop(t, p) PROVE Goal
  BY <1>2 DEF HandleMatchmakingStop, TypeOK, WithoutFirstBracket, threads
<1>3. ASSUME NEW p \in Players, DeclineMatch(t, p) PROVE Goal
  <2>1. GoTo(t, "declining") /\ UNCHANGED <<shared, servers, player, found, requeue, toCancel>>
    BY <1>3 DEF DeclineMatch
  <2>2. QED
    BY <2>1, PcTyped DEF TypeOK, shared
<1>4. ASSUME ProcessMatchmakingQueue(t) PROVE Goal
  <2>1. GoTo(t, "find") /\ UNCHANGED <<shared, servers, player, found, requeue, toCancel>>
    BY <1>4 DEF ProcessMatchmakingQueue
  <2>2. QED
    BY <2>1, PcTyped DEF TypeOK, shared
<1>5. ASSUME RemovePlayerFromQueue(t) PROVE Goal
  <2>1. GoTo(t, "push") /\ queue' \subseteq queue
        /\ UNCHANGED <<accepted, activeMatches, playerToMatch, nextMatchId, servers,
                       player, found, requeue, toCancel>>
    BY <1>5 DEF RemovePlayerFromQueue, WithoutFirstBracket
  <2>2. QED
    BY <2>1, PcTyped DEF TypeOK
<1>6. ASSUME FindMatchCandidates(t) PROVE Goal
  <2>1. GoTo(t, "store") \/ Return(t)
    BY <1>6 DEF FindMatchCandidates
  <2>2. UNCHANGED found \/ \E S \in SUBSET queue : found' = [found EXCEPT ![t] = S]
    BY <1>6 DEF FindMatchCandidates
  <2>3. found' \in [Threads -> SUBSET Entries]
    BY <2>2 DEF TypeOK
  <2>4. UNCHANGED <<shared, servers, player, requeue, toCancel>>
    BY <1>6 DEF FindMatchCandidates
  <2>5. QED
    BY <2>1, <2>3, <2>4, PcTyped DEF TypeOK, shared
<1>7. ASSUME NoServer(t) PROVE Goal
  <2>1. Return(t) /\ found' = [found EXCEPT ![t] = {}]
        /\ UNCHANGED <<shared, servers, player, requeue, toCancel>>
    BY <1>7 DEF NoServer
  <2>2. QED
    BY <2>1, PcTyped DEF TypeOK, shared
<1>8. ASSUME UnqueueMatched(t) PROVE Goal
  <2>1. GoTo(t, "find") /\ found' = [found EXCEPT ![t] = {}] /\ queue' \subseteq queue
        /\ UNCHANGED <<accepted, activeMatches, playerToMatch, nextMatchId, servers,
                       player, requeue, toCancel>>
    BY <1>8 DEF UnqueueMatched
  <2>2. QED
    BY <2>1, PcTyped DEF TypeOK
<1>9. ASSUME CheckReadyUpTimeouts(t) PROVE Goal
  <2>1. PICK late \in SUBSET Matches : toCancel' = [toCancel EXCEPT ![t] = late]
    BY <1>9 DEF CheckReadyUpTimeouts
  <2>2. GoTo(t, "cancel") /\ UNCHANGED <<shared, servers, player, found, requeue>>
    BY <1>9 DEF CheckReadyUpTimeouts
  <2>3. QED
    BY <2>1, <2>2, PcTyped DEF TypeOK, shared
<1>10. ASSUME Proceed(t) PROVE Goal
  <2>1. GoTo(t, "remove") \/ GoTo(t, "idle") \/ GoTo(t, "cancel")
    BY <1>10 DEF Proceed
  <2>2. \/ UNCHANGED <<player, requeue>>
        \/ \E e \in requeue[t] : /\ player' = [player EXCEPT ![t] = e[1]]
                                 /\ requeue' = [requeue EXCEPT ![t] = @ \ {e}]
    BY <1>10 DEF Proceed
  <2>3. player' \in [Threads -> Players \cup {NoPlayer}] /\ requeue' \in [Threads -> SUBSET Entries]
    BY <2>2 DEF TypeOK, Entries
  <2>4. UNCHANGED <<shared, servers, found, toCancel>>
    BY <1>10 DEF Proceed
  <2>5. QED
    BY <2>1, <2>3, <2>4, PcTyped DEF TypeOK, shared
<1>11. QED
  BY <1>1, <1>2, <1>3, <1>4, <1>5, <1>6, <1>7, <1>8, <1>9, <1>10

\* The invariant looks at entries and matches only.
LEMMA SharedOnly ==
    ASSUME Inv, TypeOK', UNCHANGED <<accepted, activeMatches, playerToMatch, nextMatchId>>
    PROVE  Inv'
BY DEF Inv, Unmade, MapSound, BegunAccepted, Members, EntriesOf

\* The entry that is added is in no match, so that what it had accepted before it was
\* freed is nobody's acceptance.
LEMMA AddPlayerToQueueInductive ==
    ASSUME Inv, NEW t \in Threads, AddPlayerToQueue(t)
    PROVE  Inv'
<1>1. /\ UNCHANGED <<activeMatches, playerToMatch, nextMatchId, servers, found, requeue, toCancel>>
      /\ player' = [player EXCEPT ![t] = NoPlayer]
      /\ GoTo(t, "find")
  BY DEF AddPlayerToQueue
<1>2. PICK entry \in EntriesOf(player[t]) \ Alive :
         accepted' = accepted \ {entry} /\ queue' = queue \cup {entry}
  BY DEF AddPlayerToQueue
<1>3. entry \in Entries
  BY <1>2 DEF EntriesOf
<1>4. \A m \in Matches : activeMatches[m] # NoMatch => entry \notin activeMatches[m].members
  BY <1>2, <1>3 DEF Alive
<1>5. TypeOK'
  <2>1. pc' \in [Threads -> {"idle", "remove", "push", "find", "store", "unqueue",
                             "return", "cancel", "declining"}]
    BY <1>1, PcTyped DEF Inv
  <2>2. QED
    BY <1>1, <1>2, <1>3, <2>1 DEF Inv, TypeOK
<1>6. Unmade' /\ MapSound'
  BY <1>1 DEF Inv, Unmade, MapSound, Members, EntriesOf
<1>7. BegunAccepted'
  BY <1>1, <1>2, <1>4 DEF Inv, BegunAccepted
<1>8. QED
  BY <1>5, <1>6, <1>7 DEF Inv

\* A new match maps its players to itself, and no other match is touched.
LEMMA StoreMatchInductive ==
    ASSUME Inv, NEW t \in Threads, StoreMatch(t)
    PROVE  Inv'
<1> DEFINE new == [members |-> found[t], state |-> "waiting"]
<1>1. /\ nextMatchId <= MaxMatches
      /\ activeMatches' = [activeMatches EXCEPT ![nextMatchId] = new]
      /\ playerToMatch' = [p \in Players |->
            IF p \in PlayersOf(found[t]) THEN nextMatchId ELSE playerToMatch[p]]
      /\ nextMatchId' = nextMatchId + 1
      /\ GoTo(t, "unqueue")
      /\ UNCHANGED <<accepted, queue, servers, player, found, requeue, toCancel>>
  BY DEF StoreMatch
<1>2. nextMatchId \in Matches /\ nextMatchId \in Nat /\ MaxMatches \in Nat /\ Matches \subseteq Nat
  BY <1>1, LobbyAssumption DEF Inv, TypeOK, Matches
<1>3. found[t] \subseteq Entries /\ new \in Match /\ new.members = found[t] /\ new.state = "waiting"
  BY DEF Inv, TypeOK, Match
<1>4. /\ activeMatches[nextMatchId] = NoMatch /\ activeMatches'[nextMatchId] = new
      /\ \A m \in Matches : m # nextMatchId => activeMatches'[m] = activeMatches[m]
  BY <1>1, <1>2 DEF Inv, Unmade, TypeOK
<1> HIDE DEF new
<1>5. TypeOK'
  <2>1. pc' \in [Threads -> {"idle", "remove", "push", "find", "store", "unqueue",
                             "return", "cancel", "declining"}]
    BY <1>1, PcTyped DEF Inv
  <2>2. nextMatchId' \in 1..(MaxMatches + 1)
    BY <1>1, <1>2 DEF Matches
  <2>3. activeMatches' \in [Matches -> Match \cup {NoMatch}]
    BY <1>1, <1>2, <1>3 DEF Inv, TypeOK
  <2>4. playerToMatch' \in [Players -> Matches \cup {0}]
    BY <1>1, <1>2 DEF Inv, TypeOK
  <2>5. QED
    BY <1>1, <2>1, <2>2, <2>3, <2>4 DEF Inv, TypeOK
<1>6. Unmade'
  BY <1>1, <1>2, <1>4 DEF Inv, Unmade
<1>7. \A p \in Players : EntriesOf(p)' = EntriesOf(p)
  BY <1>1 DEF EntriesOf
<1>8. ASSUME NEW p \in Players, playerToMatch'[p] # 0
      PROVE  /\ activeMatches'[playerToMatch'[p]] # NoMatch
             /\ activeMatches'[playerToMatch'[p]].members \cap EntriesOf(p) # {}
  <2>1. CASE p \in PlayersOf(found[t])
    <3>1. PICK e \in found[t] : e[1] = p
      BY <2>1 DEF PlayersOf
    <3>2. playerToMatch'[p] = nextMatchId /\ e \in EntriesOf(p)
      BY <1>1, <1>3, <2>1, <3>1 DEF EntriesOf
    <3>3. QED
      BY <1>3, <1>4, <3>1, <3>2, MatchFields
  <2>2. CASE p \notin PlayersOf(found[t])
    <3>1. playerToMatch'[p] = playerToMatch[p]
      BY <1>1, <2>2
    <3>2. /\ playerToMatch[p] \in Matches /\ activeMatches[playerToMatch[p]] # NoMatch
          /\ Members(playerToMatch[p], p) # {}
      BY <1>8, <3>1 DEF Inv, MapSound, TypeOK
    <3>3. playerToMatch[p] # nextMatchId
      BY <1>4, <3>2
    <3>4. QED
      BY <1>4, <3>1, <3>2, <3>3 DEF Members
  <2>3. QED
    BY <2>1, <2>2
<1>9. MapSound'
  BY <1>7, <1>8 DEF MapSound, Members
<1>10. BegunAccepted'
  BY <1>1, <1>3, <1>4 DEF Inv, BegunAccepted
<1>11. QED
  BY <1>5, <1>6, <1>9, <1>10 DEF Inv

\* An acceptance that is the last one begins the match and changes no member.
LEMMA AcceptMatchInductive ==
    ASSUME Inv, NEW t \in Threads, NEW p \in Players, AcceptMatch(t, p)
    PROVE  Inv'
<1>1. UNCHANGED <<queue, playerToMatch, nextMatchId, servers, threads>>
  BY DEF AcceptMatch
<1>2. PICK m \in Matches, e \in Entries :
         /\ Waits(m) /\ e \in Members(m, p)
         /\ accepted' = accepted \cup {e}
         /\ activeMatches' = IF AllPlayersAccepted(m, accepted')
               THEN [activeMatches EXCEPT ![m].state = "inProgress"] ELSE activeMatches
  BY DEF AcceptMatch, Members, EntriesOf
<1>3. activeMatches[m] \in Match /\ e \in Entries
  BY <1>2 DEF Inv, TypeOK, Waits
<1>4. /\ activeMatches' \in [Matches -> Match \cup {NoMatch}]
      /\ \A n \in Matches : /\ activeMatches'[n] = NoMatch <=> activeMatches[n] = NoMatch
                            /\ activeMatches'[n].members = activeMatches[n].members
                            /\ \/ activeMatches'[n] = activeMatches[n]
                               \/ n = m /\ AllPlayersAccepted(m, accepted')
  <2>1. CASE AllPlayersAccepted(m, accepted')
    <3>1. activeMatches' = [activeMatches EXCEPT ![m] = [activeMatches[m] EXCEPT !.state = "inProgress"]]
      BY <1>2, <2>1
    <3>2. /\ [activeMatches[m] EXCEPT !.state = "inProgress"] \in Match
          /\ [activeMatches[m] EXCEPT !.state = "inProgress"].members = activeMatches[m].members
      BY <1>3, BegunMatch
    <3>3. /\ activeMatches'[m] = [activeMatches[m] EXCEPT !.state = "inProgress"]
          /\ \A n \in Matches : n # m => activeMatches'[n] = activeMatches[n]
      BY <3>1 DEF Inv, TypeOK
    <3>4. activeMatches'[m] # NoMatch /\ activeMatches[m] # NoMatch
      BY <1>3, <3>2, <3>3, MatchFields
    <3>5. activeMatches' \in [Matches -> Match \cup {NoMatch}]
      BY <3>1, <3>2 DEF Inv, TypeOK
    <3>6. QED
      BY <2>1, <3>2, <3>3, <3>4, <3>5
  <2>2. CASE ~AllPlayersAccepted(m, accepted')
    BY <1>2, <2>2 DEF Inv, TypeOK
  <2>3. QED
    BY <2>1, <2>2
<1>5. TypeOK'
  BY <1>1, <1>2, <1>3, <1>4 DEF Inv, TypeOK, threads
<1>6. Unmade'
  BY <1>1, <1>4 DEF Inv, Unmade
<1>7. MapSound'
  <2>1. ASSUME NEW q \in Players, playerToMatch[q] # 0
        PROVE  /\ activeMatches'[playerToMatch[q]] # NoMatch
               /\ activeMatches'[playerToMatch[q]].members \cap EntriesOf(q) # {}
    <3>1. /\ playerToMatch[q] \in Matches /\ activeMatches[playerToMatch[q]] # NoMatch
          /\ Members(playerToMatch[q], q) # {}
      BY <2>1 DEF Inv, MapSound, TypeOK
    <3>2. QED
      BY <1>4, <3>1 DEF Members
  <2>2. QED
    BY <1>1, <2>1 DEF MapSound, Members, EntriesOf
<1>8. BegunAccepted'
  <2>1. ASSUME NEW n \in Matches, activeMatches'[n] # NoMatch, activeMatches'[n].state = "inProgress"
        PROVE  activeMatches'[n].members \subseteq accepted'
    <3>1. CASE activeMatches'[n] = activeMatches[n]
      BY <1>2, <2>1, <3>1 DEF Inv, BegunAccepted
    <3>2. CASE n = m /\ AllPlayersAccepted(m, accepted')
      BY <1>4, <3>2 DEF AllPlayersAccepted
    <3>3. QED
      BY <1>4, <3>1, <3>2
  <2>2. QED
    BY <2>1 DEF BegunAccepted
<1>9. QED
  BY <1>5, <1>6, <1>7, <1>8 DEF Inv

\* With a match goes every mapping to it.
LEMMA CancelMatchInductive ==
    ASSUME Inv, NEW t \in Threads, CancelMatchInternal(t)
    PROVE  Inv'
<1>1. /\ GoTo(t, "return")
      /\ UNCHANGED <<accepted, queue, nextMatchId, servers, player, found>>
  BY DEF CancelMatchInternal
<1>2. PICK m \in toCancel[t] :
         /\ toCancel' = [toCancel EXCEPT ![t] = CancelsLeft(t, m)]
         /\ \/ /\ activeMatches[m] # NoMatch
               /\ activeMatches' = [activeMatches EXCEPT ![m] = NoMatch]
               /\ playerToMatch' = Unmapped(m)
               /\ requeue' = [requeue EXCEPT ![t] = Requeues(m)]
            \/ UNCHANGED <<activeMatches, playerToMatch, requeue>>
  BY DEF CancelMatchInternal
<1>3. m \in Matches
  BY <1>2 DEF Inv, TypeOK
<1>4. toCancel' \in [Threads -> SUBSET Matches]
  BY <1>2 DEF Inv, TypeOK, CancelsLeft
<1>5. pc' \in [Threads -> {"idle", "remove", "push", "find", "store", "unqueue",
                           "return", "cancel", "declining"}]
  BY <1>1, PcTyped DEF Inv
<1>6. CASE UNCHANGED <<activeMatches, playerToMatch, requeue>>
  <2>1. TypeOK'
    BY <1>1, <1>4, <1>5, <1>6 DEF Inv, TypeOK
  <2>2. QED
    BY <1>1, <1>6, <2>1, SharedOnly
<1>7. ASSUME activeMatches[m] # NoMatch,
             activeMatches' = [activeMatches EXCEPT ![m] = NoMatch],
             playerToMatch' = Unmapped(m),
             requeue' = [requeue EXCEPT ![t] = Requeues(m)]
      PROVE  Inv'
  <2>1. /\ activeMatches'[m] = NoMatch
        /\ \A n \in Matches : n # m => activeMatches'[n] = activeMatches[n]
    BY <1>3, <1>7 DEF Inv, TypeOK
  <2>2. Requeues(m) \subseteq Entries
    BY DEF Requeues, Inv, TypeOK
  <2>3. TypeOK'
    <3>1. activeMatches' \in [Matches -> Match \cup {NoMatch}]
      BY <1>7 DEF Inv, TypeOK
    <3>2. playerToMatch' \in [Players -> Matches \cup {0}]
      BY <1>7 DEF Inv, TypeOK, Unmapped
    <3>3. requeue' \in [Threads -> SUBSET Entries]
      BY <1>7, <2>2 DEF Inv, TypeOK
    <3>4. QED
      BY <1>1, <1>4, <1>5, <3>1, <3>2, <3>3 DEF Inv, TypeOK
  <2>4. Unmade'
    BY <1>1, <2>1 DEF Inv, Unmade
  <2>5. MapSound'
    <3>1. ASSUME NEW q \in Players, playerToMatch'[q] # 0
          PROVE  /\ activeMatches'[playerToMatch'[q]] # NoMatch
                 /\ activeMatches'[playerToMatch'[q]].members \cap EntriesOf(q) # {}
      <4>1. playerToMatch'[q] = playerToMatch[q] /\ Members(m, q) = {}
        BY <1>7, <3>1 DEF Unmapped
      <4>2. /\ playerToMatch[q] \in Matches /\ activeMatches[playerToMatch[q]] # NoMatch
            /\ Members(playerToMatch[q], q) # {}
        BY <3>1, <4>1 DEF Inv, MapSound, TypeOK
      <4>3. QED
        BY <2>1, <4>1, <4>2 DEF Members
    <3>2. QED
      BY <1>1, <3>1 DEF MapSound, Members, EntriesOf
  <2>6. BegunAccepted'
    BY <1>1, <2>1 DEF Inv, BegunAccepted
  <2>7. QED
    BY <2>3, <2>4, <2>5, <2>6 DEF Inv
<1>8. QED
  BY <1>2, <1>6, <1>7
-----------------------------------------------------------------------------
\* The invariant holds initially.
LEMMA InvInitially == Init => Inv
<1> SUFFICES ASSUME Init PROVE Inv
  OBVIOUS
<1>1. TypeOK
  BY LobbyAssumption DEF Init, TypeOK
<1>2. Unmade /\ MapSound /\ BegunAccepted
  BY DEF Init, Unmade, MapSound, BegunAccepted
<1>3. QED
  BY <1>1, <1>2 DEF Inv

\* Every step keeps the invariant.
LEMMA InvInductive == Inv /\ [Next]_vars => Inv'
<1> SUFFICES ASSUME Inv, [Next]_vars PROVE Inv'
  OBVIOUS
<1>1. TypeOK
  BY DEF Inv
<1>2. ASSUME NEW s \in Servers, RegisterServer(s) \/ UnregisterServer(s) PROVE Inv'
  <2>1. TypeOK' /\ UNCHANGED <<accepted, activeMatches, playerToMatch, nextMatchId>>
    BY <1>1, <1>2 DEF RegisterServer, UnregisterServer, TypeOK, shared, threads
  <2>2. QED
    BY <2>1, SharedOnly
<1>3. ASSUME UNCHANGED vars PROVE Inv'
  <2>1. TypeOK' /\ UNCHANGED <<accepted, activeMatches, playerToMatch, nextMatchId>>
    BY <1>1, <1>3 DEF vars, TypeOK, shared, threads
  <2>2. QED
    BY <2>1, SharedOnly
<1>4. ASSUME NEW t \in Threads, NEW p \in Players,
             HandleMatchmakingStart(t, p) \/ HandleMatchmakingStop(t, p) \/ DeclineMatch(t, p)
      PROVE  Inv'
  BY <1>1, <1>4, ThreadsTyped, SharedOnly
<1>5. ASSUME NEW t \in Threads,
             \/ ProcessMatchmakingQueue(t) \/ RemovePlayerFromQueue(t) \/ FindMatchCandidates(t)
             \/ NoServer(t) \/ UnqueueMatched(t) \/ CheckReadyUpTimeouts(t) \/ Proceed(t)
      PROVE  Inv'
  BY <1>1, <1>5, ThreadsTyped, SharedOnly
<1>6. QED
  BY <1>2, <1>3, <1>4, <1>5, AddPlayerToQueueInductive, StoreMatchInductive,
     AcceptMatchInductive, CancelMatchInductive, NextCases

\* Hence it always holds.
LEMMA Invariance == Spec => []Inv
  BY InvInitially, InvInductive, PTL DEF Spec

\* The two tables, the entries and the threads' variables keep their types.
THEOREM LobbyTypeCorrect == Spec => []TypeOK
<1>1. Inv => TypeOK
  BY DEF Inv
<1>2. QED
  BY <1>1, Invariance, PTL

\* m_playerToMatch maps a player only to an active match that the player is in, with any
\* number of threads making, beginning and cancelling matches.
THEOREM MapAlwaysSound == Spec => []MapSound
<1>1. Inv => MapSound
  BY DEF Inv
<1>2. QED
  BY <1>1, Invariance, PTL

\* No match begins without the acceptance of each of its players.
THEOREM BegunAlwaysAccepted == Spec => []BegunAccepted
<1>1. Inv => BegunAccepted
  BY DEF Inv
<1>2. QED
  BY <1>1, Invariance, PTL
=============================================================================
