-------------------------------- MODULE Lobby --------------------------------
(***************************************************************************)
(* The matchmaking queue and the matches made from it (gc_server/          *)
(* matchmaking_manager.cpp, with the two calls it makes on                 *)
(* gameserver_manager.cpp).  The class is meant for several threads: the   *)
(* queue has one mutex and the matches another, no change of either is     *)
(* made with both held, and a step is what happens under one of them.      *)
(*                                                                         *)
(* An entry is one QueueEntry, an object that the queue and the matches    *)
(* share: its acceptedMatch is seen in every match it is in.  Ratings are  *)
(* left out: any entries may be found compatible, or not, and a player's   *)
(* may be in one skill bracket or in several.  The server does not         *)
(* construct the manager yet (networking.cpp:47).                          *)
(***************************************************************************)
EXTENDS Integers, FiniteSets

CONSTANTS Players, Servers,
          Handlers,     \* threads that handle messages
          Updaters,     \* threads that call Update
          MatchSize,    \* playersPerTeam * 2
          MaxEntries,   \* bound: entries of a player that exist at once
          MaxStarting,  \* bound: with that many entries nobody asks for another
          MaxMatches,   \* bound: matches ever made
          NoPlayer, NoMatch

Threads == Handlers \cup Updaters
Entries == Players \X (1..MaxEntries)    \* named by their player, steamId
Matches == 1..MaxMatches
Match   == [members: SUBSET Entries, state: {"waiting", "inProgress"}]

ASSUME LobbyAssumption ==
    /\ MatchSize \in Nat \ {0}
    /\ MaxEntries \in Nat
    /\ MaxStarting \in Nat
    /\ MaxMatches \in Nat
    /\ NoPlayer \notin Players
    /\ NoMatch \notin Match

VARIABLES
    accepted,        \* the entries whose acceptedMatch is set
    queue,           \* m_queuesBySkill
    activeMatches,   \* m_activeMatches
    playerToMatch,   \* m_playerToMatch, 0 for none
    nextMatchId,     \* m_nextMatchId
    servers,         \* the registered game servers: none is ever assigned
    pc, player,      \* of each thread: its next step, whom it is adding,
    found,           \* the candidates it has found,
    requeue,         \* the entries it will add to the queue again,
    toCancel         \* and the matches it will cancel

shared  == <<accepted, queue, activeMatches, playerToMatch, nextMatchId>>
threads == <<pc, player, found, requeue, toCancel>>
vars    == <<shared, servers, threads>>

TypeOK ==
    /\ accepted \subseteq Entries
    /\ queue \subseteq Entries
    /\ activeMatches \in [Matches -> Match \cup {NoMatch}]
    /\ playerToMatch \in [Players -> Matches \cup {0}]
    /\ nextMatchId \in 1..(MaxMatches + 1)
    /\ servers \subseteq Servers
    /\ pc \in [Threads -> {"idle", "remove", "push", "find", "store", "unqueue",
                           "return", "cancel", "declining"}]
    /\ player \in [Threads -> Players \cup {NoPlayer}]
    /\ found \in [Threads -> SUBSET Entries]
    /\ requeue \in [Threads -> SUBSET Entries]
    /\ toCancel \in [Threads -> SUBSET Matches]

Init ==
    /\ accepted = {}
    /\ queue = {}
    /\ activeMatches = [m \in Matches |-> NoMatch]
    /\ playerToMatch = [p \in Players |-> 0]
    /\ nextMatchId = 1
    /\ servers = {}
    /\ pc = [t \in Threads |-> "idle"]
    /\ player = [t \in Threads |-> NoPlayer]
    /\ found = [t \in Threads |-> {}]
    /\ requeue = [t \in Threads |-> {}]
    /\ toCancel = [t \in Threads |-> {}]

\* The entries that something still points to; the others have been freed.
Alive == {e \in Entries :
            \/ e \in queue
            \/ \E t \in Threads : e \in found[t] \cup requeue[t]
            \/ \E m \in Matches : activeMatches[m] # NoMatch /\ e \in activeMatches[m].members}

EntriesOf(p) == {e \in Entries : e[1] = p}
PlayersOf(S) == {e[1] : e \in S}
Queued(p)    == queue \cap EntriesOf(p) # {}

GoTo(t, step) == pc' = [pc EXCEPT ![t] = step]

\* Where ProcessMatchmakingQueue returns to: the two loops of a cancelling thread, or
\* the end of the operation.
Return(t) == GoTo(t, IF requeue[t] = {} /\ toCancel[t] = {} THEN "idle" ELSE "return")

\* m_matchMutex is free: a thread that declines never lets go of it.
MatchLockFree == \A t \in Threads : pc[t] # "declining"

Waits(m)     == activeMatches[m] # NoMatch /\ activeMatches[m].state = "waiting"
Members(m, p) == activeMatches[m].members \cap EntriesOf(p)
-----------------------------------------------------------------------------
\* HandleMatchmakingStart looks into the queue only: a player in a match is added.
HandleMatchmakingStart(t, p) ==
    /\ pc[t] = "idle"
    /\ ~Queued(p)
    /\ Cardinality(Alive) < MaxStarting
    /\ player' = [player EXCEPT ![t] = p]
    /\ GoTo(t, "remove")
    /\ UNCHANGED <<shared, servers, found, requeue, toCancel>>

\* RemovePlayerFromQueue returns after the first skill bracket in which it has found
\* an entry of the player: the player's entries in other brackets stay.
WithoutFirstBracket(p) ==
    IF Queued(p) THEN {queue \ bracket : bracket \in (SUBSET (queue \cap EntriesOf(p))) \ {{}}}
                 ELSE {queue}

HandleMatchmakingStop(t, p) ==
    /\ pc[t] = "idle"
    /\ queue' \in WithoutFirstBracket(p)
    /\ UNCHANGED <<accepted, activeMatches, playerToMatch, nextMatchId, servers, threads>>

\* Update calls it every few seconds, and HandleMatchmakingStart once more at its end.
ProcessMatchmakingQueue(t) ==
    /\ pc[t] = "idle"
    /\ GoTo(t, "find")
    /\ UNCHANGED <<shared, servers, player, found, requeue, toCancel>>

\* The first part of AddPlayerToQueue.
RemovePlayerFromQueue(t) ==
    /\ pc[t] = "remove"
    /\ queue' \in WithoutFirstBracket(player[t])
    /\ GoTo(t, "push")
    /\ UNCHANGED <<accepted, activeMatches, playerToMatch, nextMatchId, servers,
                   player, found, requeue, toCancel>>

\* The second part, with a new entry that has accepted nothing.
AddPlayerToQueue(t) ==
    /\ pc[t] = "push"
    /\ \E entry \in EntriesOf(player[t]) \ Alive :
         /\ entry = CHOOSE e \in EntriesOf(player[t]) \ Alive : TRUE    \* any will do
         /\ accepted' = accepted \ {entry}
         /\ queue' = queue \cup {entry}
    /\ player' = [player EXCEPT ![t] = NoPlayer]
    /\ GoTo(t, "find")
    /\ UNCHANGED <<activeMatches, playerToMatch, nextMatchId, servers,
                   found, requeue, toCancel>>

\* Compatible players, if there are any among those in the queue.
FindMatchCandidates(t) ==
    /\ pc[t] = "find"
    /\ \/ /\ \E S \in SUBSET queue :
                Cardinality(S) = MatchSize /\ found' = [found EXCEPT ![t] = S]
          /\ GoTo(t, "store")
       \/ Return(t) /\ UNCHANGED found
    /\ UNCHANGED <<shared, servers, player, requeue, toCancel>>

\* CreateMatch, and the match and its players are entered under m_matchMutex.  (The id
\* and the server are taken before the lock; an id that is taken first may be entered
\* last, and one is lost when there is no server.  Nothing depends on their order.)
StoreMatch(t) ==
    /\ pc[t] = "store"
    /\ servers # {}
    /\ MatchLockFree
    /\ nextMatchId <= MaxMatches
    /\ activeMatches' = [activeMatches EXCEPT ![nextMatchId] =
                            [members |-> found[t], state |-> "waiting"]]
    /\ playerToMatch' = [p \in Players |->
          IF p \in PlayersOf(found[t]) THEN nextMatchId ELSE playerToMatch[p]]
    /\ nextMatchId' = nextMatchId + 1
    /\ GoTo(t, "unqueue")
    /\ UNCHANGED <<accepted, queue, servers, player, found, requeue, toCancel>>

\* FindAvailableServer has none, and the candidates stay in the queue.
NoServer(t) ==
    /\ pc[t] = "store"
    /\ servers = {} \/ nextMatchId > MaxMatches
    /\ Return(t)
    /\ found' = [found EXCEPT ![t] = {}]
    /\ UNCHANGED <<shared, servers, player, requeue, toCancel>>

\* The players leave the queue, whichever entry they have there by now.
UnqueueMatched(t) ==
    /\ pc[t] = "unqueue"
    /\ queue' = {e \in queue : e[1] \notin PlayersOf(found[t])}
    /\ found' = [found EXCEPT ![t] = {}]
    /\ GoTo(t, "find")
    /\ UNCHANGED <<accepted, activeMatches, playerToMatch, nextMatchId, servers,
                   player, requeue, toCancel>>
-----------------------------------------------------------------------------
\* Mutant of AllPlayersAccepted: the first team only.
AllPlayersAcceptedSome(m, yes) == activeMatches[m].members \cap yes # {}

AllPlayersAccepted(m, yes) == activeMatches[m].members \subseteq yes

\* An entry of the player in some match that waits is marked: the first in the order
\* of its teams, which is that of the ratings.
AcceptMatch(t, p) ==
    /\ pc[t] = "idle"
    /\ MatchLockFree
    /\ \E m \in Matches :
         /\ Waits(m)
         /\ \E e \in Members(m, p) :
              /\ accepted' = accepted \cup {e}
              /\ activeMatches' = IF AllPlayersAccepted(m, accepted')
                    THEN [activeMatches EXCEPT ![m].state = "inProgress"]
                    ELSE activeMatches
    /\ UNCHANGED <<queue, playerToMatch, nextMatchId, servers, threads>>

\* DeclineMatch calls CancelMatchInternal, which locks m_matchMutex again, while it
\* holds it: the thread waits for itself.
DeclineMatch(t, p) ==
    /\ pc[t] = "idle"
    /\ MatchLockFree
    /\ \E m \in Matches : Waits(m) /\ Members(m, p) # {}
    /\ GoTo(t, "declining")
    /\ UNCHANGED <<shared, servers, player, found, requeue, toCancel>>

\* The matches whose deadline has passed are collected and cancelled afterwards.
CheckReadyUpTimeouts(t) ==
    /\ pc[t] = "idle"
    /\ MatchLockFree
    /\ \E late \in SUBSET {m \in Matches : Waits(m)} :
         /\ late # {}
         /\ toCancel' = [toCancel EXCEPT ![t] = late]
    /\ GoTo(t, "cancel")
    /\ UNCHANGED <<shared, servers, player, found, requeue>>

\* Mutant of Unmapped: the mappings of the cancelled match stay.
UnmappedNone(m) == playerToMatch

\* The mappings of the players, whichever match they are of.
Unmapped(m) == [p \in Players |-> IF Members(m, p) # {} THEN 0 ELSE playerToMatch[p]]

\* Mutant of CancelsLeft: the list is not advanced.
CancelsLeftSame(t, m) == toCancel[t]

\* The matches the thread has left to cancel after m.
CancelsLeft(t, m) == toCancel[t] \ {m}

\* Mutant of Requeues: who did not accept is queued again.
RequeuesAbsent(m) == activeMatches[m].members \ accepted

\* Who is queued again when m is cancelled.
Requeues(m) == activeMatches[m].members \cap accepted

\* The match goes; its server is not found among the assigned ones.  Who accepted
\* is queued again, without looking where the player is by now.
CancelMatchInternal(t) ==
    /\ pc[t] = "cancel"
    /\ MatchLockFree
    /\ \E m \in toCancel[t] :
         /\ toCancel' = [toCancel EXCEPT ![t] = CancelsLeft(t, m)]
         /\ \/ /\ activeMatches[m] # NoMatch
               /\ activeMatches' = [activeMatches EXCEPT ![m] = NoMatch]
               /\ playerToMatch' = Unmapped(m)
               /\ requeue' = [requeue EXCEPT ![t] = Requeues(m)]
            \/ /\ activeMatches[m] = NoMatch
               /\ UNCHANGED <<activeMatches, playerToMatch, requeue>>
    /\ GoTo(t, "return")
    /\ UNCHANGED <<accepted, queue, nextMatchId, servers, player, found>>

\* The next entry to be queued again, the next match to be cancelled, or the end.
Proceed(t) ==
    /\ pc[t] = "return"
    /\ \/ /\ requeue[t] # {}
          /\ \E e \in requeue[t] :
                /\ player' = [player EXCEPT ![t] = e[1]]
                /\ requeue' = [requeue EXCEPT ![t] = @ \ {e}]
          /\ GoTo(t, "remove")
       \/ /\ requeue[t] = {}
          /\ GoTo(t, IF toCancel[t] = {} THEN "idle" ELSE "cancel")
          /\ UNCHANGED <<player, requeue>>
    /\ UNCHANGED <<shared, servers, found, toCancel>>

-----------------------------------------------------------------------------
RegisterServer(s) == servers' = servers \cup {s} /\ UNCHANGED <<shared, threads>>

\* Unregistered, or not heard from for thirty seconds.
UnregisterServer(s) == servers' = servers \ {s} /\ UNCHANGED <<shared, threads>>

Handle(t) == \E p \in Players :
    \/ HandleMatchmakingStart(t, p)
    \/ HandleMatchmakingStop(t, p)
    \/ AcceptMatch(t, p)
    \/ DeclineMatch(t, p)

Step(t) ==
    \/ RemovePlayerFromQueue(t)
    \/ AddPlayerToQueue(t)
    \/ FindMatchCandidates(t)
    \/ StoreMatch(t)
    \/ NoServer(t)
    \/ UnqueueMatched(t)
    \/ CancelMatchInternal(t)
    \/ Proceed(t)

Next ==
    \/ \E t \in Threads : ProcessMatchmakingQueue(t) \/ Step(t)
    \/ \E t \in Handlers : Handle(t)
    \/ \E t \in Updaters : CheckReadyUpTimeouts(t)
    \/ \E s \in Servers : RegisterServer(s) \/ UnregisterServer(s)

\* The threads run; nothing makes players or servers do anything.
Fairness == \A t \in Threads : WF_vars(Step(t))

Spec == Init /\ [][Next]_vars /\ Fairness
-----------------------------------------------------------------------------
(* Properties. *)

\* The match a player is mapped to is active and the player is in it, so that
\* GetMatchByPlayer never answers with somebody else's match, whatever the threads
\* do to the two tables and however often the player is queued.
MapSound ==
    \A p \in Players : playerToMatch[p] # 0 =>
        /\ activeMatches[playerToMatch[p]] # NoMatch
        /\ Members(playerToMatch[p], p) # {}

\* A match begins only when all its players have accepted, those it shares with
\* another match included.
BegunAccepted ==
    \A m \in Matches : activeMatches[m] # NoMatch /\ activeMatches[m].state = "inProgress" =>
        activeMatches[m].members \subseteq accepted

\* Every operation returns, as long as nobody has declined a match.
OperationsReturn ==
    \A t \in Threads : pc[t] # "idle" ~> pc[t] = "idle" \/ ~MatchLockFree

\* "Re-queue players who accepted": once a match has been found late, whoever had
\* accepted it is in the queue again in the end, whatever other threads do meanwhile:
\* accept, join again, leave or make matches of the same entries.
AcceptedRequeued ==
    \A m \in Matches, p \in Players :
        /\ \E t \in Threads : m \in toCancel[t]
        /\ activeMatches[m] # NoMatch
        /\ Members(m, p) \cap accepted # {}
        ~> Queued(p) \/ ~MatchLockFree
=============================================================================
