---------------------------- MODULE DBPoolProofs ----------------------------
(***************************************************************************)
(* What holds of the pool for any number of clients and connections: every *)
(* connection is somewhere, there are never more than the pool was made    *)
(* for, and no wake-up is lost.                                            *)
(***************************************************************************)
EXTENDS DBPool, FiniteSetTheorems, TLAPS

\* Who waits has no connection, who is woken waits, and a pool that is shut down
\* keeps nothing.
Asleep ==
    /\ signalled \subseteq Waiting
    /\ \A c \in Waiting : conn[c] = NoHandle
    /\ ShutDownCloses

Inv == TypeOK /\ Asleep /\ Accounted
-----------------------------------------------------------------------------
\* A client that checks out a connection gets one that nobody else has, or none.
LEMMA CheckedOutHandles ==
    ASSUME TypeOK, Accounted, NEW c \in Clients, conn[c] = NoHandle, CheckedOut(c)
    PROVE  /\ available' \subseteq Handles /\ open' \subseteq Handles
           /\ conn' \in [Clients -> Handles \cup {NoHandle}]
           /\ \A d \in Clients : d # c => conn'[d] = conn[d]
           /\ Accounted'
<1>1. PICK h \in available :
         /\ available' = available \ {h}
         /\ \/ UNCHANGED open /\ conn' = [conn EXCEPT ![c] = h]
            \/ \E new \in Handles \ (open \ {h}) :
                  /\ open' = (open \ {h}) \cup {new}
                  /\ conn' = [conn EXCEPT ![c] = new]
            \/ open' = open \ {h} /\ UNCHANGED conn
  BY DEF CheckedOut
<1>2. /\ h \in open /\ h \in Handles /\ h \notin Held
      /\ open = available \cup Held /\ available \cap Held = {} /\ open \subseteq Handles
  BY <1>1 DEF TypeOK, Accounted
<1>3. ASSUME NEW new \in Handles, new \notin open \ {h}, open' = (open \ {h}) \cup {new},
             conn' = [conn EXCEPT ![c] = new]
      PROVE  /\ open' \subseteq Handles
             /\ conn' \in [Clients -> Handles \cup {NoHandle}]
             /\ \A d \in Clients : d # c => conn'[d] = conn[d]
             /\ Accounted'
  <2>1. conn'[c] = new /\ \A d \in Clients : d # c => conn'[d] = conn[d]
    BY <1>3 DEF TypeOK
  <2>2. new \notin Held /\ new \notin available'
    BY <1>1, <1>2, <1>3
  <2>3. Held' = Held \cup {new}
    <3>1. \A x \in Handles : x \in Held' <=> x \in Held \/ x = new
      BY <1>3, <2>1, DBPoolAssumption DEF Held
    <3>2. QED
      BY <1>3, <3>1 DEF Held
  <2>4. open' = available' \cup Held' /\ available' \cap Held' = {}
    BY <1>1, <1>2, <1>3, <2>2, <2>3
  <2>5. ASSUME NEW d \in Clients, NEW e \in Clients, conn'[d] = conn'[e], conn'[d] # NoHandle
        PROVE  d = e
    <3>1. ASSUME NEW x \in Clients, x # c PROVE conn'[x] # new
      BY <2>1, <2>2, <3>1 DEF Held
    <3>2. QED
      BY <2>1, <2>5, <3>1 DEF Accounted
  <2>6. QED
    BY <1>2, <1>3, <2>1, <2>4, <2>5 DEF Accounted, TypeOK
<1>4. CASE UNCHANGED open /\ conn' = [conn EXCEPT ![c] = h]
  <2>1. h \in Handles /\ h \notin open \ {h} /\ open' = (open \ {h}) \cup {h}
    BY <1>2, <1>4
  <2>2. QED
    BY <1>1, <1>3, <1>4, <2>1 DEF TypeOK
<1>5. CASE open' = open \ {h} /\ UNCHANGED conn
  <2>1. Held' = Held
    BY <1>5 DEF Held
  <2>2. QED
    BY <1>1, <1>2, <1>5, <2>1 DEF Accounted, TypeOK
<1>6. QED
  BY <1>1, <1>3, <1>4, <1>5 DEF TypeOK

\* What Obtain does to the clients.
LEMMA ObtainInductive ==
    ASSUME Inv, NEW c \in Clients, conn[c] = NoHandle, Obtain(c)
    PROVE  Inv'
<1>1. /\ state' = [state EXCEPT ![c] = "running"] /\ signalled' = signalled \ {c}
      /\ shutdown' = shutdown
  BY DEF Obtain
<1>2. Waiting' = Waiting \ {c}
  BY <1>1 DEF Waiting, Inv, TypeOK
<1>3. /\ available' \subseteq Handles /\ open' \subseteq Handles
      /\ conn' \in [Clients -> Handles \cup {NoHandle}]
      /\ \A d \in Clients : d # c => conn'[d] = conn[d]
      /\ Accounted'
      /\ shutdown => available' = {}
  <2>1. CASE shutdown
    <3>1. UNCHANGED <<available, open, conn>>
      BY <2>1 DEF Obtain
    <3>2. QED
      BY <3>1 DEF Inv, TypeOK, Accounted, Held, Asleep, ShutDownCloses
  <2>2. CASE ~shutdown
    <3>1. CheckedOut(c)
      BY <2>2 DEF Obtain
    <3>2. QED
      BY <2>2, <3>1, CheckedOutHandles DEF Inv
  <2>3. QED
    BY <2>1, <2>2
<1>4. TypeOK'
  BY <1>1, <1>3 DEF Inv, TypeOK
<1>5. Asleep'
  <2>1. \A d \in Waiting \ {c} : d \in Clients /\ d # c /\ conn[d] = NoHandle
    BY DEF Inv, Asleep, Waiting
  <2>2. signalled \ {c} \subseteq Waiting \ {c}
    BY DEF Inv, Asleep
  <2>3. \A d \in Waiting' : conn'[d] = NoHandle
    BY <1>2, <1>3, <2>1
  <2>4. signalled' \subseteq Waiting'
    BY <1>1, <1>2, <2>2
  <2>5. QED
    BY <1>1, <1>3, <2>3, <2>4 DEF Asleep, ShutDownCloses
<1>6. QED
  BY <1>3, <1>4, <1>5 DEF Inv

\* NotifyOne wakes only who waits.
LEMMA NotifyOneWakes ==
    ASSUME NotifyOne
    PROVE  signalled \subseteq signalled' /\ signalled' \subseteq signalled \cup Waiting
BY DEF NotifyOne

\* A connection that a client gives up goes to the pool or is closed.
LEMMA ReturnedHandles ==
    ASSUME Inv, NEW h \in Held, ReturnConnection(h)
    PROVE  /\ available' \subseteq Handles /\ open' \subseteq Handles
           /\ signalled' \subseteq Waiting
           /\ open' = available' \cup (Held \ {h}) /\ available' \cap (Held \ {h}) = {}
           /\ shutdown => available' = {}
<1>1. /\ h \in open /\ h \in Handles /\ h \notin available
      /\ open = available \cup Held /\ available \cap Held = {}
      /\ available \subseteq Handles /\ open \subseteq Handles
      /\ signalled \subseteq Waiting
      /\ shutdown => available = {}
  BY DEF Inv, TypeOK, Accounted, Held, Asleep, ShutDownCloses
<1>2. CASE shutdown
  <2>1. open' = open \ {h} /\ available' = available /\ signalled' = signalled
    BY <1>2 DEF ReturnConnection
  <2>2. QED
    BY <1>1, <1>2, <2>1
<1>3. CASE ~shutdown
  <2>1. available' = available \cup {h} /\ open' = open /\ NotifyOne
    BY <1>3 DEF ReturnConnection
  <2>2. QED
    BY <1>1, <1>3, <2>1, NotifyOneWakes
<1>4. QED
  BY <1>2, <1>3

\* The clients' connections after the destructor of one of them.
LEMMA ReleaseInductive ==
    ASSUME Inv, NEW c \in Clients, Release(c)
    PROVE  Inv'
<1>1. /\ conn[c] # NoHandle /\ ReturnConnection(conn[c])
      /\ conn' = [conn EXCEPT ![c] = NoHandle] /\ shutdown' = shutdown /\ state' = state
  BY DEF Release
<1>2. conn[c] \in Held
  BY <1>1 DEF Held, Inv, TypeOK
<1>3. conn'[c] = NoHandle /\ \A d \in Clients : d # c => conn'[d] = conn[d]
  BY <1>1 DEF Inv, TypeOK
<1>4. Held' = Held \ {conn[c]}
  <2>1. ASSUME NEW h \in Handles PROVE h \in Held' <=> h \in Held /\ h # conn[c]
    BY <1>1, <1>3, DBPoolAssumption DEF Held, Inv, Accounted
  <2>2. QED
    BY <2>1 DEF Held
<1>5. /\ available' \subseteq Handles /\ open' \subseteq Handles /\ signalled' \subseteq Waiting
      /\ open' = available' \cup Held' /\ available' \cap Held' = {}
      /\ shutdown => available' = {}
  BY <1>1, <1>2, <1>4, ReturnedHandles
<1>6. Waiting' = Waiting
  BY <1>1 DEF Waiting
<1>7. TypeOK'
  BY <1>1, <1>5 DEF Inv, TypeOK, Waiting
<1>8. Asleep'
  BY <1>1, <1>3, <1>5, <1>6 DEF Inv, Asleep, ShutDownCloses, Waiting
<1>9. Accounted'
  BY <1>3, <1>5 DEF Inv, Accounted
<1>10. QED
  BY <1>7, <1>8, <1>9 DEF Inv

\* The clients' connections after one is moved.
LEMMA MoveInductive ==
    ASSUME Inv, NEW c \in Clients, NEW d \in Clients, Move(c, d)
    PROVE  Inv'
<1>1. /\ c # d /\ conn[c] # NoHandle /\ state[d] = "running"
      /\ conn' = [conn EXCEPT ![d] = conn[c], ![c] = NoHandle]
      /\ shutdown' = shutdown /\ state' = state
      /\ \/ conn[d] # NoHandle /\ ReturnConnection(conn[d])
         \/ conn[d] = NoHandle /\ UNCHANGED <<available, open, signalled>>
  BY DEF Move, Moved
<1>2. conn[c] \in Held /\ (conn[d] # NoHandle => conn[d] \in Held)
  BY <1>1 DEF Held, Inv, TypeOK
<1>3. /\ conn'[c] = NoHandle /\ conn'[d] = conn[c]
      /\ \A e \in Clients : e # c /\ e # d => conn'[e] = conn[e]
  BY <1>1 DEF Inv, TypeOK
<1>4. Held' = Held \ {conn[d]}
  <2>1. ASSUME NEW h \in Handles PROVE h \in Held' <=> h \in Held /\ h # conn[d]
    BY <1>1, <1>3, DBPoolAssumption DEF Held, Inv, Accounted
  <2>2. QED
    BY <2>1 DEF Held
<1>5. /\ available' \subseteq Handles /\ open' \subseteq Handles /\ signalled' \subseteq Waiting
      /\ open' = available' \cup Held' /\ available' \cap Held' = {}
      /\ shutdown => available' = {}
  <2>1. CASE conn[d] # NoHandle
    BY <1>1, <1>2, <1>4, <2>1, ReturnedHandles
  <2>2. CASE conn[d] = NoHandle
    <3>1. Held' = Held
      BY <1>4, <2>2, DBPoolAssumption DEF Held
    <3>2. QED
      BY <1>1, <2>2, <3>1 DEF Inv, TypeOK, Accounted, Asleep, ShutDownCloses
  <2>3. QED
    BY <2>1, <2>2
<1>6. Waiting' = Waiting /\ d \notin Waiting
  BY <1>1 DEF Waiting
<1>7. TypeOK'
  BY <1>1, <1>5 DEF Inv, TypeOK, Waiting
<1>8. Asleep'
  <2>1. \A e \in Waiting : conn'[e] = NoHandle
    BY <1>3, <1>6 DEF Inv, Asleep, Waiting
  <2>2. QED
    BY <1>1, <1>5, <1>6, <2>1 DEF Inv, Asleep, ShutDownCloses
<1>9. ASSUME NEW e \in Clients, NEW f \in Clients, conn'[e] = conn'[f], conn'[e] # NoHandle
      PROVE  e = f
  <2>1. e # c /\ f # c
    BY <1>3, <1>9
  <2>2. \A a, b \in Clients : conn[a] = conn[b] /\ conn[a] # NoHandle => a = b
    BY DEF Inv, Accounted
  <2>3. ASSUME NEW g \in Clients, g # c, g # d PROVE conn'[g] # conn'[d]
    BY <1>1, <1>3, <2>2, <2>3
  <2>4. ASSUME e # d, f # d PROVE e = f
    BY <1>3, <1>9, <2>1, <2>2, <2>4
  <2>5. QED
    BY <1>9, <2>1, <2>3, <2>4
<1>10. Accounted'
  <2>1. \A e, f \in Clients : conn'[e] = conn'[f] /\ conn'[e] # NoHandle => e = f
    BY <1>9
  <2>2. QED
    BY <1>5, <2>1 DEF Accounted
<1>11. QED
  BY <1>7, <1>8, <1>10 DEF Inv
-----------------------------------------------------------------------------
\* What follows from each step follows from [Next]_vars.
LEMMA NextCases ==
    ASSUME Inv, [Next]_vars, NEW ACTION P,
           \A c \in Clients : conn[c] = NoHandle /\ Obtain(c) /\ Ready => P,
           \A c \in Clients, how \in {"waiting", "waitingWithTimeout"} : Wait(c, how) => P,
           \A c \in Clients : /\ ~Ready /\ signalled' = signalled \ {c}
                              /\ \/ UNCHANGED state
                                 \/ state' = [state EXCEPT ![c] = "running"]
                              /\ UNCHANGED <<available, shutdown, open, conn>>
                              => P,
           \A c \in Clients : Release(c) => P,
           \A c, d \in Clients : Move(c, d) => P,
           Shutdown => P, UNCHANGED vars => P
    PROVE  P
<1>1. \A c \in Waiting : conn[c] = NoHandle
  BY DEF Inv, Asleep
<1>2. ASSUME NEW c \in Clients, c \in Waiting, Wakened(c) PROVE P
  BY <1>1, <1>2 DEF Wakened
<1>3. ASSUME NEW c \in Clients, TimeOut(c) PROVE P
  BY <1>1, <1>3 DEF TimeOut, Waiting
<1>4. ASSUME NEW c \in Clients, GetConnection(c) PROVE P
  BY <1>4 DEF GetConnection
<1>5. ASSUME NEW c \in Clients, WakeUp(c) \/ SpuriousWakeUp(c) PROVE P
  BY <1>2, <1>5 DEF WakeUp, SpuriousWakeUp, Inv, Asleep
<1>6. QED
  BY <1>3, <1>4, <1>5 DEF Next

\* The invariant holds initially.
LEMMA InvInitially == Init => Inv
<1> SUFFICES ASSUME Init PROVE Inv
  OBVIOUS
<1>1. Waiting = {} /\ Held = {}
  BY DBPoolAssumption DEF Init, Waiting, Held
<1>2. TypeOK /\ Asleep
  BY <1>1 DEF Init, TypeOK, Asleep, ShutDownCloses
<1>3. Accounted
  BY <1>1 DEF Init, Accounted
<1>4. QED
  BY <1>2, <1>3 DEF Inv

\* Every step keeps the invariant.
LEMMA InvInductive == Inv /\ [Next]_vars => Inv'
<1> SUFFICES ASSUME Inv, [Next]_vars PROVE Inv'
  OBVIOUS
<1>1. ASSUME NEW c \in Clients, NEW how \in {"waiting", "waitingWithTimeout"}, Wait(c, how)
      PROVE  Inv'
  <2>1. /\ conn[c] = NoHandle /\ state' = [state EXCEPT ![c] = how]
        /\ UNCHANGED <<available, shutdown, open, conn, signalled>>
    BY <1>1 DEF Wait
  <2>2. Waiting' = Waiting \cup {c}
    BY <2>1 DEF Waiting, Inv, TypeOK
  <2>3. TypeOK' /\ Asleep'
    BY <2>1, <2>2 DEF Inv, TypeOK, Asleep, ShutDownCloses
  <2>4. Accounted'
    BY <2>1 DEF Inv, Accounted, Held
  <2>5. QED
    BY <2>3, <2>4 DEF Inv
<1>2. ASSUME NEW c \in Clients, signalled' = signalled \ {c},
             UNCHANGED state \/ state' = [state EXCEPT ![c] = "running"],
             UNCHANGED <<available, shutdown, open, conn>>
      PROVE  Inv'
  <2>1. Waiting' \subseteq Waiting /\ Waiting \ {c} \subseteq Waiting'
    BY <1>2 DEF Waiting, Inv, TypeOK
  <2>2. TypeOK' /\ Asleep'
    BY <1>2, <2>1 DEF Inv, TypeOK, Asleep, ShutDownCloses
  <2>3. Accounted'
    BY <1>2 DEF Inv, Accounted, Held
  <2>4. QED
    BY <2>2, <2>3 DEF Inv
<1>3. ASSUME Shutdown PROVE Inv'
  <2>1. Waiting' = Waiting /\ Held' = Held
    BY <1>3 DEF Shutdown, Waiting, Held
  <2>2. TypeOK' /\ Asleep'
    BY <1>3, <2>1 DEF Shutdown, Inv, TypeOK, Asleep, ShutDownCloses, Waiting
  <2>3. Accounted'
    BY <1>3, <2>1 DEF Shutdown, Inv, Accounted
  <2>4. QED
    BY <2>2, <2>3 DEF Inv
<1>4. ASSUME UNCHANGED vars PROVE Inv'
  BY <1>4 DEF vars, Inv, TypeOK, Asleep, ShutDownCloses, Waiting, Accounted, Held
<1>5. QED
  BY <1>1, <1>2, <1>3, <1>4, ObtainInductive, ReleaseInductive, MoveInductive, NextCases

\* Hence it always holds.
LEMMA Invariance == Spec => []Inv
  BY InvInitially, InvInductive, PTL DEF Spec

\* The pool's variables keep their types.
THEOREM DBPoolTypeCorrect == Spec => []TypeOK
<1>1. Inv => TypeOK
  BY DEF Inv
<1>2. QED
  BY <1>1, Invariance, PTL

\* No connection is leaked, given to two clients, or used after it is closed.
THEOREM ConnectionsAccounted == Spec => []Accounted
<1>1. Inv => Accounted
  BY DEF Inv
<1>2. QED
  BY <1>1, Invariance, PTL

\* A pool that has been shut down has no idle connection, now or later.
THEOREM NothingIdleAfterShutdown == Spec => []ShutDownCloses
<1>1. Inv => ShutDownCloses
  BY DEF Inv, Asleep
<1>2. QED
  BY <1>1, Invariance, PTL
-----------------------------------------------------------------------------
(* The numbers. *)

\* The sets that are counted are finite.
LEMMA FiniteSets ==
    ASSUME TypeOK
    PROVE  /\ IsFiniteSet(available) /\ Cardinality(available) \in Nat
           /\ IsFiniteSet(open) /\ Cardinality(open) \in Nat
           /\ IsFiniteSet(signalled) /\ Cardinality(signalled) \in Nat
           /\ IsFiniteSet({}) /\ Cardinality({}) = 0
BY DBPoolAssumption, FS_Subset, FS_CardinalityType, FS_EmptySet DEF TypeOK

\* A checkout, a reconnection included, takes a connection out of the pool and opens
\* none that was not closed before.
LEMMA CheckedOutCounts ==
    ASSUME Inv, NEW c \in Clients, CheckedOut(c)
    PROVE  /\ Cardinality(open') <= Cardinality(open)
           /\ Cardinality(available') = Cardinality(available) - 1
<1>1. PICK h \in available :
         /\ available' = available \ {h}
         /\ \/ UNCHANGED open
            \/ \E new \in Handles \ (open \ {h}) : open' = (open \ {h}) \cup {new}
            \/ open' = open \ {h}
  BY DEF CheckedOut
<1>2. /\ h \in open /\ IsFiniteSet(open) /\ IsFiniteSet(available)
      /\ Cardinality(open) \in Nat /\ Cardinality(available) \in Nat
  BY FiniteSets DEF Inv, Accounted
<1>3. Cardinality(available') = Cardinality(available) - 1
  BY <1>1, <1>2, FS_RemoveElement
<1>4. IsFiniteSet(open \ {h}) /\ Cardinality(open \ {h}) = Cardinality(open) - 1
  BY <1>2, FS_RemoveElement
<1>5. ASSUME NEW new \in Handles \ (open \ {h}), open' = (open \ {h}) \cup {new}
      PROVE  Cardinality(open') <= Cardinality(open)
  <2>1. Cardinality(open') = Cardinality(open \ {h}) + 1
    BY <1>4, <1>5, FS_AddElement
  <2>2. QED
    BY <1>2, <1>4, <2>1
<1>6. QED
  BY <1>1, <1>2, <1>3, <1>4, <1>5

\* A connection that is returned opens none, and wakes a client if one sleeps.
LEMMA ReturnedCounts ==
    ASSUME Inv, NEW h \in Held, ReturnConnection(h), NoLostWakeUp
    PROVE  /\ Cardinality(open') <= Cardinality(open)
           /\ ~(Waiting \subseteq signalled') => Cardinality(available') <= Cardinality(signalled')
<1>1. /\ h \in open /\ h \in Handles
      /\ IsFiniteSet(open) /\ IsFiniteSet(available) /\ IsFiniteSet(signalled)
      /\ Cardinality(open) \in Nat /\ Cardinality(available) \in Nat
      /\ Cardinality(signalled) \in Nat
  BY FiniteSets DEF Inv, Accounted, Held
<1>2. CASE shutdown
  <2>1. open' = open \ {h} /\ available' = available /\ signalled' = signalled
    BY <1>2 DEF ReturnConnection
  <2>2. Cardinality(open \ {h}) = Cardinality(open) - 1
    BY <1>1, FS_RemoveElement
  <2>3. QED
    BY <1>1, <2>1, <2>2 DEF NoLostWakeUp
<1>3. CASE ~shutdown
  <2>1. available' = available \cup {h} /\ open' = open /\ NotifyOne
    BY <1>3 DEF ReturnConnection
  <2>2. Cardinality(available') <= Cardinality(available) + 1 /\ Cardinality(available') \in Nat
    <3>1. Cardinality(available \cup {h}) =
             IF h \in available THEN Cardinality(available) ELSE Cardinality(available) + 1
      BY <1>1, FS_AddElement
    <3>2. QED
      BY <1>1, <2>1, <3>1
  <2>3. ASSUME ~(Waiting \subseteq signalled')
        PROVE  Cardinality(available') <= Cardinality(signalled')
    <3>1. ~(Waiting \subseteq signalled)
      BY <2>1, <2>3 DEF NotifyOne
    <3>2. PICK c \in Waiting \ signalled : signalled' = signalled \cup {c}
      BY <2>1, <3>1 DEF NotifyOne
    <3>3. Cardinality(signalled') = Cardinality(signalled) + 1
      BY <1>1, <3>2, FS_AddElement
    <3>4. QED
      BY <1>1, <2>2, <3>1, <3>3 DEF NoLostWakeUp
  <2>4. Cardinality(open') <= Cardinality(open)
    BY <1>1, <2>1
  <2>5. QED
    BY <2>3, <2>4
<1>4. QED
  BY <1>2, <1>3

\* No step adds to the open connections, and none loses a wake-up.
LEMMA CountsInductive ==
    ASSUME Inv, NoLostWakeUp, [Next]_vars
    PROVE  Cardinality(open') <= Cardinality(open) /\ NoLostWakeUp'
<1> DEFINE Goal == Cardinality(open') <= Cardinality(open) /\ NoLostWakeUp'
<1>0. /\ IsFiniteSet(open) /\ IsFiniteSet(available) /\ IsFiniteSet(signalled)
      /\ Cardinality(open) \in Nat /\ Cardinality(available) \in Nat
      /\ Cardinality(signalled) \in Nat
      /\ IsFiniteSet({}) /\ Cardinality({}) = 0
  BY FiniteSets DEF Inv
<1>1. IsFiniteSet(signalled') /\ Cardinality(signalled') \in Nat
  <2>1. signalled' \in SUBSET Clients
    BY InvInductive DEF Inv, TypeOK
  <2>2. IsFiniteSet(signalled')
    BY <2>1, DBPoolAssumption, FS_Subset
  <2>3. QED
    BY <2>2, FS_CardinalityType
<1>2. ASSUME available' = {}, Cardinality(open') <= Cardinality(open) PROVE Goal
  BY <1>0, <1>1, <1>2 DEF NoLostWakeUp
<1>3. ASSUME NEW c \in Clients, conn[c] = NoHandle, Obtain(c), Ready PROVE Goal
  <2>1. state' = [state EXCEPT ![c] = "running"] /\ signalled' = signalled \ {c}
    BY <1>3 DEF Obtain
  <2>2. Waiting' = Waiting \ {c}
    BY <2>1 DEF Waiting, Inv, TypeOK
  <2>3. CASE shutdown
    <3>1. UNCHANGED <<available, open, conn>> /\ available = {}
      BY <1>3, <2>3 DEF Obtain, Inv, Asleep, ShutDownCloses
    <3>2. QED
      BY <1>0, <1>2, <3>1
  <2>4. CASE ~shutdown
    <3>1. /\ Cardinality(open') <= Cardinality(open)
          /\ Cardinality(available') = Cardinality(available) - 1
      BY <1>3, <2>4, CheckedOutCounts DEF Obtain
    <3>2. Cardinality(signalled') >= Cardinality(signalled) - 1
      <4>1. Cardinality(signalled \ {c}) =
               IF c \in signalled THEN Cardinality(signalled) - 1 ELSE Cardinality(signalled)
        BY <1>0, FS_RemoveElement
      <4>2. QED
        BY <1>0, <2>1, <4>1
    <3>3. ~(Waiting' \subseteq signalled') => ~(Waiting \subseteq signalled)
      BY <2>1, <2>2
    <3>4. QED
      BY <1>0, <1>1, <3>1, <3>2, <3>3 DEF NoLostWakeUp
  <2>5. QED
    BY <2>3, <2>4
<1>4. ASSUME NEW c \in Clients, NEW how \in {"waiting", "waitingWithTimeout"}, Wait(c, how)
      PROVE  Goal
  BY <1>0, <1>2, <1>4 DEF Wait, Ready
<1>5. ASSUME NEW c \in Clients, ~Ready, UNCHANGED <<available, shutdown, open, conn>> PROVE Goal
  BY <1>0, <1>2, <1>5 DEF Ready
<1>6. ASSUME NEW c \in Clients, Release(c) PROVE Goal
  <2>1. ReturnConnection(conn[c]) /\ conn[c] \in Held /\ Waiting' = Waiting
    BY <1>6 DEF Release, Held, Waiting, Inv, TypeOK
  <2>2. QED
    BY <2>1, ReturnedCounts DEF NoLostWakeUp
<1>7. ASSUME NEW c \in Clients, NEW d \in Clients, Move(c, d) PROVE Goal
  <2>1. /\ Waiting' = Waiting
        /\ \/ conn[d] \in Held /\ ReturnConnection(conn[d])
           \/ UNCHANGED <<available, open, signalled>>
    BY <1>7 DEF Move, Held, Waiting, Inv, TypeOK
  <2>2. CASE conn[d] \in Held /\ ReturnConnection(conn[d])
    BY <2>1, <2>2, ReturnedCounts DEF NoLostWakeUp
  <2>3. CASE UNCHANGED <<available, open, signalled>>
    BY <1>0, <2>1, <2>3 DEF NoLostWakeUp
  <2>4. QED
    BY <2>1, <2>2, <2>3
<1>8. ASSUME Shutdown PROVE Goal
  <2>1. open' = open \ available /\ available' = {}
    BY <1>8 DEF Shutdown
  <2>2. Cardinality(open') <= Cardinality(open)
    BY <1>0, <2>1, FS_Subset
  <2>3. QED
    BY <1>2, <2>1, <2>2
<1>9. ASSUME UNCHANGED vars PROVE Goal
  BY <1>0, <1>9 DEF vars, NoLostWakeUp, Waiting
<1> HIDE DEF Goal
<1>10. Goal
  BY <1>3, <1>4, <1>5, <1>6, <1>7, <1>8, <1>9, NextCases
<1>11. QED
  BY <1>10 DEF Goal

\* The pool is never larger than it was made, whatever dies and is opened again.
THEOREM PoolSizeHolds == Spec => []WithinPoolSize
<1> DEFINE IInv == Inv /\ NoLostWakeUp /\ WithinPoolSize
<1>1. Init => IInv
  <2>1. Init => NoLostWakeUp
    BY DEF Init, NoLostWakeUp, Waiting
  <2>2. QED
    BY <2>1, InvInitially DEF Init, WithinPoolSize
<1>2. IInv /\ [Next]_vars => IInv'
  <2>1. Inv /\ WithinPoolSize /\ Cardinality(open') <= Cardinality(open) /\ Inv' => WithinPoolSize'
    <3>1. ASSUME NEW S \in SUBSET Handles PROVE Cardinality(S) \in Nat
      BY DBPoolAssumption, FS_Subset, FS_CardinalityType
    <3>2. QED
      BY <3>1, DBPoolAssumption DEF Inv, WithinPoolSize, TypeOK
  <2>2. QED
    BY <2>1, InvInductive, CountsInductive
<1>3. QED
  BY <1>1, <1>2, PTL DEF Spec

\* While a client sleeps, every idle connection has a woken client that will come for
\* it: no schedule of returns, arrivals, time-outs and spurious wake-ups strands one.
THEOREM NoWakeUpLost == Spec => []NoLostWakeUp
<1> DEFINE IInv == Inv /\ NoLostWakeUp
<1>1. Init => IInv
  BY InvInitially DEF Init, NoLostWakeUp, Waiting
<1>2. IInv /\ [Next]_vars => IInv'
  BY InvInductive, CountsInductive
<1>3. QED
  BY <1>1, <1>2, PTL DEF Spec
=============================================================================
