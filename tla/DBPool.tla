------------------------------- MODULE DBPool -------------------------------
(***************************************************************************)
(* The pool of database connections (gc_server/db_pool.hpp).  A client is  *)
(* an RAII object (DBConnectionPool::Connection): it asks the pool, waits, *)
(* holds one connection, and gives it back or passes it on when it is      *)
(* moved.  Everything between taking m_poolMutex and releasing it, or      *)
(* waiting on m_cv, is one step: pinging and reconnecting too.             *)
(*                                                                         *)
(* "signalled" are the waiting clients that a notify has woken and that    *)
(* have not got the mutex yet.                                             *)
(***************************************************************************)
EXTENDS Integers, FiniteSets

CONSTANTS Clients,
          Handles,     \* the addresses of MYSQL objects, used again once closed
          PoolSize,
          NoHandle

ASSUME DBPoolAssumption ==
    /\ IsFiniteSet(Clients)
    /\ IsFiniteSet(Handles)
    /\ PoolSize \in Nat \ {0}
    /\ NoHandle \notin Handles

VARIABLES
    available,   \* m_available
    shutdown,    \* m_shutdown
    open,        \* the connections created and not closed
    conn,        \* m_conn of each client
    state,       \* is the client waiting, and with a timeout?
    signalled

vars == <<available, shutdown, open, conn, state, signalled>>

TypeOK ==
    /\ available \subseteq Handles
    /\ shutdown \in BOOLEAN
    /\ open \subseteq Handles
    /\ conn \in [Clients -> Handles \cup {NoHandle}]
    /\ state \in [Clients -> {"running", "waiting", "waitingWithTimeout"}]
    /\ signalled \subseteq Clients

Waiting == {c \in Clients : state[c] # "running"}
Held    == {h \in Handles : \E c \in Clients : conn[c] = h}

\* The constructor: as many connections as could be made, at least one.
Init ==
    /\ available \in SUBSET Handles
    /\ available # {}
    /\ Cardinality(available) <= PoolSize
    /\ shutdown = FALSE
    /\ open = available
    /\ conn = [c \in Clients |-> NoHandle]
    /\ state = [c \in Clients |-> "running"]
    /\ signalled = {}
-----------------------------------------------------------------------------
\* The predicate of the wait.
Ready == available # {} \/ shutdown

\* Mutant of CheckedOut: the dead connection is replaced without being closed.
CheckedOutLeaks(c) ==
    \E h \in available :
        /\ available' = available \ {h}
        /\ \/ UNCHANGED open /\ conn' = [conn EXCEPT ![c] = h]
           \/ \E new \in Handles \ open :
                 open' = open \cup {new} /\ conn' = [conn EXCEPT ![c] = new]

\* The connection answers the ping; or it is closed and another one made; or none
\* can be made and the client gets nothing.
CheckedOut(c) ==
    \E h \in available :
        /\ available' = available \ {h}
        /\ \/ UNCHANGED open /\ conn' = [conn EXCEPT ![c] = h]
           \/ \E new \in Handles \ (open \ {h}) :
                 /\ open' = (open \ {h}) \cup {new}
                 /\ conn' = [conn EXCEPT ![c] = new]
           \/ open' = open \ {h} /\ UNCHANGED conn

\* What getConnection does once it need not wait.
Obtain(c) ==
    /\ state' = [state EXCEPT ![c] = "running"]
    /\ signalled' = signalled \ {c}
    /\ UNCHANGED shutdown
    /\ \/ shutdown /\ UNCHANGED <<available, open, conn>>
       \/ ~shutdown /\ CheckedOut(c)

GetConnection(c) ==
    /\ state[c] = "running"
    /\ conn[c] = NoHandle
    /\ Ready
    /\ Obtain(c)

\* The client waits, with a timeout or, if timeoutMs is 0, without.
Wait(c, how) ==
    /\ state[c] = "running"
    /\ conn[c] = NoHandle
    /\ ~Ready
    /\ state' = [state EXCEPT ![c] = how]
    /\ UNCHANGED <<available, shutdown, open, conn, signalled>>

\* A waiting client gets the mutex again.  It finds what it waits for, or another
\* client was faster and it goes on waiting.
Wakened(c) ==
    \/ Ready /\ Obtain(c)
    \/ /\ ~Ready
       /\ signalled' = signalled \ {c}
       /\ UNCHANGED <<available, shutdown, open, conn, state>>

WakeUp(c) == c \in signalled /\ Wakened(c)

SpuriousWakeUp(c) == c \in Waiting \ signalled /\ Wakened(c)

\* The predicate is looked at once more.
TimeOut(c) ==
    /\ state[c] = "waitingWithTimeout"
    /\ \/ Ready /\ Obtain(c)
       \/ /\ ~Ready
          /\ state' = [state EXCEPT ![c] = "running"]
          /\ signalled' = signalled \ {c}
          /\ UNCHANGED <<available, shutdown, open, conn>>
-----------------------------------------------------------------------------
\* Mutant of NotifyOne: a client that was already woken is woken again.
NotifyOneAny ==
    \/ Waiting = {} /\ UNCHANGED signalled
    \/ \E c \in Waiting : signalled' = signalled \cup {c}

\* m_cv.notify_one, which wakes a client that is asleep if there is one.
NotifyOne ==
    \/ Waiting \subseteq signalled /\ UNCHANGED signalled
    \/ \E c \in Waiting \ signalled : signalled' = signalled \cup {c}

ReturnConnection(h) ==
    IF shutdown
    THEN open' = open \ {h} /\ UNCHANGED <<available, signalled>>
    ELSE available' = available \cup {h} /\ UNCHANGED open /\ NotifyOne

\* The destructor of a client.
Release(c) ==
    /\ conn[c] # NoHandle
    /\ ReturnConnection(conn[c])
    /\ conn' = [conn EXCEPT ![c] = NoHandle]
    /\ UNCHANGED <<shutdown, state>>

\* Mutant of Moved: the client that is moved from keeps the connection.
MovedCopies(c, d) == [conn EXCEPT ![d] = conn[c]]

Moved(c, d) == [conn EXCEPT ![d] = conn[c], ![c] = NoHandle]

\* d = std::move(c), or the construction of d from c; what d held is returned.
Move(c, d) ==
    /\ c # d
    /\ conn[c] # NoHandle
    /\ state[d] = "running"
    /\ \/ conn[d] # NoHandle /\ ReturnConnection(conn[d])
       \/ conn[d] = NoHandle /\ UNCHANGED <<available, open, signalled>>
    /\ conn' = Moved(c, d)
    /\ UNCHANGED <<shutdown, state>>

\* Mutant of Shutdown: one waiting client is woken.
ShutdownNotifiesOne ==
    /\ shutdown' = TRUE
    /\ open' = open \ available
    /\ available' = {}
    /\ NotifyOne
    /\ UNCHANGED <<conn, state>>

Shutdown ==
    /\ shutdown' = TRUE
    /\ open' = open \ available
    /\ available' = {}
    /\ signalled' = Waiting
    /\ UNCHANGED <<conn, state>>

Next ==
    \/ \E c \in Clients :
          \/ GetConnection(c)
          \/ \E how \in {"waiting", "waitingWithTimeout"} : Wait(c, how)
          \/ WakeUp(c)
          \/ SpuriousWakeUp(c)
          \/ TimeOut(c)
          \/ Release(c)
    \/ \E c, d \in Clients : Move(c, d)
    \/ Shutdown

\* A woken thread gets the mutex in the end: its holders are bounded.
Fairness == \A c \in Clients : WF_vars(WakeUp(c))

Spec == Init /\ [][Next]_vars /\ Fairness
-----------------------------------------------------------------------------
(* Properties. *)

\* "Automatically returns connection to pool on destruction": every open connection
\* is in the pool or with exactly one client, and nobody has a closed one.
Accounted ==
    /\ open = available \cup Held
    /\ available \cap Held = {}
    /\ \A c, d \in Clients : conn[c] = conn[d] /\ conn[c] # NoHandle => c = d

\* The pool never has more connections than it was made for, reconnecting included.
WithinPoolSize == Cardinality(open) <= PoolSize

\* As long as a client sleeps there are as many woken ones as there are idle
\* connections: no notify is lost between clients that return, arrive, overtake a
\* woken one, time out, or find their connection dead.
NoLostWakeUp ==
    ~(Waiting \subseteq signalled) => Cardinality(available) <= Cardinality(signalled)

\* Shutting down closes what is idle and leaves open only what clients hold.
ShutDownCloses == shutdown => available = {}

\* Shutting down releases every client that waits, with or without a timeout.
ShutDownReleases == shutdown ~> Waiting = {}
=============================================================================
