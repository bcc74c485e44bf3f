----------------------------- MODULE WebPolling -----------------------------
(***************************************************************************)
(* WebAPIClient (gc_server/web_api_client.cpp): two polls of the web site, *)
(* one for the alerts of players and one for the tournament, whose answers *)
(* Steam delivers later.  A request is entered into m_pendingRequests, but *)
(* all requests share one CCallResult, and setting it for a request        *)
(* unregisters it from the one before.                                     *)
(***************************************************************************)
EXTENDS Integers

CONSTANTS AlertInterval,        \* 60 s
          TournamentInterval,   \* 30 s
          Timeout,              \* 10 s
          StartTime,            \* time(NULL) at the start, beyond both intervals
          MaxTime,              \* bound: time
          MaxVersion,           \* bound: changes of what the site says
          NoRequest

Kinds    == {"alerts", "tournament"}
Times    == StartTime..MaxTime
Versions == 0..MaxVersion
Request  == [kind: Kinds, at: Times, version: Versions]

ASSUME WebPollingAssumption ==
    /\ {AlertInterval, TournamentInterval, Timeout, StartTime, MaxTime, MaxVersion} \subseteq Nat
    /\ StartTime > AlertInterval
    /\ StartTime > TournamentInterval
    /\ StartTime <= MaxTime
    /\ NoRequest \notin Request

VARIABLES
    now,
    lastPoll,    \* m_lastAlertPoll and m_lastTournamentPoll
    pending,     \* m_pendingRequests
    inFlight,    \* the requests Steam has not completed
    registered,  \* the request m_SteamCallResultHTTPRequestCompleted waits for
    site,        \* the version of its data the site serves
    cached       \* the versions in m_cachedAlerts and m_cachedTournamentState

vars == <<now, lastPoll, pending, inFlight, registered, site, cached>>

TypeOK ==
    /\ now \in Times
    /\ lastPoll \in [Kinds -> {0} \cup Times]
    /\ pending \subseteq Request
    /\ inFlight \subseteq Request
    /\ registered \in Request \cup {NoRequest}
    /\ site \in [Kinds -> Versions]
    /\ cached \in [Kinds -> Versions]

Init ==
    /\ now = StartTime
    /\ lastPoll = [k \in Kinds |-> 0]
    /\ pending = {}
    /\ inFlight = {}
    /\ registered = NoRequest
    /\ site = [k \in Kinds |-> 0]
    /\ cached = [k \in Kinds |-> 0]
-----------------------------------------------------------------------------
Interval(k) == IF k = "alerts" THEN AlertInterval ELSE TournamentInterval

Due == {k \in Kinds : now - lastPoll[k] > Interval(k)}

NewRequest(k) == [kind |-> k, at |-> now, version |-> site[k]]

\* The tournament is polled after the alerts, and displaces them.
Registered(sent) ==
    IF "tournament" \in sent THEN NewRequest("tournament")
    ELSE IF "alerts" \in sent THEN NewRequest("alerts")
    ELSE registered

\* Mutant of Update: the time of the next poll is kept instead of the last one's.
UpdateKeepsNext ==
    /\ Due # {}
    /\ lastPoll' = [k \in Kinds |-> IF k \in Due THEN now + Interval(k) ELSE lastPoll[k]]
    /\ \E sent \in SUBSET Due :
         /\ pending' = pending \cup {NewRequest(k) : k \in sent}
         /\ inFlight' = inFlight \cup {NewRequest(k) : k \in sent}
         /\ registered' = Registered(sent)
    /\ UNCHANGED <<now, site, cached>>

\* Each poll that is due is made; Steam may refuse to send it, and then it is not
\* made again until it is due again.
Update ==
    /\ Due # {}
    /\ lastPoll' = [k \in Kinds |-> IF k \in Due THEN now ELSE lastPoll[k]]
    /\ \E sent \in SUBSET Due :
         /\ pending' = pending \cup {NewRequest(k) : k \in sent}
         /\ inFlight' = inFlight \cup {NewRequest(k) : k \in sent}
         /\ registered' = Registered(sent)
    /\ UNCHANGED <<now, site, cached>>

\* Mutant of OnHTTPRequestCompleted: the call result is not reset.
OnHTTPRequestCompletedStays(r) ==
    /\ UNCHANGED registered
    /\ pending' = pending \ {r}
    /\ \/ \E v \in r.version..site[r.kind] : cached' = [cached EXCEPT ![r.kind] = v]
       \/ UNCHANGED cached

\* The answer is what the site said at some time since the request was sent; or the
\* request failed, and the callback leaves the cache alone.
OnHTTPRequestCompleted(r) ==
    /\ registered' = NoRequest
    /\ pending' = pending \ {r}
    /\ \/ \E v \in r.version..site[r.kind] : cached' = [cached EXCEPT ![r.kind] = v]
       \/ UNCHANGED cached

\* Mutant of Listened: every request is answered to its own callback.
ListenedAll(r) == TRUE

\* Steam calls back for the request the call result waits for only.
Listened(r) == r = registered

Complete(r) ==
    /\ r \in inFlight
    /\ inFlight' = inFlight \ {r}
    /\ IF Listened(r) THEN OnHTTPRequestCompleted(r) ELSE UNCHANGED <<pending, registered, cached>>
    /\ UNCHANGED <<now, lastPoll, site>>

\* Steam gives a request up when its timeout has passed.
Tick ==
    /\ now < MaxTime
    /\ \A r \in inFlight : now < r.at + Timeout
    /\ now' = now + 1
    /\ UNCHANGED <<lastPoll, pending, inFlight, registered, site, cached>>

\* The site has something new to say.
Publish(k) ==
    /\ site[k] < MaxVersion
    /\ site' = [site EXCEPT ![k] = @ + 1]
    /\ UNCHANGED <<now, lastPoll, pending, inFlight, registered, cached>>

Next ==
    \/ Update
    \/ \E r \in inFlight : Complete(r)
    \/ Tick
    \/ \E k \in Kinds : Publish(k)

Spec == Init /\ [][Next]_vars
-----------------------------------------------------------------------------
(* Properties. *)

\* The request waited for is one that Steam will complete and whose callback is
\* known, and so is every request under way: no answer arrives without a callback.
WaitsForPending ==
    /\ registered # NoRequest => registered \in pending \cap inFlight
    /\ inFlight \subseteq pending

\* Answers reach the cache in the order of the site's versions, however slow they
\* are: what a player is shown never goes back.
CacheNeverGoesBack == [][\A k \in Kinds : cached[k] <= cached'[k]]_vars
=============================================================================
