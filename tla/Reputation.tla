----------------------------- MODULE Reputation -----------------------------
(***************************************************************************)
(* Commendations and reports (gc_server/networking_users.cpp:191-850).  A  *)
(* player has tokens, which are not stored: what is left of them is        *)
(* counted from the rows written in the last day or week.  No transaction  *)
(* holds a handler together: it counts, looks whether the target has rows  *)
(* already, and then writes one row per type, each on its own.             *)
(*                                                                         *)
(* Every query names the sender, so that these are the rows of one sender. *)
(* A row is as old as the steps of Tick since it was written; one that is  *)
(* too old for every query is forgotten.  What queries count is receivers, *)
(* so that two rows that are alike stand for any number of them.           *)
(***************************************************************************)
EXTENDS Integers, FiniteSets

CONSTANTS Targets,
          CommendTypes, ReportTypes,   \* 1..3 and 1..6
          CommendTokens, ReportTokens, \* 3 and 6
          Day, Months, Week,           \* the windows of the queries
          Contention,   \* may a statement be refused while the connection lives?
          NoTarget

ASSUME ReputationAssumption ==
    /\ IsFiniteSet(Targets)
    /\ NoTarget \notin Targets
    /\ CommendTypes \subseteq Nat /\ ReportTypes \subseteq Nat
    /\ CommendTokens \in Nat \ {0} /\ ReportTokens \in Nat \ {0}
    /\ Day \in Nat \ {0} /\ Months \in Nat /\ Week \in Nat \ {0}
    /\ Day <= Months
    /\ Contention \in BOOLEAN

VARIABLES
    reports,     \* player_reports
    commends,    \* player_commends
    connected,   \* m_mysql2, which is never opened again
    pc,          \* the statement the handler is about to run
    target,      \* whom the request is about
    wanted,      \* the types it names
    existing,    \* the types of the target's rows, as read
    tokens,      \* availableTokens
    todo,        \* the types still to be written
    written      \* reportSubmitted

handler == <<target, wanted, existing, tokens, todo, written>>
vars    == <<reports, commends, connected, pc, handler>>

\* No key of the tables keeps two rows from being alike: copy tells a second one apart.
Row(types, window) == [to: Targets, type: types, age: 0..(window - 1), copy: {1, 2}]

TypeOK ==
    /\ reports \subseteq Row(ReportTypes, Week)
    /\ commends \subseteq Row(CommendTypes, Months)
    /\ connected \in BOOLEAN
    /\ pc \in {"idle", "countReports", "checkReports", "report", "answer",
               "checkCommends", "countCommends", "commend"}
    /\ target \in Targets \cup {NoTarget}
    /\ wanted \subseteq ReportTypes \cup CommendTypes
    /\ existing \subseteq CommendTypes
    /\ tokens \in 0..ReportTokens \cup 0..CommendTokens
    /\ todo \subseteq ReportTypes \cup CommendTypes
    /\ written \in BOOLEAN

Init ==
    /\ reports = {}
    /\ commends = {}
    /\ connected = TRUE
    /\ pc = "idle"
    /\ target = NoTarget
    /\ wanted = {}
    /\ existing = {}
    /\ tokens = 0
    /\ todo = {}
    /\ written = FALSE

Return ==
    /\ pc' = "idle"
    /\ target' = NoTarget
    /\ wanted' = {}
    /\ existing' = {}
    /\ tokens' = 0
    /\ todo' = {}
    /\ written' = FALSE

\* A statement that does not succeed: without contention only for want of a
\* connection.
Failed == \/ Contention /\ UNCHANGED connected
          \/ connected' = FALSE

Succeeded == connected /\ UNCHANGED connected

Left(total, used) == IF used < total THEN total - used ELSE 0

Receivers(rows, window) == {r.to : r \in {s \in rows : s.age < window}}

First(types) == CHOOSE i \in types : \A j \in types : i <= j

\* The row an INSERT adds, beside one that is like it if there is one.
New(rows, type) ==
    LET alike == {r \in rows : r.to = target /\ r.type = type /\ r.age = 0}
    IN  [to |-> target, type |-> type, age |-> 0, copy |-> IF alike = {} THEN 1 ELSE 2]
-----------------------------------------------------------------------------
HandlePlayerReport(t, types) ==
    /\ pc = "idle"
    /\ pc' = "countReports"
    /\ target' = t
    /\ wanted' = types
    /\ UNCHANGED <<reports, commends, connected, existing, tokens, todo, written>>

\* Mutant of GetPlayerReportTokens: the receivers of the last day only.
GetPlayerReportTokensLate ==
    /\ pc = "countReports"
    /\ \/ Succeeded /\ tokens' = Left(ReportTokens, Cardinality(Receivers(reports, 1)))
       \/ Failed /\ tokens' = ReportTokens
    /\ pc' = IF tokens' = 0 THEN "answer" ELSE "checkReports"
    /\ UNCHANGED <<reports, commends, target, wanted, existing, todo, written>>

\* All tokens when the query fails.
GetPlayerReportTokens ==
    /\ pc = "countReports"
    /\ \/ Succeeded /\ tokens' = Left(ReportTokens, Cardinality(Receivers(reports, Week)))
       \/ Failed /\ tokens' = ReportTokens
    /\ pc' = IF tokens' = 0 THEN "answer" ELSE "checkReports"
    /\ UNCHANGED <<reports, commends, target, wanted, existing, todo, written>>

AlreadyReported == target \in Receivers(reports, Week)

\* No rows are taken to exist when the query fails.  A report without types is
\* answered at once.
CheckReports ==
    /\ pc = "checkReports"
    /\ \/ Succeeded /\ AlreadyReported /\ pc' = "answer" /\ UNCHANGED todo
       \/ /\ (Succeeded /\ ~AlreadyReported) \/ Failed
          /\ pc' = IF wanted = {} THEN "answer" ELSE "report"
          /\ todo' = wanted
    /\ UNCHANGED <<reports, commends, target, wanted, existing, tokens, written>>

\* One row for each type, in the order of the types; a failure is skipped.
WriteReport ==
    /\ pc = "report"
    /\ todo # {}
    /\ \/ Succeeded /\ reports' = reports \cup {New(reports, First(todo))} /\ written' = TRUE
       \/ Failed /\ UNCHANGED <<reports, written>>
    /\ todo' = todo \ {First(todo)}
    /\ pc' = IF todo' = {} THEN "answer" ELSE "report"
    /\ UNCHANGED <<commends, target, wanted, existing, tokens>>

\* Mutant of Told: the token the report cost is not taken off.
ToldAlways == tokens

\* The tokens the answer names.
Told == IF written THEN tokens - 1 ELSE tokens

Answer ==
    /\ pc = "answer"
    /\ Return
    /\ UNCHANGED <<reports, commends, connected>>
-----------------------------------------------------------------------------
HandleCommendPlayer(t, types) ==
    /\ pc = "idle"
    /\ pc' = "checkCommends"
    /\ target' = t
    /\ wanted' = types
    /\ UNCHANGED <<reports, commends, connected, existing, tokens, todo, written>>

\* Mutant of NeedToken: only a change of an existing commendation costs one.
NeedTokenWrongWay(found) == ~(wanted \subseteq found) /\ found # {}

\* addingNewCommendations && !existingAny.
NeedToken(found) == ~(wanted \subseteq found) /\ found = {}

\* Mutant of Changed: what is there already is written again.
ChangedAll(found) == wanted \cup found

\* Mutant of Changed: what is not named any more stays.
ChangedAdded(found) == wanted \ found

\* The types whose rows come or go.
Changed(found) == (wanted \ found) \cup (found \ wanted)

Found == {r.type : r \in {s \in commends : s.to = target}}

\* The types of the target's rows in the last three months; none when the query
\* fails.
CheckCommends ==
    /\ pc = "checkCommends"
    /\ \E found \in {Found, {}} :
         /\ (Succeeded /\ found = Found) \/ (Failed /\ found = {})
         /\ existing' = found
         /\ todo' = Changed(found)
         /\ pc' = IF NeedToken(found) THEN "countCommends" ELSE "commend"
    /\ UNCHANGED <<reports, commends, target, wanted, tokens, written>>

\* Mutant of GetPlayerCommendTokens: one more receiver than there are tokens.
GetPlayerCommendTokensOneMore ==
    /\ pc = "countCommends"
    /\ \/ Succeeded /\ tokens' = Left(CommendTokens + 1, Cardinality(Receivers(commends, Day)))
       \/ Failed /\ tokens' = CommendTokens
    /\ IF tokens' = 0
       THEN Return
       ELSE pc' = "commend" /\ UNCHANGED <<target, wanted, existing, todo, written>>
    /\ UNCHANGED <<reports, commends>>

\* All tokens when the query fails; without a token the request is dropped.
GetPlayerCommendTokens ==
    /\ pc = "countCommends"
    /\ \/ Succeeded /\ tokens' = Left(CommendTokens, Cardinality(Receivers(commends, Day)))
       \/ Failed /\ tokens' = CommendTokens
    /\ IF tokens' = 0
       THEN Return
       ELSE pc' = "commend" /\ UNCHANGED <<target, wanted, existing, todo, written>>
    /\ UNCHANGED <<reports, commends>>

\* The INSERT, or the DELETE of all rows of the type; a failure is skipped.
WriteCommend ==
    LET type == First(todo)
    IN /\ pc = "commend"
       /\ todo # {}
       /\ \/ Succeeded /\ type \in wanted /\ commends' = commends \cup {New(commends, type)}
          \/ /\ Succeeded /\ type \notin wanted
             /\ commends' = {r \in commends : r.to # target \/ r.type # type}
          \/ Failed /\ UNCHANGED commends
       /\ todo' = todo \ {type}
       /\ UNCHANGED <<reports, pc, target, wanted, existing, tokens, written>>

EndCommend ==
    /\ pc = "commend"
    /\ todo = {}
    /\ Return
    /\ UNCHANGED <<reports, commends, connected>>
-----------------------------------------------------------------------------
Older(rows, window) ==
    {[r EXCEPT !.age = @ + 1] : r \in {s \in rows : s.age + 1 < window}}

\* Time passes between requests; a window does not end in the middle of one.
Tick ==
    /\ pc = "idle"
    /\ reports' = Older(reports, Week)
    /\ commends' = Older(commends, Months)
    /\ UNCHANGED <<connected, pc, handler>>

\* The process dies wherever it is; the new one opens a new connection.
Restart ==
    /\ Return
    /\ connected' = TRUE
    /\ UNCHANGED <<reports, commends>>

Next ==
    \/ \E t \in Targets, types \in SUBSET ReportTypes : HandlePlayerReport(t, types)
    \/ GetPlayerReportTokens
    \/ CheckReports
    \/ WriteReport
    \/ Answer
    \/ \E t \in Targets, types \in SUBSET CommendTypes : HandleCommendPlayer(t, types)
    \/ CheckCommends
    \/ GetPlayerCommendTokens
    \/ WriteCommend
    \/ EndCommend
    \/ Tick
    \/ Restart

Spec == Init /\ [][Next]_vars
-----------------------------------------------------------------------------
(* Properties.  They need a database that refuses no statement while the
   connection lives: a count that fails gives all tokens. *)

\* Nobody reports more players in a week than there are tokens, whatever is lost
\* in the middle of a report.
ReportsWithinTokens == Cardinality(Receivers(reports, Week)) <= ReportTokens

\* The player is never told more tokens than the next report will find.
ToldNoMoreThanLeft ==
    pc = "answer" /\ connected =>
        Told \in 0..Left(ReportTokens, Cardinality(Receivers(reports, Week)))

\* No pair has two rows of a type in three months, through any changes of mind.
CommendedOnce == \A r, s \in commends : r.to = s.to /\ r.type = s.type => r = s

\* A player without a commendation gets the first one only while the sender has a
\* token; what comes after it is free.
FirstCommendCostsToken ==
    [][\A t \in Targets :
          t \in Receivers(commends', 1) \ Receivers(commends, Months) =>
             \/ t = target /\ existing # {}
             \/ Cardinality(Receivers(commends, Day)) < CommendTokens]_vars

\* A request that was served to the end is what is stored.
StoredAsWanted == pc = "commend" /\ todo = {} /\ connected => Found = wanted
=============================================================================
