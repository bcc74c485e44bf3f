-------------------------- MODULE ReputationProofs --------------------------
(***************************************************************************)
(* What the counted tokens are good for, for any number of players, types, *)
(* tokens and days.  The types and the control of the handlers need no     *)
(* assumption on the database; everything that is counted needs one that   *)
(* refuses no statement while the connection lives, because a count that   *)
(* fails gives all tokens.                                                 *)
(***************************************************************************)
EXTENDS Reputation, FiniteSetTheorems, WellFoundedInduction, TLAPS

USE ReputationAssumption

-----------------------------------------------------------------------------
(* The first of some types. *)

Below == OpToRel(<, Nat)

LEMMA BelowIsLess == \A x, y \in Nat : x < y => <<x, y>> \in Below
  BY DEF OpToRel, Below

\* Some type comes first.
LEMMA Smallest ==
    ASSUME NEW S \in SUBSET Nat, S # {}
    PROVE  \E n \in S : \A m \in S : n <= m
<1>1. IsWellFoundedOn(Below, Nat)
  BY NatLessThanWellFounded DEF Below
<1>2. \E x \in S : \A y \in S : ~ (<<y, x>> \in Below)
  BY <1>1, WFMin
<1>3. PICK x \in S : \A y \in S : ~ (<<y, x>> \in Below)
  BY <1>2
<1>4. \A y \in S : ~ (y < x)
  BY <1>3, BelowIsLess, Zenon
<1>5. \A y \in S : x <= y
  BY <1>4
<1> QED
  BY <1>5

LEMMA FirstIsOne ==
    ASSUME NEW S \in SUBSET Nat, S # {}
    PROVE  First(S) \in S
<1>1. \E n \in S : \A m \in S : n <= m
  BY Smallest
<1> QED
  BY <1>1, Zenon DEF First

-----------------------------------------------------------------------------
(* The receivers of some rows. *)

\* There are finitely many, so that they can be counted.
LEMMA ReceiversFinite ==
    ASSUME NEW types, NEW span, NEW rows \in SUBSET Row(types, span), NEW window
    PROVE  /\ Receivers(rows, window) \subseteq Targets
           /\ IsFiniteSet(Receivers(rows, window))
           /\ Cardinality(Receivers(rows, window)) \in Nat
<1>1. Receivers(rows, window) \subseteq Targets
  BY DEF Receivers, Row
<1>2. IsFiniteSet(Receivers(rows, window))
  BY <1>1, FS_Subset
<1> QED
  BY <1>1, <1>2, FS_CardinalityType

\* A row more is a receiver more at most.
LEMMA OneReceiverMore ==
    ASSUME NEW rows, NEW row, NEW window \in Nat \ {0}, row.age = 0
    PROVE  Receivers(rows \cup {row}, window) = Receivers(rows, window) \cup {row.to}
  BY DEF Receivers

\* Time makes no receivers.
LEMMA AgeingReceivers ==
    ASSUME NEW types, NEW span \in Nat, NEW rows \in SUBSET Row(types, span)
    PROVE  Receivers(Older(rows, span), span) \subseteq Receivers(rows, span)
  BY DEF Receivers, Older, Row

\* Nor does it change what a row says.
LEMMA AgeingRows ==
    ASSUME NEW types, NEW span \in Nat, NEW rows \in SUBSET Row(types, span)
    PROVE  /\ Older(rows, span) \in SUBSET Row(types, span)
           /\ \A r \in Older(rows, span) :
                r.age # 0 /\ \E s \in rows : r = [s EXCEPT !.age = @ + 1]
<1> SUFFICES ASSUME NEW r \in Older(rows, span)
             PROVE  /\ r \in Row(types, span)
                    /\ r.age # 0
                    /\ \E s \in rows : r = [s EXCEPT !.age = @ + 1]
  OBVIOUS
<1>1. PICK s \in rows : s.age + 1 < span /\ r = [s EXCEPT !.age = @ + 1]
  BY DEF Older
<1>2. s \in Row(types, span)
  OBVIOUS
<1> QED
  BY <1>1, <1>2 DEF Row

LEMMA LeftBounds ==
    ASSUME NEW total \in Nat \ {0}, NEW used \in Nat
    PROVE  /\ Left(total, used) \in 0..total
           /\ Left(total, used) # 0 <=> used < total
           /\ Left(total, used + 1) = IF used < total THEN Left(total, used) - 1 ELSE 0
  BY DEF Left

-----------------------------------------------------------------------------
(* The control of a handler, whatever the database refuses. *)

Control ==
    /\ pc # "idle" => target \in Targets
    /\ pc \notin {"report", "answer"} => ~written
    /\ pc \in {"countReports", "checkReports"} => wanted \subseteq ReportTypes
    /\ pc = "report" => todo # {} /\ todo \subseteq ReportTypes
    /\ pc \in {"checkCommends", "countCommends", "commend"} => wanted \subseteq CommendTypes
    /\ pc \in {"countCommends", "commend"} => todo \subseteq CommendTypes

Controlled == TypeOK /\ Control

LEMMA TokensTyped ==
    ASSUME NEW rows, NEW window,
           Cardinality(Receivers(rows, window)) \in Nat
    PROVE  /\ Left(ReportTokens, Cardinality(Receivers(rows, window))) \in 0..ReportTokens
           /\ Left(CommendTokens, Cardinality(Receivers(rows, window))) \in 0..CommendTokens
  BY LeftBounds

LEMMA NewIsRow ==
    ASSUME target \in Targets, NEW types, NEW type \in types, NEW rows
    PROVE  New(rows, type) \in Row(types, Week) /\ New(rows, type) \in Row(types, Months)
<1>1. 0 \in 0..(Week - 1) /\ 0 \in 0..(Months - 1)
  BY SMT
<1> QED
  BY <1>1 DEF New, Row

LEMMA FoundTyped == TypeOK => Found \subseteq CommendTypes
  BY DEF TypeOK, Found, Row

LEMMA NoTokens == 0 \in 0..ReportTokens \cup 0..CommendTokens
  BY SMT

LEMMA ControlInitially == Init => Controlled
<1>1. Init => TypeOK
  BY NoTokens DEF Init, TypeOK
<1>2. Init => Control
  BY DEF Init, Control
<1> QED
  BY <1>1, <1>2 DEF Controlled

LEMMA ReturnControl ==
    ASSUME Return, connected' \in BOOLEAN,
           reports' \subseteq Row(ReportTypes, Week), commends' \subseteq Row(CommendTypes, Months)
    PROVE  Controlled'
<1>1. TypeOK'
  BY NoTokens DEF Return, TypeOK
<1>2. Control'
  BY DEF Return, Control
<1> QED
  BY <1>1, <1>2 DEF Controlled

\* The statements that leave the rows alone.
LEMMA ReadsControl ==
    ASSUME Controlled, GetPlayerReportTokens \/ CheckReports \/ CheckCommends \/ GetPlayerCommendTokens
    PROVE  Controlled'
<1> USE DEF Controlled, Succeeded, Failed
<1>1. ASSUME GetPlayerReportTokens PROVE Controlled'
  <2>1. /\ reports' \subseteq Row(ReportTypes, Week)
        /\ commends' \subseteq Row(CommendTypes, Months)
    BY <1>1 DEF GetPlayerReportTokens, TypeOK
  <2>2. Cardinality(Receivers(reports, Week)) \in Nat
    BY ReceiversFinite DEF TypeOK
  <2>3. tokens' \in 0..ReportTokens
    <3>1. Left(ReportTokens, Cardinality(Receivers(reports, Week))) \in 0..ReportTokens
      BY <2>2, TokensTyped
    <3>2. ReportTokens \in 0..ReportTokens
      BY SMT
    <3> QED
      BY <1>1, <3>1, <3>2, Zenon DEF GetPlayerReportTokens
  <2>4. connected' \in BOOLEAN
    BY <1>1 DEF GetPlayerReportTokens, TypeOK
  <2>5. TypeOK'
    BY <1>1, <2>1, <2>3, <2>4 DEF GetPlayerReportTokens, TypeOK
  <2>6. Control'
    BY <1>1 DEF GetPlayerReportTokens, Control
  <2> QED
    BY <2>5, <2>6
<1>2. ASSUME CheckReports PROVE Controlled'
  <2>1. connected' \in BOOLEAN /\ todo' \subseteq ReportTypes \cup CommendTypes
    BY <1>2 DEF CheckReports, TypeOK, Control
  <2>2. TypeOK'
    BY <1>2, <2>1 DEF CheckReports, TypeOK
  <2>3. Control'
    BY <1>2 DEF CheckReports, Control
  <2> QED
    BY <2>2, <2>3
<1>3. ASSUME CheckCommends PROVE Controlled'
  <2>1. wanted \subseteq CommendTypes /\ Found \subseteq CommendTypes
    BY <1>3, FoundTyped DEF CheckCommends, Control
  <2>2. existing' \subseteq CommendTypes /\ todo' \subseteq CommendTypes
    BY <1>3, <2>1 DEF CheckCommends, Changed
  <2>3. connected' \in BOOLEAN
    BY <1>3 DEF CheckCommends, TypeOK
  <2>4. pc' \in {"countCommends", "commend"}
    BY <1>3 DEF CheckCommends
  <2>5. UNCHANGED <<reports, commends, target, wanted, tokens, written>> /\ pc = "checkCommends"
    BY <1>3 DEF CheckCommends
  <2>6. TypeOK'
    BY <2>2, <2>3, <2>4, <2>5 DEF TypeOK
  <2>7. Control'
    BY <2>1, <2>2, <2>4, <2>5 DEF Control
  <2> QED
    BY <2>6, <2>7
<1>4. ASSUME GetPlayerCommendTokens PROVE Controlled'
  <2>1. /\ reports' \subseteq Row(ReportTypes, Week)
        /\ commends' \subseteq Row(CommendTypes, Months)
        /\ connected' \in BOOLEAN
    BY <1>4 DEF GetPlayerCommendTokens, TypeOK
  <2>2. Cardinality(Receivers(commends, Day)) \in Nat
    BY ReceiversFinite DEF TypeOK
  <2>3. tokens' \in 0..CommendTokens
    <3>1. Left(CommendTokens, Cardinality(Receivers(commends, Day))) \in 0..CommendTokens
      BY <2>2, TokensTyped
    <3>2. CommendTokens \in 0..CommendTokens
      BY SMT
    <3> QED
      BY <1>4, <3>1, <3>2, Zenon DEF GetPlayerCommendTokens
  <2>4. CASE tokens' = 0
    BY <1>4, <2>1, <2>4, ReturnControl DEF GetPlayerCommendTokens
  <2>5. CASE tokens' # 0
    <3>1. pc' = "commend" /\ UNCHANGED <<target, wanted, existing, todo, written>>
      BY <1>4, <2>5 DEF GetPlayerCommendTokens
    <3>2. TypeOK'
      BY <2>1, <2>3, <3>1 DEF TypeOK
    <3>3. Control'
      BY <1>4, <3>1 DEF GetPlayerCommendTokens, Control
    <3> QED
      BY <3>2, <3>3
  <2> QED
    BY <2>4, <2>5
<1> QED
  BY <1>1, <1>2, <1>3, <1>4

\* The statements that write one row, or all rows of one type.
LEMMA WritesControl ==
    ASSUME Controlled, WriteReport \/ WriteCommend
    PROVE  Controlled'
<1> USE DEF Controlled, Succeeded, Failed
<1>1. ASSUME WriteReport PROVE Controlled'
  <2>1. First(todo) \in todo /\ todo \subseteq ReportTypes /\ target \in Targets
    BY <1>1, FirstIsOne DEF WriteReport, Control
  <2>2. New(reports, First(todo)) \in Row(ReportTypes, Week)
    BY <2>1, NewIsRow
  <2>3. /\ reports' \subseteq Row(ReportTypes, Week)
        /\ connected' \in BOOLEAN /\ written' \in BOOLEAN
    BY <1>1, <2>2 DEF WriteReport, TypeOK
  <2>4. pc' \in {"report", "answer"} /\ todo' \subseteq todo
    BY <1>1 DEF WriteReport
  <2>5. UNCHANGED <<commends, target, wanted, existing, tokens>> /\ (pc' = "report" => todo' # {})
    BY <1>1 DEF WriteReport
  <2>6. TypeOK'
    BY <2>3, <2>4, <2>5 DEF TypeOK
  <2>7. Control'
    BY <2>1, <2>4, <2>5 DEF Control
  <2> QED
    BY <2>6, <2>7
<1>2. ASSUME WriteCommend PROVE Controlled'
  <2>1. First(todo) \in todo /\ todo \subseteq CommendTypes /\ target \in Targets
    BY <1>2, FirstIsOne DEF WriteCommend, Control
  <2>3. commends' \subseteq commends \cup {New(commends, First(todo))} /\ connected' \in BOOLEAN
    BY <1>2 DEF WriteCommend, TypeOK
  <2>4. New(commends, First(todo)) \in Row(CommendTypes, Months)
    BY <2>1, NewIsRow
  <2>5. commends' \subseteq Row(CommendTypes, Months)
    BY <2>3, <2>4 DEF TypeOK
  <2>6. UNCHANGED <<reports, pc, target, wanted, existing, tokens, written>> /\ todo' \subseteq todo /\ pc = "commend"
    BY <1>2 DEF WriteCommend
  <2>7. TypeOK'
    BY <2>3, <2>5, <2>6 DEF TypeOK
  <2>8. Control'
    BY <2>6 DEF Control
  <2> QED
    BY <2>7, <2>8
<1> QED
  BY <1>1, <1>2

LEMMA ControlInductive == Controlled /\ [Next]_vars => Controlled'
<1> SUFFICES ASSUME Controlled, [Next]_vars PROVE Controlled'
  OBVIOUS
<1> USE DEF Controlled
<1>1. ASSUME NEW t \in Targets, NEW types \in SUBSET ReportTypes, HandlePlayerReport(t, types)
      PROVE  Controlled'
  BY <1>1 DEF HandlePlayerReport, TypeOK, Control
<1>2. ASSUME NEW t \in Targets, NEW types \in SUBSET CommendTypes, HandleCommendPlayer(t, types)
      PROVE  Controlled'
  BY <1>2 DEF HandleCommendPlayer, TypeOK, Control
<1>3. CASE GetPlayerReportTokens \/ CheckReports \/ CheckCommends \/ GetPlayerCommendTokens
  BY <1>3, ReadsControl
<1>4. CASE WriteReport \/ WriteCommend
  BY <1>4, WritesControl
<1>5. CASE Answer \/ EndCommend \/ Restart
  BY <1>5, ReturnControl DEF Answer, EndCommend, Restart, TypeOK
<1>6. CASE Tick
  <2>1. /\ reports' \subseteq Row(ReportTypes, Week)
        /\ commends' \subseteq Row(CommendTypes, Months)
    BY <1>6, AgeingRows DEF Tick, TypeOK
  <2> QED
    BY <1>6, <2>1 DEF Tick, handler, TypeOK, Control
<1>7. CASE UNCHANGED vars
  BY <1>7 DEF vars, handler, TypeOK, Control
<1> QED
  BY <1>1, <1>2, <1>3, <1>4, <1>5, <1>6, <1>7 DEF Next

\* Every value a handler keeps is of its kind, whatever the database refuses: no
\* row is ever older than the window it is kept for, and no count of tokens is
\* outside its total.
THEOREM ReputationTypeCorrect == Spec => []TypeOK
<1>1. Spec => []Controlled
  BY ControlInitially, ControlInductive, PTL DEF Spec
<1> QED
  BY <1>1, PTL DEF Controlled

-----------------------------------------------------------------------------
(* What was counted, as long as a statement fails only with the connection. *)

Reported == Receivers(reports, Week)

Remaining == Left(ReportTokens, Cardinality(Reported))

\* What the handler of a report knows of the tokens, and of the target.
Reporting ==
    connected =>
        /\ pc \in {"checkReports", "report", "answer"} => Told = Remaining
        /\ pc \in {"checkReports", "report"} => tokens # 0
        /\ pc = "report" => (written <=> target \in Reported)

\* What the handler of a commendation has still to change.
Commending ==
    connected /\ pc \in {"countCommends", "commend"} =>
        /\ todo = Changed(Found)
        /\ existing = {} => Found \subseteq wanted

\* A first commendation is written only after a token was found for it.
Paid ==
    connected /\ pc = "commend" /\ existing = {} /\ todo # {} /\ Found = {} =>
        Cardinality(Receivers(commends, Day)) < CommendTokens

Counted == Controlled /\ Reporting /\ Commending /\ Paid /\ ReportsWithinTokens /\ CommendedOnce

LEMMA RemainingTyped ==
    ASSUME Controlled
    PROVE  /\ Cardinality(Reported) \in Nat
           /\ Remaining \in 0..ReportTokens
           /\ Remaining # 0 <=> Cardinality(Reported) < ReportTokens
<1>1. Cardinality(Reported) \in Nat
  BY ReceiversFinite DEF Controlled, TypeOK, Reported
<1> QED
  BY <1>1, LeftBounds DEF Remaining

LEMMA CountedInitially == Init => Counted
<1> SUFFICES ASSUME Init PROVE Counted
  OBVIOUS
<1>1. Receivers(reports, Week) = {}
  BY DEF Init, Receivers
<1>2. ReportsWithinTokens
  BY <1>1, FS_EmptySet, SMT DEF ReportsWithinTokens
<1> QED
  BY <1>2, ControlInitially DEF Init, Counted, Reporting, Commending, Paid, CommendedOnce

\* Between the requests nothing is promised but the rows themselves.
LEMMA IdleCounted ==
    ASSUME Controlled', pc' \in {"idle", "countReports", "checkCommends"},
           ReportsWithinTokens', CommendedOnce'
    PROVE  Counted'
  BY DEF Counted, Reporting, Commending, Paid

\* The rows stay: so do their counts.
LEMMA RowsUnchanged ==
    ASSUME UNCHANGED <<reports, commends>>, Counted
    PROVE  ReportsWithinTokens' /\ CommendedOnce'
  BY DEF Counted, ReportsWithinTokens, CommendedOnce

\* Without a connection nothing is promised either.
LEMMA LostCounted ==
    ASSUME Controlled', ~connected', UNCHANGED <<reports, commends>>, Counted
    PROVE  Counted'
<1>1. ReportsWithinTokens' /\ CommendedOnce'
  BY RowsUnchanged
<1> QED
  BY <1>1 DEF Counted, Reporting, Commending, Paid

LEMMA ReportCounted ==
    ASSUME ~Contention, Counted, Controlled',
           GetPlayerReportTokens \/ CheckReports \/ WriteReport
    PROVE  Counted'
<1> USE DEF Succeeded, Failed
<1>1. CASE ~connected'
  BY <1>1, LostCounted DEF GetPlayerReportTokens, CheckReports, WriteReport
<1>2. CASE connected'
  <2>1. connected
    BY <1>2 DEF GetPlayerReportTokens, CheckReports, WriteReport
  <2>2. Commending' /\ Paid'
    BY DEF GetPlayerReportTokens, CheckReports, WriteReport, Commending, Paid
  <2>3. CASE GetPlayerReportTokens
    <3>1. ReportsWithinTokens' /\ CommendedOnce'
      BY <2>3, RowsUnchanged DEF GetPlayerReportTokens
    <3>2. tokens' = Remaining /\ Remaining' = Remaining /\ ~written'
      BY <1>2, <2>3 DEF GetPlayerReportTokens, Remaining, Reported, Counted, Controlled, Control
    <3>3. pc' = IF tokens' = 0 THEN "answer" ELSE "checkReports"
      BY <2>3 DEF GetPlayerReportTokens
    <3>4. Reporting'
      BY <3>2, <3>3 DEF Reporting, Told
    <3> QED
      BY <2>2, <3>1, <3>4 DEF Counted
  <2>4. CASE CheckReports
    <3>1. ReportsWithinTokens' /\ CommendedOnce'
      BY <2>4, RowsUnchanged DEF CheckReports
    <3>2. Remaining' = Remaining /\ Reported' = Reported /\ tokens' = tokens /\ ~written /\ ~written'
      BY <2>4 DEF CheckReports, Remaining, Reported, Counted, Controlled, Control
    <3>3. tokens # 0 /\ Told = Remaining
      BY <2>1, <2>4 DEF CheckReports, Counted, Reporting
    <3>4. pc' = "report" => target' \notin Reported
      BY <1>2, <2>4 DEF CheckReports, AlreadyReported, Reported
    <3>5. pc' \in {"report", "answer"}
      BY <2>4 DEF CheckReports
    <3>6. Reporting'
      BY <3>2, <3>3, <3>4, <3>5 DEF Reporting, Told
    <3> QED
      BY <2>2, <3>1, <3>6 DEF Counted
  <2>5. CASE WriteReport
    <3>1. /\ reports' = reports \cup {New(reports, First(todo))} /\ written' = TRUE
          /\ UNCHANGED <<commends, target, tokens>>
          /\ pc = "report" /\ pc' \in {"report", "answer"}
      BY <1>2, <2>5 DEF WriteReport
    <3>2. New(reports, First(todo)).to = target /\ New(reports, First(todo)).age = 0
      BY DEF New
    <3>3. Reported' = Reported \cup {target}
      BY <3>1, <3>2, OneReceiverMore DEF Reported
    <3>4. Told = Remaining /\ tokens # 0 /\ (written <=> target \in Reported)
      BY <2>1, <3>1 DEF Counted, Reporting
    <3>5. tokens \in Nat
      BY DEF Counted, Controlled, TypeOK
    <3>6. Told' = Remaining' /\ ReportsWithinTokens'
      <4>1. CASE written
        <5>1. Reported' = Reported
          BY <3>3, <3>4, <4>1
        <5>2. Told' = Told
          BY <3>1, <4>1 DEF Told
        <5> QED
          BY <5>1, <5>2, <3>4 DEF Remaining, Counted, ReportsWithinTokens, Reported
      <4>2. CASE ~written
        <5>1. IsFiniteSet(Reported) /\ Cardinality(Reported) \in Nat
          BY ReceiversFinite DEF Counted, Controlled, TypeOK, Reported
        <5>2. Cardinality(Reported') = Cardinality(Reported) + 1
          BY <3>3, <3>4, <4>2, <5>1, FS_AddElement
        <5>3. Remaining # 0 /\ Remaining = tokens
          BY <3>4, <4>2 DEF Told
        <5>4. Cardinality(Reported) < ReportTokens
          BY <5>3, RemainingTyped DEF Counted
        <5>5. Left(ReportTokens, Cardinality(Reported) + 1) = Remaining - 1
          BY <5>1, <5>4, LeftBounds DEF Remaining
        <5>6. Told' = Remaining - 1
          BY <3>1, <5>3 DEF Told
        <5>7. Told' = Remaining'
          BY <5>2, <5>5, <5>6 DEF Remaining
        <5>8. Cardinality(Reported') <= ReportTokens
          BY <5>1, <5>2, <5>4, SMT
        <5> QED
          BY <5>7, <5>8 DEF ReportsWithinTokens, Reported
      <4> QED
        BY <4>1, <4>2
    <3>7. Reporting'
      BY <3>1, <3>3, <3>4, <3>6 DEF Reporting
    <3>8. CommendedOnce'
      BY <3>1 DEF Counted, CommendedOnce
    <3> QED
      BY <2>2, <3>6, <3>7, <3>8 DEF Counted
  <2> QED
    BY <2>3, <2>4, <2>5
<1> QED
  BY <1>1, <1>2

\* The types of the target's rows, after a row was written or a type deleted.
LEMMA FoundAfterInsert ==
    ASSUME NEW type, UNCHANGED target, commends' = commends \cup {New(commends, type)}
    PROVE  Found' = Found \cup {type}
<1>1. New(commends, type).to = target' /\ New(commends, type).type = type
  BY DEF New
<1> HIDE DEF New
<1>2. \A x : x \in Found' <=> \E r \in commends \cup {New(commends, type)} : r.to = target' /\ r.type = x
  BY DEF Found
<1>3. \A x : x \in Found <=> \E r \in commends : r.to = target' /\ r.type = x
  BY DEF Found
<1> QED
  BY <1>1, <1>2, <1>3, Zenon

LEMMA FoundAfterDelete ==
    ASSUME NEW type, UNCHANGED target,
           commends' = {r \in commends : r.to # target \/ r.type # type}
    PROVE  Found' = Found \ {type}
  BY DEF Found

LEMMA CommendCounted ==
    ASSUME ~Contention, Counted, Controlled',
           CheckCommends \/ GetPlayerCommendTokens \/ WriteCommend
    PROVE  Counted'
<1> USE DEF Succeeded, Failed
<1>1. ASSUME CheckCommends PROVE Counted'
  <2>1. ReportsWithinTokens' /\ CommendedOnce'
    BY <1>1, RowsUnchanged DEF CheckCommends
  <2>2. CASE ~connected'
    BY <1>1, <2>2, LostCounted DEF CheckCommends
  <2>3. CASE connected'
    <3>1. /\ existing' = Found /\ todo' = Changed(Found)
          /\ pc' = IF NeedToken(Found) THEN "countCommends" ELSE "commend"
          /\ UNCHANGED <<reports, commends, target, wanted>>
      BY <1>1, <2>3 DEF CheckCommends
    <3>2. Found' = Found /\ (Changed(Found))' = Changed(Found)
      BY <3>1 DEF Found, Changed
    <3>3. Commending'
      BY <3>1, <3>2 DEF Commending
    <3>4. ASSUME pc' = "commend", Found' = {} PROVE todo' = {}
      BY <3>1, <3>2, <3>4 DEF NeedToken, Changed
    <3>5. Paid'
      BY <3>4 DEF Paid
    <3>6. Reporting'
      BY <3>1 DEF Reporting
    <3> QED
      BY <2>1, <3>3, <3>5, <3>6 DEF Counted
  <2> QED
    BY <2>2, <2>3
<1>2. ASSUME GetPlayerCommendTokens PROVE Counted'
  <2>1. ReportsWithinTokens' /\ CommendedOnce'
    BY <1>2, RowsUnchanged DEF GetPlayerCommendTokens
  <2>2. CASE ~connected'
    BY <1>2, <2>2, LostCounted DEF GetPlayerCommendTokens
  <2>3. CASE tokens' = 0
    BY <1>2, <2>1, <2>3, IdleCounted DEF GetPlayerCommendTokens, Return
  <2>4. CASE connected' /\ tokens' # 0
    <3>1. /\ connected /\ tokens' = Left(CommendTokens, Cardinality(Receivers(commends, Day)))
          /\ pc = "countCommends" /\ pc' = "commend"
          /\ UNCHANGED <<reports, commends, target, wanted, existing, todo, written>>
      BY <1>2, <2>4 DEF GetPlayerCommendTokens
    <3>2. Cardinality(Receivers(commends, Day)) < CommendTokens
      <4>1. Cardinality(Receivers(commends, Day)) \in Nat
        BY ReceiversFinite DEF Counted, Controlled, TypeOK
      <4> QED
        BY <2>4, <3>1, <4>1, LeftBounds
    <3>3. Paid'
      BY <3>1, <3>2 DEF Paid
    <3>4. todo = Changed(Found) /\ (existing = {} => Found \subseteq wanted)
      BY <3>1 DEF Counted, Commending
    <3>5. Found' = Found /\ (Changed(Found))' = Changed(Found)
      BY <3>1 DEF Found, Changed
    <3>6. Commending'
      BY <3>1, <3>4, <3>5 DEF Commending
    <3>7. Reporting'
      BY <3>1 DEF Reporting
    <3> QED
      BY <2>1, <3>3, <3>6, <3>7 DEF Counted
  <2> QED
    BY <2>2, <2>3, <2>4
<1>3. ASSUME WriteCommend PROVE Counted'
  <2> DEFINE type == First(todo)
  <2>1. CASE ~connected'
    BY <1>3, <2>1, LostCounted DEF WriteCommend
  <2>2. CASE connected'
    <3>1. /\ connected /\ pc = "commend" /\ pc' = "commend" /\ todo # {}
          /\ todo' = todo \ {type}
          /\ UNCHANGED <<reports, target, wanted, existing>>
      BY <1>3, <2>2 DEF WriteCommend
    <3>2. todo \subseteq CommendTypes
      BY <3>1 DEF Counted, Controlled, Control
    <3>3. type \in todo
      BY <3>1, <3>2, FirstIsOne
    <3>4. todo = Changed(Found) /\ (existing = {} => Found \subseteq wanted)
      BY <3>1 DEF Counted, Commending
    <3>5. /\ ReportsWithinTokens'
          /\ Reporting'
      BY <3>1 DEF Counted, ReportsWithinTokens, Reporting
    <3> HIDE DEF type
    <3>6. CASE type \in wanted /\ commends' = commends \cup {New(commends, type)}
      <4>1. Found' = Found \cup {type}
        BY <3>1, <3>6, FoundAfterInsert
      <4>2. type \notin Found
        BY <3>3, <3>4, <3>6 DEF Changed
      <4>3. Commending'
        <5>1. (Changed(Found))' = todo'
          BY <3>1, <3>4, <3>6, <4>1, <4>2 DEF Changed
        <5> QED
          BY <3>1, <3>4, <3>6, <4>1, <5>1 DEF Commending
      <4>4. Paid'
        BY <4>1 DEF Paid
      <4>5. \A r \in commends : ~ (r.to = target /\ r.type = type)
        BY <4>2 DEF Found
      <4>6. CommendedOnce'
        BY <3>6, <4>5 DEF Counted, CommendedOnce, New
      <4> QED
        BY <3>5, <4>3, <4>4, <4>6 DEF Counted
    <3>7. CASE /\ type \notin wanted
               /\ commends' = {r \in commends : r.to # target \/ r.type # type}
      <4>1. Found' = Found \ {type}
        BY <3>1, <3>7, FoundAfterDelete
      <4>2. type \in Found
        BY <3>3, <3>4, <3>7 DEF Changed
      <4>3. Commending'
        <5>1. (Changed(Found))' = todo'
          BY <3>1, <3>4, <3>7, <4>1, <4>2 DEF Changed
        <5> QED
          BY <3>1, <3>4, <3>7, <4>1, <5>1 DEF Commending
      <4>4. existing' # {}
        BY <3>1, <3>4, <3>7, <4>2
      <4>5. Paid'
        BY <4>4 DEF Paid
      <4>6. CommendedOnce'
        BY <3>7 DEF Counted, CommendedOnce
      <4> QED
        BY <3>5, <4>3, <4>5, <4>6 DEF Counted
    <3> QED
      BY <1>3, <2>2, <3>6, <3>7 DEF WriteCommend, type
  <2> QED
    BY <2>1, <2>2
<1> QED
  BY <1>1, <1>2, <1>3

LEMMA TickCounted ==
    ASSUME Counted, Controlled', Tick
    PROVE  Counted'
<1>1. ReportsWithinTokens'
  <2>1. Receivers(reports', Week) \subseteq Receivers(reports, Week)
    BY AgeingReceivers DEF Tick, Counted, Controlled, TypeOK
  <2>2. IsFiniteSet(Receivers(reports, Week)) /\ Cardinality(Receivers(reports, Week)) \in Nat
    BY ReceiversFinite DEF Counted, Controlled, TypeOK
  <2>3. /\ Cardinality(Receivers(reports', Week)) \in Nat
        /\ Cardinality(Receivers(reports', Week)) <= Cardinality(Receivers(reports, Week))
    BY <2>1, <2>2, FS_Subset, FS_CardinalityType
  <2> QED
    BY <2>2, <2>3, SMT DEF Counted, ReportsWithinTokens
<1>2. CommendedOnce'
  <2> SUFFICES ASSUME NEW r1 \in commends', NEW r2 \in commends',
                      r1.to = r2.to, r1.type = r2.type
               PROVE  r1 = r2
    BY DEF CommendedOnce
  <2>1. PICK s1 \in commends : r1 = [s1 EXCEPT !.age = @ + 1]
    BY AgeingRows DEF Tick, Counted, Controlled, TypeOK
  <2>2. PICK s2 \in commends : r2 = [s2 EXCEPT !.age = @ + 1]
    BY AgeingRows DEF Tick, Counted, Controlled, TypeOK
  <2>3. s1 \in Row(CommendTypes, Months) /\ s2 \in Row(CommendTypes, Months)
    BY DEF Counted, Controlled, TypeOK
  <2>4. s1.to = s2.to /\ s1.type = s2.type
    BY <2>1, <2>2, <2>3 DEF Row
  <2> QED
    BY <2>1, <2>2, <2>4 DEF Counted, CommendedOnce
<1> QED
  BY <1>1, <1>2, IdleCounted DEF Tick

LEMMA CountedInductive ==
    ASSUME ~Contention
    PROVE  Counted /\ [Next]_vars => Counted'
<1> SUFFICES ASSUME Counted, [Next]_vars PROVE Counted'
  OBVIOUS
<1>1. Controlled'
  BY ControlInductive DEF Counted
<1>2. ASSUME NEW t \in Targets, NEW types \in SUBSET ReportTypes, HandlePlayerReport(t, types)
      PROVE  Counted'
  BY <1>1, <1>2, RowsUnchanged, IdleCounted DEF HandlePlayerReport
<1>3. ASSUME NEW t \in Targets, NEW types \in SUBSET CommendTypes, HandleCommendPlayer(t, types)
      PROVE  Counted'
  BY <1>1, <1>3, RowsUnchanged, IdleCounted DEF HandleCommendPlayer
<1>4. CASE GetPlayerReportTokens \/ CheckReports \/ WriteReport
  BY <1>1, <1>4, ReportCounted
<1>5. CASE CheckCommends \/ GetPlayerCommendTokens \/ WriteCommend
  BY <1>1, <1>5, CommendCounted
<1>6. CASE Answer \/ EndCommend \/ Restart
  BY <1>1, <1>6, RowsUnchanged, IdleCounted DEF Answer, EndCommend, Restart, Return
<1>7. CASE Tick
  BY <1>1, <1>7, TickCounted
<1>8. CASE UNCHANGED vars
  BY <1>1, <1>8 DEF vars, handler, Counted, Reporting, Commending, Paid, ReportsWithinTokens,
     CommendedOnce, Told, Remaining, Reported, Found, Changed
<1> QED
  BY <1>2, <1>3, <1>4, <1>5, <1>6, <1>7, <1>8 DEF Next

LEMMA CountedInvariance ==
    ASSUME ~Contention
    PROVE  Spec => []Counted
<1>1. Counted /\ [Next]_vars => Counted'
  BY CountedInductive
<1> QED
  BY <1>1, CountedInitially, PTL DEF Spec

-----------------------------------------------------------------------------
(* The properties. *)

\* GetPlayerReportTokens counts the players reported in the week, the handler
\* writes rows for one player, and a crash or a lost connection between two of the
\* rows does not give the token back: nobody reports more players than tokens.
THEOREM ReportsWithinTokensAlways ==
    ASSUME ~Contention
    PROVE  Spec => []ReportsWithinTokens
<1>1. Counted => ReportsWithinTokens
  BY DEF Counted
<1> QED
  BY <1>1, CountedInvariance, PTL

\* The answer to a report names the tokens that the next count will give, be the
\* report new, repeated, or cut short.
THEOREM ToldNoMoreThanLeftAlways ==
    ASSUME ~Contention
    PROVE  Spec => []ToldNoMoreThanLeft
<1>1. Counted => ToldNoMoreThanLeft
  <2>1. Counted => Remaining \in 0..ReportTokens
    BY RemainingTyped DEF Counted
  <2>2. Counted /\ pc = "answer" /\ connected => Told = Remaining
    BY DEF Counted, Reporting
  <2>3. Counted => Remaining \in 0..Remaining
    BY <2>1, SMT
  <2> QED
    BY <2>2, <2>3 DEF ToldNoMoreThanLeft, Remaining, Reported
<1> QED
  BY <1>1, CountedInvariance, PTL

\* player_commends has no key that would forbid it, but HandleCommendPlayer writes
\* only what it did not read: no pair ever has two rows of a type.
THEOREM CommendedOnceAlways ==
    ASSUME ~Contention
    PROVE  Spec => []CommendedOnce
<1>1. Counted => CommendedOnce
  BY DEF Counted
<1> QED
  BY <1>1, CountedInvariance, PTL

\* When HandleCommendPlayer has gone through its types, the rows of the target are
\* the types the request names.
THEOREM StoredAsWantedAlways ==
    ASSUME ~Contention
    PROVE  Spec => []StoredAsWanted
<1>1. Counted => StoredAsWanted
  <2> SUFFICES ASSUME Counted, pc = "commend", todo = {}, connected
               PROVE  Found = wanted
    BY DEF StoredAsWanted
  <2>1. Changed(Found) = {}
    BY DEF Counted, Commending
  <2> QED
    BY <2>1 DEF Changed
<1> QED
  BY <1>1, CountedInvariance, PTL

\* One step: a new receiver was paid for, or was a receiver before.
LEMMA FirstCommendStep ==
    ASSUME ~Contention, Counted, [Next]_vars, NEW t \in Targets,
           t \in Receivers(commends', 1) \ Receivers(commends, Months)
    PROVE  \/ t = target /\ existing # {}
           \/ Cardinality(Receivers(commends, Day)) < CommendTokens
<1>1. \A r \in commends : r.age \in 0..(Months - 1)
  BY DEF Counted, Controlled, TypeOK, Row
<1>2. PICK r \in commends' : r.to = t /\ r.age < 1
  BY DEF Receivers
<1>3. r \notin commends
  BY <1>1, <1>2 DEF Receivers
<1>4. WriteCommend
  <2>1. CASE Tick
    <3>1. r.age \in 0..(Months - 1)
      BY ControlInductive DEF Counted, Controlled, TypeOK, Row
    <3>2. r.age # 0
      BY <2>1, AgeingRows DEF Tick, Counted, Controlled, TypeOK
    <3> QED
      BY <1>2, <3>1, <3>2, SMT
  <2>2. commends' # commends
    BY <1>3
  <2> QED
    BY <2>1, <2>2 DEF Next, vars, HandlePlayerReport, GetPlayerReportTokens, CheckReports, WriteReport,
       Answer, HandleCommendPlayer, CheckCommends, GetPlayerCommendTokens, EndCommend, Restart
<1>5. connected /\ pc = "commend" /\ todo # {} /\ r = New(commends, First(todo))
  BY <1>3, <1>4 DEF WriteCommend, Succeeded, Failed
<1>6. t = target
  BY <1>2, <1>5 DEF New
<1>7. Found = {}
  BY <1>1, <1>6, SMT DEF Found, Receivers
<1> QED
  BY <1>5, <1>6, <1>7 DEF Counted, Paid

\* A player who has no commendation of the sender in three months gets the first
\* one only on a day with a token left; the others are changes, which are free.
THEOREM FirstCommendCostsTokenAlways ==
    ASSUME ~Contention
    PROVE  Spec => FirstCommendCostsToken
<1>1. ~Contention
  OBVIOUS
<1>2. Counted /\ [Next]_vars =>
        \A t \in Targets :
          t \in Receivers(commends', 1) \ Receivers(commends, Months) =>
             \/ t = target /\ existing # {}
             \/ Cardinality(Receivers(commends, Day)) < CommendTokens
  BY <1>1, FirstCommendStep
<1> QED
  BY <1>2, CountedInvariance, PTL DEF Spec, FirstCommendCostsToken
=============================================================================
