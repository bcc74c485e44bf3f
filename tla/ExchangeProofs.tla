--------------------------- MODULE ExchangeProofs ---------------------------
(***************************************************************************)
(* What holds of Exchange for any number of players and items, any mix of  *)
(* requests and any failures, deadlocks included.                          *)
(***************************************************************************)
EXTENDS Exchange, TLAPS

Table == [Ids -> Row \cup {NoRow}]

\* The requests each statement and message belongs to.
Control ==
    /\ pc = "idle" <=> op = "none"
    /\ pc = "save"   => op \in {"unbox", "craft", "base"}
    /\ pc = "update" => op \in {"apply", "scrape", "unname"}
    /\ pc = "delete" => op \in {"unbox", "craft", "apply", "delete", "unname"}
    /\ pc = "commit" => op \in {"unbox", "craft", "apply", "scrape", "unname"}
    /\ pc \in {"create", "unlock"} => op = "unbox"
    /\ pc = "forget" => op \in {"unbox", "craft", "apply", "delete", "unname"}
    /\ pc = "show"   => op \in {"craft", "base", "apply", "scrape", "unname", "name"}

\* Where a handler has its transaction open.
Bracket ==
    \/ op = "unbox"
    \/ op = "craft" /\ pc \in {"delete", "save", "commit"}
    \/ op = "apply" /\ pc \in {"update", "delete", "forget", "commit"}
    \/ op \in {"scrape", "unname"} /\ pc \in {"update", "commit"}

Bracketed ==
    /\ inTransaction <=> Bracket
    /\ ~inTransaction => table = durable

\* The item a handler makes or changes, from where it has one.
HasTarget ==
    op \notin {"none", "delete"} /\ pc # "save" /\ ~(op = "craft" /\ pc = "delete")

Target ==
    /\ HasTarget => made \in Ids
    /\ pc = "update" /\ op # "scrape" => table[made] # NoRow
    /\ op = "apply" => \E s \in Ids : used = {s}

Inv == TypeOK /\ Control /\ Bracketed /\ Target
-----------------------------------------------------------------------------
\* The requests and where their handlers begin.
First == {<<"unbox", "save">>, <<"craft", "delete">>, <<"apply", "update">>,
          <<"scrape", "update">>, <<"unname", "update">>, <<"name", "show">>,
          <<"base", "save">>, <<"delete", "delete">>}

Steps == {"save", "update", "delete", "show"}

\* A request begins, with or without a transaction, for rows of the player.
Begun(p, o, consumed, target, step) ==
    /\ Begin(o, p, consumed, target, step)
    /\ IF step = "show" \/ o \in {"base", "delete"} THEN UNCHANGED db ELSE Started
    /\ \A i \in consumed : Owned(p, i)
    /\ step \in {"update", "show"} => target \in Ids
    /\ step = "update" /\ o # "scrape" => table[target] # NoRow
    /\ o \in {"apply", "delete"} => \E s \in Ids : consumed = {s}
    /\ o \in {"base", "unname"} => consumed = {}
    /\ o = "unbox" => \A i \in consumed : table[i].kind = "crate"

\* Every request begins a handler at the step that goes with it.
LEMMA RequestBegins ==
    ASSUME TypeOK, NEW p \in Players, Request(p)
    PROVE  \E o \in Operations, consumed \in SUBSET Ids, target \in 0..MaxItems, step \in Steps :
              <<o, step>> \in First /\ Begun(p, o, consumed, target, step)
<1> DEFINE Goal == \E o \in Operations, consumed \in SUBSET Ids,
                      target \in 0..MaxItems, step \in Steps :
                          <<o, step>> \in First /\ Begun(p, o, consumed, target, step)
<1>0. 0 \in 0..MaxItems /\ 0 \notin Ids /\ Ids \subseteq 0..MaxItems
  BY ExchangeAssumption DEF Ids
<1>a. ASSUME NEW o \in Operations, NEW consumed \in SUBSET Ids, NEW target \in 0..MaxItems,
             NEW step \in Steps, <<o, step>> \in First, Begun(p, o, consumed, target, step)
      PROVE  Goal
  BY <1>a
<1> HIDE DEF Goal
<1>1. ASSUME NEW i \in Ids, HandleUnboxCrate(p, i) PROVE Goal
  <2>1. Begun(p, "unbox", {i}, 0, "save") /\ "unbox" \in Operations
    BY <1>0, <1>1 DEF HandleUnboxCrate, Begun, Begin
  <2>2. <<"unbox", "save">> \in First /\ {i} \in SUBSET Ids /\ 0 \in 0..MaxItems
    BY <1>0 DEF First
  <2>3. QED
    BY <1>a, <2>1, <2>2 DEF Steps
<1>2. ASSUME NEW inputs \in SUBSET Ids, HandleCraft(p, inputs) PROVE Goal
  <2>1. Begun(p, "craft", inputs, 0, "delete") /\ "craft" \in Operations
    BY <1>0, <1>2 DEF HandleCraft, Begun, Begin
  <2>2. <<"craft", "delete">> \in First /\ inputs \in SUBSET Ids /\ 0 \in 0..MaxItems
    BY <1>0 DEF First
  <2>3. QED
    BY <1>a, <2>1, <2>2 DEF Steps
<1>3. ASSUME NEW i \in Ids, NEW j \in Ids, HandleApplySticker(p, i, j) PROVE Goal
  <2>1. Begun(p, "apply", {i}, j, "update") /\ "apply" \in Operations
    BY <1>0, <1>3 DEF HandleApplySticker, Begun, Begin, Owned
  <2>2. <<"apply", "update">> \in First /\ {i} \in SUBSET Ids /\ j \in 0..MaxItems
    BY <1>0 DEF First
  <2>3. QED
    BY <1>a, <2>1, <2>2 DEF Steps
<1>4. ASSUME NEW i \in Ids, HandleScrapeSticker(p, i) PROVE Goal
  <2>1. Begun(p, "scrape", {}, i, "update") /\ "scrape" \in Operations
    BY <1>0, <1>4 DEF HandleScrapeSticker, Begun, Begin, Owned
  <2>2. <<"scrape", "update">> \in First /\ {} \in SUBSET Ids /\ i \in 0..MaxItems
    BY <1>0 DEF First
  <2>3. QED
    BY <1>a, <2>1, <2>2 DEF Steps
<1>5. ASSUME NEW i \in Ids, HandleRemoveItemName(p, i) PROVE Goal
  <2>1. Begun(p, "unname", {}, i, "update") /\ "unname" \in Operations
    BY <1>0, <1>5 DEF HandleRemoveItemName, Begun, Begin, Owned
  <2>2. <<"unname", "update">> \in First /\ {} \in SUBSET Ids /\ i \in 0..MaxItems
    BY <1>0 DEF First
  <2>3. QED
    BY <1>a, <2>1, <2>2 DEF Steps
<1>6. ASSUME NEW i \in Ids, HandleNameItem(p, i) PROVE Goal
  <2>1. Begun(p, "name", {}, i, "show") /\ "name" \in Operations
    BY <1>0, <1>6 DEF HandleNameItem, Begun, Begin, Owned
  <2>2. <<"name", "show">> \in First /\ {} \in SUBSET Ids /\ i \in 0..MaxItems
    BY <1>0 DEF First
  <2>3. QED
    BY <1>a, <2>1, <2>2 DEF Steps
<1>7. ASSUME HandleNameBaseItem(p) PROVE Goal
  <2>1. Begun(p, "base", {}, 0, "save") /\ "base" \in Operations
    BY <1>0, <1>7 DEF HandleNameBaseItem, Begun, Begin
  <2>2. <<"base", "save">> \in First /\ {} \in SUBSET Ids /\ 0 \in 0..MaxItems
    BY <1>0 DEF First
  <2>3. QED
    BY <1>a, <2>1, <2>2 DEF Steps
<1>8. ASSUME NEW i \in Ids, DeleteItem(p, i) PROVE Goal
  <2>1. Begun(p, "delete", {i}, 0, "delete") /\ "delete" \in Operations
    BY <1>0, <1>8 DEF DeleteItem, Begun, Begin
  <2>2. <<"delete", "delete">> \in First /\ {i} \in SUBSET Ids /\ 0 \in 0..MaxItems
    BY <1>0 DEF First
  <2>3. QED
    BY <1>a, <2>1, <2>2 DEF Steps
<1>9. QED
  BY <1>1, <1>2, <1>3, <1>4, <1>5, <1>6, <1>7, <1>8 DEF Request, Goal

\* What follows from a request and from each other step follows from [Next]_vars.
LEMMA NextCases ==
    ASSUME TypeOK, [Next]_vars, NEW ACTION P,
           \A p \in Players, o \in Operations, consumed \in SUBSET Ids,
              target \in 0..MaxItems, step \in Steps :
               <<o, step>> \in First /\ Begun(p, o, consumed, target, step) => P,
           SaveNewItemToDatabase => P, Update => P, Delete => P, Commit => P, Abandon => P,
           SendCreate => P, SendDelete => P, SendUnlockCrateResponse => P,
           SendItem => P, SendNothing => P, DeleteUnnamed => P,
           \A p \in Players : Login(p) => P, \A p \in Players : Vanish(p) => P,
           \A p \in Players : DropSession(p) => P, \A p \in Players : SendSOCache(p) => P,
           \A p \in Players : CheckAndSendNewItemsSince(p) => P,
           \A p \in Players, kind \in Kinds, by \in Sources : ShopInserts(p, kind, by) => P,
           \A i \in Ids, p \in Players : Trade(i, p) => P,
           Restart => P, UNCHANGED vars => P
    PROVE  P
<1>1. ASSUME NEW p \in Players, Request(p) PROVE P
  BY <1>1, RequestBegins
<1>2. ASSUME NEW p \in Players, NEW s \in Shop, ShopInserts(p, s[1], s[2]) PROVE P
  <2>1. s[1] \in Kinds /\ s[2] \in Sources
    BY ExchangeAssumption
  <2>2. QED
    BY <1>2, <2>1
<1>3. QED
  BY <1>1, <1>2 DEF Next, Statement, Message, Client
-----------------------------------------------------------------------------
\* The fields of a row.
LEMMA RowFields ==
    ASSUME NEW row \in Row
    PROVE  /\ row.owner \in Players /\ row.kind \in Kinds /\ row.by \in Sources
           /\ row.from \subseteq Ids /\ row.slot \in 0..MaxItems
           /\ row # NoRow
BY ExchangeAssumption DEF Row

\* SaveNewItemToDatabase inserts a row of the right type.
LEMMA NewRowType ==
    ASSUME TypeOK, NEW kind \in Kinds
    PROVE  /\ NewRow(kind) \in Row
           /\ NewRow(kind).from = used /\ NewRow(kind).owner = player
<1>1. 0 \in 0..MaxItems
  BY ExchangeAssumption
<1>2. (IF op = "base" THEN "2" ELSE "8") \in Sources
  BY DEF Sources
<1>3. QED
  BY <1>1, <1>2 DEF NewRow, Row, TypeOK

\* A handler's UPDATE keeps the type, the owner and the origin of a row.
LEMMA MarkedRow ==
    ASSUME NEW row \in Row
    PROVE  /\ Marked(row) \in Row
           /\ Marked(row).from = row.from /\ Marked(row).owner = row.owner
           /\ Marked(row).kind = row.kind
BY DEF Marked, Row, Sources

\* A trade keeps the type, the kind and the origin of a row.
LEMMA GivenRow ==
    ASSUME NEW row \in Row, NEW p \in Players
    PROVE  /\ GivenTo(row, p) \in Row /\ GivenTo(row, p).owner = p
           /\ GivenTo(row, p).from = row.from /\ GivenTo(row, p).kind = row.kind
BY DEF GivenTo, Row

\* An item is applied to itself.
Itself == op = "apply" /\ made \in used

\* Update keeps the owner of a row, and adds to what it is made of only another item.
LEMMA UpdatedRow ==
    ASSUME TypeOK, Target, op \in {"apply", "scrape", "unname"},
           NEW row \in Row, NEW new \in Updated(row)
    PROVE  /\ new \in Row
           /\ new.owner = row.owner /\ new.kind = row.kind
           /\ new.from = IF op = "apply" /\ ~Itself THEN row.from \cup used ELSE row.from
<1>1. CASE op = "apply"
  <2>1. PICK s \in used : new = [row EXCEPT !.slot = s, !.from = @ \cup (used \ {made})]
    BY <1>1 DEF Updated
  <2>2. s \in 0..MaxItems
    BY ExchangeAssumption DEF TypeOK, Ids
  <2>3. used \subseteq Ids /\ row.from \subseteq Ids
    BY RowFields DEF TypeOK
  <2>4. used \ {made} = IF Itself THEN {} ELSE used
    BY <1>1 DEF Target, Itself
  <2>5. QED
    BY <1>1, <2>1, <2>2, <2>3, <2>4 DEF Row, Itself
<1>2. CASE op = "scrape"
  <2>1. new \in {row, [row EXCEPT !.slot = 0]}
    BY <1>2 DEF Updated
  <2>2. 0 \in 0..MaxItems
    BY ExchangeAssumption
  <2>3. QED
    BY <1>2, <2>1, <2>2 DEF Row
<1>3. CASE op = "unname"
  BY <1>3 DEF Updated
<1>4. QED
  BY <1>1, <1>2, <1>3

\* A statement that succeeds writes what the connection sees, and outside a transaction what is committed.
LEMMA ExecutedRows ==
    ASSUME NEW t, Executed(t)
    PROVE  /\ table' = t
           /\ durable' = IF inTransaction THEN durable ELSE t
           /\ inTransaction' = inTransaction /\ connected' = connected /\ connected
BY DEF Executed

\* Every step of the connection that writes no row leaves two copies of what was there.
LEMMA CopiedRows ==
    ASSUME TypeOK,
           Started \/ StatementFailed \/ Committed \/ CommitFailed \/ RolledBack
              \/ Reopened \/ UNCHANGED db
    PROVE  /\ table' \in {table, durable} /\ durable' \in {table, durable}
           /\ inTransaction' \in BOOLEAN /\ connected' \in BOOLEAN
<1>1. CASE RolledBack
  <2>1. connected' \in BOOLEAN
    BY <1>1 DEF RolledBack, TypeOK
  <2>2. QED
    BY <1>1, <2>1 DEF RolledBack, Undone
<1>2. CASE StatementFailed
  BY <1>2 DEF StatementFailed, ConnectionLost, Undone, db, TypeOK
<1>3. CASE CommitFailed
  BY <1>3 DEF CommitFailed, ConnectionLost, Undone, TypeOK
<1>4. CASE Started \/ Committed
  BY <1>4 DEF Started, Committed, TypeOK
<1>5. CASE Reopened
  BY <1>5 DEF Reopened, Undone
<1>6. CASE UNCHANGED db
  BY <1>6 DEF db, TypeOK
<1>7. QED
  BY <1>1, <1>2, <1>3, <1>4, <1>5, <1>6

\* The rows after SaveNewItemToDatabase.
LEMMA SavedRows ==
    ASSUME TypeOK, Control, SaveNewItemToDatabase
    PROVE  /\ nextId \in Ids /\ nextId' = nextId + 1 /\ made' = nextId
           /\ table' \in Table /\ table'[nextId] \in Row
           /\ table'[nextId].from = used /\ table'[nextId].owner = player
           /\ \A i \in Ids : i # nextId => table'[i] = table[i]
           /\ durable' = IF inTransaction THEN durable ELSE table'
           /\ inTransaction' = inTransaction /\ connected' = connected
<1>1. nextId \in Ids /\ nextId' = nextId + 1 /\ made' = nextId
  BY ExchangeAssumption DEF SaveNewItemToDatabase, TypeOK, Ids
<1>2. ProductKinds \subseteq Kinds
  BY DEF ProductKinds, Kinds, Control, SaveNewItemToDatabase
<1>3. PICK kind \in ProductKinds : Executed([table EXCEPT ![nextId] = NewRow(kind)])
  BY DEF SaveNewItemToDatabase
<1>4. NewRow(kind) \in Row /\ NewRow(kind).from = used /\ NewRow(kind).owner = player
  BY <1>2, NewRowType
<1>5. table' = [table EXCEPT ![nextId] = NewRow(kind)]
  BY <1>3, ExecutedRows
<1>6. /\ durable' = IF inTransaction THEN durable ELSE table'
      /\ inTransaction' = inTransaction /\ connected' = connected
  BY <1>3, ExecutedRows
<1>7. table \in Table
  BY DEF TypeOK, Table
<1>8. QED
  BY <1>1, <1>4, <1>5, <1>6, <1>7 DEF Table

\* The rows after Update; the scraping of a row that is not there changes none.
LEMMA UpdatedRows ==
    ASSUME TypeOK, Control, Target, Update
    PROVE  /\ made \in Ids /\ table' \in Table
           /\ table'[made] = NoRow <=> table[made] = NoRow
           /\ table[made] # NoRow =>
                /\ table'[made].owner = table[made].owner
                /\ table'[made].kind = table[made].kind
                /\ table'[made].from = IF op = "apply" /\ ~Itself THEN table[made].from \cup used
                                                               ELSE table[made].from
           /\ \A i \in Ids : i # made => table'[i] = table[i]
           /\ durable' = IF inTransaction THEN durable ELSE table'
           /\ inTransaction' = inTransaction /\ connected' = connected
<1>1. /\ made \in Ids /\ table[made] \in Row \cup {NoRow}
      /\ op \in {"apply", "scrape", "unname"} /\ (op # "scrape" => table[made] # NoRow)
  BY DEF Update, Target, HasTarget, Control, TypeOK
<1>2. PICK row \in Updated(table[made]) : Executed([table EXCEPT ![made] = row])
  BY DEF Update
<1>3. table' = [table EXCEPT ![made] = row]
  BY <1>2, ExecutedRows
<1>4. /\ durable' = IF inTransaction THEN durable ELSE table'
      /\ inTransaction' = inTransaction /\ connected' = connected
  BY <1>2, ExecutedRows
<1>5. table \in Table
  BY DEF TypeOK, Table
<1>6. CASE table[made] = NoRow
  <2>1. row = NoRow
    BY <1>1, <1>2, <1>6 DEF Updated, Owned
  <2>2. QED
    BY <1>1, <1>3, <1>4, <1>5, <1>6, <2>1 DEF Table
<1>7. CASE table[made] # NoRow
  <2>1. /\ row \in Row /\ row.owner = table[made].owner /\ row.kind = table[made].kind
        /\ row.from = IF op = "apply" /\ ~Itself THEN table[made].from \cup used
                                                 ELSE table[made].from
    BY <1>1, <1>7, UpdatedRow
  <2>2. row # NoRow
    BY <2>1, RowFields
  <2>3. QED
    BY <1>1, <1>3, <1>4, <1>5, <1>7, <2>1, <2>2 DEF Table
<1>8. QED
  BY <1>6, <1>7

\* The rows after Delete.
LEMMA DeletedRows ==
    ASSUME TypeOK, Delete
    PROVE  /\ table' \in Table
           /\ \A i \in Ids : table'[i] = IF i \in Deleted THEN NoRow ELSE table[i]
           /\ durable' = IF inTransaction THEN durable ELSE table'
           /\ inTransaction' = inTransaction /\ connected' = connected
<1>1. Executed([i \in Ids |-> IF i \in Deleted THEN NoRow ELSE table[i]])
  BY DEF Delete
<1>2. table' = [i \in Ids |-> IF i \in Deleted THEN NoRow ELSE table[i]]
  BY <1>1, ExecutedRows
<1>3. QED
  BY <1>1, <1>2, ExecutedRows DEF Table, TypeOK

\* The poll changes at most where a row says it came from.
LEMMA PolledRows ==
    ASSUME TypeOK, Bracketed, NEW p \in Players, CheckAndSendNewItemsSince(p), op = "none"
    PROVE  /\ table' \in Table /\ durable' = table' /\ inTransaction' = FALSE
           /\ connected' \in BOOLEAN
           /\ \A i \in Ids : /\ table'[i] = NoRow <=> table[i] = NoRow
                             /\ table[i] # NoRow => /\ table'[i].from = table[i].from
                                                    /\ table'[i].owner = table[i].owner
                                                    /\ table'[i].kind = table[i].kind
<1>1. ~inTransaction /\ table = durable
  BY DEF Bracketed, Bracket
<1>2. PICK first \in NewItems(p) :
         Executed([table EXCEPT ![first] = Marked(@)]) \/ StatementFailed \/ UNCHANGED db
  BY DEF CheckAndSendNewItemsSince
<1>3. first \in Ids /\ table[first] \in Row
  BY DEF NewItems, Holdings, Owned, TypeOK
<1>4. CASE Executed([table EXCEPT ![first] = Marked(@)])
  <2>1. /\ Marked(table[first]) \in Row /\ Marked(table[first]) # NoRow
        /\ Marked(table[first]).from = table[first].from
        /\ Marked(table[first]).owner = table[first].owner
        /\ Marked(table[first]).kind = table[first].kind
    BY <1>3, MarkedRow, ExchangeAssumption
  <2>2. table' = [table EXCEPT ![first] = Marked(table[first])]
    BY <1>4, ExecutedRows
  <2>3. durable' = table' /\ inTransaction' = FALSE /\ connected' \in BOOLEAN
    BY <1>1, <1>4, ExecutedRows DEF TypeOK
  <2>4. table \in Table
    BY DEF TypeOK, Table
  <2>5. table' \in Table /\ table'[first] = Marked(table[first])
    BY <1>3, <2>1, <2>2, <2>4 DEF Table
  <2>6. \A i \in Ids : i # first => table'[i] = table[i]
    BY <2>2, <2>4 DEF Table
  <2>7. table[first] # NoRow
    BY <1>3, RowFields
  <2>8. QED
    BY <2>1, <2>3, <2>5, <2>6, <2>7
<1>5. CASE StatementFailed \/ UNCHANGED db
  <2>1. table' = table /\ durable' = table /\ connected' \in BOOLEAN
    BY <1>1, <1>5, CopiedRows
  <2>2. inTransaction' = FALSE
    BY <1>1, <1>5 DEF StatementFailed, ConnectionLost, Undone, db
  <2>3. QED
    BY <2>1, <2>2 DEF TypeOK, Table
<1>6. QED
  BY <1>2, <1>4, <1>5

\* The rows after the shop inserts one.
LEMMA ShopRows ==
    ASSUME TypeOK, NEW p \in Players, NEW kind \in Kinds, NEW by \in Sources,
           ShopInserts(p, kind, by)
    PROVE  /\ nextId \in Ids /\ nextId' = nextId + 1
           /\ table' \in Table /\ durable' \in Table
           /\ table'[nextId] \in Row /\ table'[nextId].from = {} /\ table'[nextId].owner = p
           /\ durable'[nextId] = table'[nextId]
           /\ \A i \in Ids : i # nextId => table'[i] = table[i] /\ durable'[i] = durable[i]
<1> DEFINE row == [owner |-> p, kind |-> kind, by |-> by, from |-> {}, slot |-> 0]
<1>1. nextId \in Ids /\ nextId' = nextId + 1
  BY ExchangeAssumption DEF ShopInserts, TypeOK, Ids
<1>2. row \in Row /\ row.from = {} /\ row.owner = p
  BY ExchangeAssumption DEF Row
<1>3. table' = [table EXCEPT ![nextId] = row] /\ durable' = [durable EXCEPT ![nextId] = row]
  BY DEF ShopInserts
<1> HIDE DEF row
<1>4. QED
  BY <1>1, <1>2, <1>3 DEF Table, TypeOK

\* The rows after a trade.
LEMMA TradedRows ==
    ASSUME TypeOK, NEW i \in Ids, NEW p \in Players, Trade(i, p)
    PROVE  /\ table' \in Table /\ durable' \in Table
           /\ table[i] = durable[i] /\ table[i] \in Row
           /\ table'[i] = durable'[i] /\ table'[i] \in Row /\ table'[i].from = table[i].from
           /\ table'[i].owner = p /\ table'[i].kind = table[i].kind
           /\ table[i].kind \in Tradable
           /\ \A j \in Ids : j # i => table'[j] = table[j] /\ durable'[j] = durable[j]
<1>1. table[i] = durable[i] /\ table[i] \in Row /\ table[i].kind \in Tradable
  BY DEF Trade, TypeOK
<1>2. /\ GivenTo(table[i], p) \in Row /\ GivenTo(table[i], p).from = table[i].from
      /\ GivenTo(table[i], p).owner = p /\ GivenTo(table[i], p).kind = table[i].kind
  BY <1>1, GivenRow
<1>3. /\ table' = [table EXCEPT ![i] = GivenTo(table[i], p)]
      /\ durable' = [durable EXCEPT ![i] = GivenTo(durable[i], p)]
  BY DEF Trade
<1>4. QED
  BY <1>1, <1>2, <1>3 DEF Table, TypeOK
-----------------------------------------------------------------------------
\* What a request that begins sets.
LEMMA BegunStep ==
    ASSUME TypeOK, NEW p \in Players, NEW o \in Operations, NEW consumed \in SUBSET Ids,
           NEW target \in 0..MaxItems, NEW step \in Steps,
           <<o, step>> \in First, Begun(p, o, consumed, target, step)
    PROVE  /\ op = "none" /\ op' = o /\ pc' = step /\ player' = p /\ used' = consumed
           /\ made' = target /\ nextId' = nextId /\ UNCHANGED clients
           /\ table' = table /\ durable' \in {table, durable}
           /\ connected' = connected
           /\ o \in Requests
           /\ IF step = "show" \/ o \in {"base", "delete"}
              THEN durable' = durable /\ inTransaction' = inTransaction
              ELSE durable' = table /\ inTransaction' = TRUE
BY ExchangeAssumption DEF Begun, Begin, Started, db

\* The clients' view and their sessions.
LEMMA ClientsTyped ==
    ASSUME TypeOK, Control, Target, [Next]_vars
    PROVE  /\ shown' \in [Players -> SUBSET Ids]
           /\ link' \in [Players -> {"none", "lost", "up"}]
           /\ cursor' \in [Players -> 0..MaxItems]
<1> DEFINE Goal == /\ shown' \in [Players -> SUBSET Ids]
                   /\ link' \in [Players -> {"none", "lost", "up"}]
                   /\ cursor' \in [Players -> 0..MaxItems]
<1>1. ASSUME UNCHANGED clients PROVE Goal
  BY <1>1 DEF TypeOK, clients
<1>2. ASSUME NEW p \in Players, NEW S \in SUBSET Ids, UNCHANGED <<link, cursor>>,
             shown' \in {shown, [shown EXCEPT ![p] = S]}
      PROVE  Goal
  BY <1>2 DEF TypeOK
<1>3. ASSUME NEW p \in Players, NEW n \in 0..MaxItems, UNCHANGED <<shown, link>>,
             cursor' = [cursor EXCEPT ![p] = n]
      PROVE  Goal
  BY <1>3 DEF TypeOK
<1>4. 0 \in 0..MaxItems /\ Ids \subseteq 0..MaxItems
  BY ExchangeAssumption DEF Ids
<1>5. \A S \in SUBSET (0..MaxItems) : Highest(S) \subseteq 0..MaxItems
  BY DEF Highest
<1>6. ASSUME NEW p \in Players, NEW i \in Ids, Show(p, i), UNCHANGED <<link, cursor>> PROVE Goal
  <2>1. shown[p] \cup {i} \in SUBSET Ids
    BY DEF TypeOK
  <2>2. shown' \in {shown, [shown EXCEPT ![p] = shown[p] \cup {i}]}
    BY <1>6 DEF Show
  <2>3. QED
    BY <1>2, <1>6, <2>1, <2>2
<1> HIDE DEF Goal
<1>7. ASSUME NEW p \in Players, NEW o \in Operations, NEW consumed \in SUBSET Ids,
             NEW target \in 0..MaxItems, NEW step \in Steps,
             <<o, step>> \in First, Begun(p, o, consumed, target, step)
      PROVE  Goal
  BY <1>1, <1>7, BegunStep
<1>8. ASSUME SendCreate \/ SendUnlockCrateResponse \/ SendItem PROVE Goal
  <2>1. pc \in {"create", "unlock", "show"} /\ Show(player, made) /\ UNCHANGED <<link, cursor>>
    BY <1>8 DEF SendCreate, SendUnlockCrateResponse, SendItem
  <2>2. made \in Ids /\ player \in Players
    BY <2>1 DEF Control, Target, HasTarget, TypeOK
  <2>3. QED
    BY <1>6, <2>1, <2>2
<1>9. ASSUME SendDelete PROVE Goal
  <2>1. player \in Players /\ shown[player] \ used \in SUBSET Ids
    BY DEF TypeOK
  <2>2. shown' \in {shown, [shown EXCEPT ![player] = shown[player] \ used]}
    BY <1>9 DEF SendDelete, Forget
  <2>3. UNCHANGED <<link, cursor>>
    BY <1>9 DEF SendDelete
  <2>4. QED
    BY <1>2, <2>1, <2>2, <2>3
<1>10. ASSUME NEW p \in Players, Login(p) PROVE Goal
  <2>1. LatestItemId(p) \subseteq 0..MaxItems
    <3>1. Holdings(p) \cup {0} \in SUBSET (0..MaxItems)
      BY <1>4 DEF Holdings
    <3>2. QED
      BY <1>5, <3>1 DEF LatestItemId
  <2>2. PICK latest \in LatestItemId(p) :
           cursor' = [cursor EXCEPT ![p] = IF link[p] = "lost" /\ @ # 0 THEN @ ELSE latest]
    BY <1>10 DEF Login
  <2>3. PICK n \in 0..MaxItems : cursor' = [cursor EXCEPT ![p] = n]
    <3>1. cursor[p] \in 0..MaxItems
      BY DEF TypeOK
    <3>2. QED
      BY <2>1, <2>2, <3>1
  <2>4. link' = [link EXCEPT ![p] = "up"] /\ shown' = [shown EXCEPT ![p] = {}]
    BY <1>10 DEF Login
  <2>5. QED
    BY <2>3, <2>4 DEF TypeOK, Goal
<1>11. ASSUME NEW p \in Players, Vanish(p) \/ DropSession(p) PROVE Goal
  <2>1. /\ shown' = shown /\ link' \in [Players -> {"none", "lost", "up"}]
        /\ cursor' \in {cursor, [cursor EXCEPT ![p] = 0]}
    BY <1>11 DEF Vanish, DropSession, TypeOK
  <2>2. QED
    BY <1>4, <2>1 DEF TypeOK, Goal
<1>12. ASSUME NEW p \in Players, SendSOCache(p) PROVE Goal
  BY <1>2, <1>12 DEF SendSOCache, Holdings
<1>13. ASSUME NEW p \in Players, CheckAndSendNewItemsSince(p) PROVE Goal
  <2>1. PICK first \in NewItems(p), last \in Highest(NewItems(p)) :
           /\ cursor' = [cursor EXCEPT ![p] = last]
           /\ Show(p, first) \/ UNCHANGED shown
    BY <1>13 DEF CheckAndSendNewItemsSince
  <2>2. first \in Ids /\ last \in 0..MaxItems
    BY <1>4 DEF NewItems, Holdings, Highest
  <2>3. cursor' \in [Players -> 0..MaxItems]
    BY <2>1, <2>2 DEF TypeOK
  <2>4. shown[p] \cup {first} \in SUBSET Ids
    BY <2>2 DEF TypeOK
  <2>5. shown' \in {shown, [shown EXCEPT ![p] = shown[p] \cup {first}]}
    BY <2>1 DEF Show
  <2>6. shown' \in [Players -> SUBSET Ids]
    BY <2>4, <2>5 DEF TypeOK
  <2>7. link' = link
    BY <1>13 DEF CheckAndSendNewItemsSince
  <2>8. QED
    BY <2>3, <2>6, <2>7 DEF TypeOK, Goal
<1>14. ASSUME Restart PROVE Goal
  <2>1. /\ link' = [p \in Players |-> "none"] /\ cursor' = [p \in Players |-> 0]
        /\ shown' = shown
    BY <1>14 DEF Restart
  <2>2. QED
    BY <1>4, <2>1 DEF TypeOK, Goal
<1>15. ASSUME SaveNewItemToDatabase \/ Update \/ Delete \/ Commit \/ Abandon \/ SendNothing
                 \/ DeleteUnnamed \/ UNCHANGED vars
       PROVE  Goal
  BY <1>1, <1>15 DEF SaveNewItemToDatabase, Update, Delete, Commit, Abandon, SendNothing,
                     DeleteUnnamed, vars
<1>16. ASSUME NEW p \in Players, NEW kind \in Kinds, NEW by \in Sources, ShopInserts(p, kind, by)
       PROVE  Goal
  BY <1>1, <1>16 DEF ShopInserts
<1>17. ASSUME NEW i \in Ids, NEW p \in Players, Trade(i, p) PROVE Goal
  BY <1>1, <1>17 DEF Trade
<1>18. QED
  BY <1>7, <1>8, <1>9, <1>10, <1>11, <1>12, <1>13, <1>14, <1>15, <1>16, <1>17, NextCases DEF Goal

HandlerTyped ==
    /\ nextId \in 1..(MaxItems + 1)
    /\ op \in Requests \cup {"none"}
    /\ pc \in {"idle", "save", "update", "delete", "commit",
               "create", "forget", "unlock", "show"}
    /\ player \in Players
    /\ used \subseteq Ids
    /\ made \in 0..MaxItems

\* Steps of others leave the handler where it is.
LEMMA QuietSteps ==
    ASSUME \/ UNCHANGED vars
           \/ \E p \in Players : \/ Login(p) \/ Vanish(p) \/ DropSession(p) \/ SendSOCache(p)
                                 \/ CheckAndSendNewItemsSince(p)
           \/ \E i \in Ids, p \in Players : Trade(i, p)
    PROVE  nextId' = nextId /\ op' = op /\ pc' = pc /\ player' = player /\ used' = used
              /\ made' = made
BY DEF vars, handler, Login, Vanish, DropSession, SendSOCache, CheckAndSendNewItemsSince, Trade

\* A handler that returns forgets its request.
LEMMA DoneStep ==
    ASSUME Done
    PROVE  op' = "none" /\ pc' = "idle" /\ used' = {} /\ made' = 0 /\ player' = player
BY DEF Done

\* Where each statement and message leads.
LEMMA HandlerInductive ==
    ASSUME TypeOK, Control, Target, [Next]_vars
    PROVE  HandlerTyped' /\ Control'
<1> DEFINE Goal == HandlerTyped' /\ Control'
<1>0. HandlerTyped
  BY DEF TypeOK, HandlerTyped
<1>1. 0 \in 0..MaxItems /\ Ids \subseteq 0..MaxItems
  BY ExchangeAssumption DEF Ids
<1>2. ASSUME NEW p \in Players, NEW o \in Operations, NEW consumed \in SUBSET Ids,
             NEW target \in 0..MaxItems, NEW step \in Steps,
             <<o, step>> \in First, Begun(p, o, consumed, target, step)
      PROVE  Goal
  <2>1. /\ op' = o /\ pc' = step /\ player' = p /\ used' = consumed
        /\ made' = target /\ nextId' = nextId /\ o \in Requests
    BY <1>2, BegunStep
  <2>2. HandlerTyped'
    BY <1>0, <2>1 DEF HandlerTyped, Steps
  <2>3. Control'
    BY <1>2, <2>1 DEF Control, First
  <2>4. QED
    BY <2>2, <2>3
<1>3. ASSUME Done, nextId' = nextId PROVE Goal
  <2>1. op' = "none" /\ pc' = "idle" /\ used' = {} /\ made' = 0 /\ player' = player
    BY <1>3, DoneStep
  <2>2. QED
    BY <1>0, <1>1, <1>3, <2>1 DEF HandlerTyped, Control
<1>4. ASSUME SaveNewItemToDatabase PROVE Goal
  <2>1. nextId \in Ids /\ nextId' = nextId + 1 /\ made' = nextId
    BY <1>4, SavedRows
  <2>2. pc = "save" /\ pc' = AfterSave /\ op' = op /\ player' = player /\ used' = used
    BY <1>4 DEF SaveNewItemToDatabase
  <2>3. op \in {"unbox", "craft", "base"}
    BY <2>2 DEF Control
  <2>4. \/ op = "unbox" /\ pc' = "create"
        \/ op = "craft" /\ pc' = "commit"
        \/ op = "base" /\ pc' = "show"
    BY <2>2, <2>3 DEF AfterSave
  <2>5. nextId' \in 1..(MaxItems + 1)
    BY <2>1, ExchangeAssumption DEF Ids
  <2>6. HandlerTyped'
    BY <1>0, <1>1, <2>1, <2>2, <2>4, <2>5 DEF HandlerTyped
  <2>7. Control'
    BY <2>2, <2>4 DEF Control
  <2>8. QED
    BY <2>6, <2>7
<1>5. ASSUME Update PROVE Goal
  <2>1. /\ pc = "update" /\ op' = op /\ player' = player /\ used' = used /\ made' = made
        /\ nextId' = nextId /\ pc' = IF op = "apply" THEN "delete" ELSE "commit"
    BY <1>5 DEF Update, GoTo
  <2>2. QED
    BY <1>0, <2>1 DEF HandlerTyped, Control
<1>6. ASSUME Delete PROVE Goal
  <2>1. /\ pc = "delete" /\ op' = op /\ player' = player /\ used' = used /\ made' = made
        /\ nextId' = nextId /\ pc' = AfterDelete
    BY <1>6 DEF Delete, GoTo
  <2>2. \/ op = "unbox" /\ pc' = "commit"
        \/ op = "craft" /\ pc' = "save"
        \/ op \in {"apply", "delete", "unname"} /\ pc' = "forget"
    BY <2>1 DEF AfterDelete, Control
  <2>3. QED
    BY <1>0, <2>1, <2>2 DEF HandlerTyped, Control
<1>7. ASSUME Commit PROVE Goal
  <2>1. Done \/ (op # "unbox" /\ GoTo(AfterCommit))
    BY <1>7 DEF Commit
  <2>2. nextId' = nextId /\ pc = "commit"
    BY <1>7 DEF Commit
  <2>3. CASE op # "unbox" /\ GoTo(AfterCommit)
    <3>1. op' = op /\ player' = player /\ used' = used /\ made' = made /\ pc' = AfterCommit
      BY <2>3 DEF GoTo
    <3>2. (op = "craft" /\ pc' = "forget") \/ (op \in {"apply", "scrape", "unname"} /\ pc' = "show")
      BY <2>2, <2>3, <3>1 DEF AfterCommit, Control
    <3>3. QED
      BY <1>0, <2>2, <3>1, <3>2 DEF HandlerTyped, Control
  <2>4. QED
    BY <1>3, <2>1, <2>2, <2>3
<1>8. ASSUME Abandon \/ SendItem \/ SendNothing \/ Restart PROVE Goal
  BY <1>3, <1>8 DEF Abandon, SendItem, SendNothing, Restart
<1>9. ASSUME SendCreate \/ SendUnlockCrateResponse PROVE Goal
  <2>1. /\ op' = op /\ player' = player /\ used' = used /\ made' = made /\ nextId' = nextId
        /\ (pc = "create" /\ pc' = "forget") \/ (pc = "unlock" /\ pc' = "delete")
    BY <1>9 DEF SendCreate, SendUnlockCrateResponse, GoTo
  <2>2. QED
    BY <1>0, <2>1 DEF HandlerTyped, Control
<1>10. ASSUME SendDelete PROVE Goal
  <2>1. nextId' = nextId /\ pc = "forget"
    BY <1>10 DEF SendDelete
  <2>2. Done \/ (op \notin {"delete", "unname"} /\ GoTo(AfterForget))
    BY <1>10 DEF SendDelete
  <2>3. CASE op \notin {"delete", "unname"} /\ GoTo(AfterForget)
    <3>1. op' = op /\ player' = player /\ used' = used /\ made' = made /\ pc' = AfterForget
      BY <2>3 DEF GoTo
    <3>2. \/ op = "unbox" /\ pc' = "unlock"
          \/ op = "craft" /\ pc' = "show"
          \/ op = "apply" /\ pc' = "commit"
      BY <2>1, <2>3, <3>1 DEF AfterForget, Control
    <3>3. QED
      BY <1>0, <2>1, <3>1, <3>2 DEF HandlerTyped, Control
  <2>4. QED
    BY <1>3, <2>1, <2>2, <2>3
<1>11. ASSUME DeleteUnnamed PROVE Goal
  <2>1. /\ pc = "show" /\ op = "unname" /\ op' = op /\ player' = player /\ made' = made
        /\ nextId' = nextId /\ pc' = "delete" /\ used' = {made}
    BY <1>11 DEF DeleteUnnamed
  <2>2. made \in Ids
    BY <2>1 DEF Target, HasTarget
  <2>3. QED
    BY <1>0, <2>1, <2>2 DEF HandlerTyped, Control
<1>12. ASSUME NEW p \in Players, NEW kind \in Kinds, NEW by \in Sources, ShopInserts(p, kind, by)
       PROVE  Goal
  <2>1. nextId \in Ids /\ nextId' = nextId + 1
    BY <1>12, ShopRows
  <2>2. op' = op /\ pc' = pc /\ player' = player /\ used' = used /\ made' = made
    BY <1>12 DEF ShopInserts, handler
  <2>3. nextId' \in 1..(MaxItems + 1)
    BY <2>1, ExchangeAssumption DEF Ids
  <2>4. QED
    BY <1>0, <2>2, <2>3 DEF HandlerTyped, Control
<1>13. ASSUME nextId' = nextId, op' = op, pc' = pc, player' = player, used' = used, made' = made
       PROVE  Goal
  BY <1>0, <1>13 DEF HandlerTyped, Control
<1> HIDE DEF Goal
<1>14. ASSUME \/ UNCHANGED vars
              \/ \E p \in Players : \/ Login(p) \/ Vanish(p) \/ DropSession(p) \/ SendSOCache(p)
                                    \/ CheckAndSendNewItemsSince(p)
              \/ \E i \in Ids, p \in Players : Trade(i, p)
       PROVE  Goal
  BY <1>13, <1>14, QuietSteps
<1>15. Goal
  BY <1>2, <1>4, <1>5, <1>6, <1>7, <1>8, <1>9, <1>10, <1>11, <1>12, <1>14, NextCases
<1>16. QED
  BY <1>15 DEF Goal

\* The statements that write nothing of their own, and the messages.
Copying ==
    \/ Commit \/ Abandon \/ SendNothing \/ Restart
    \/ SendCreate \/ SendDelete \/ SendUnlockCrateResponse \/ SendItem \/ DeleteUnnamed
    \/ \E p \in Players : Login(p) \/ Vanish(p) \/ DropSession(p) \/ SendSOCache(p)
    \/ UNCHANGED vars

\* The steps that write no row, and what they leave: copies of what was there.
LEMMA CopyingRows ==
    ASSUME TypeOK, Copying
    PROVE  /\ table' \in {table, durable} /\ durable' \in {table, durable}
           /\ inTransaction' \in BOOLEAN /\ connected' \in BOOLEAN
           /\ nextId' = nextId
<1>1. /\ Committed \/ CommitFailed \/ RolledBack \/ StatementFailed \/ Reopened \/ UNCHANGED db
      /\ nextId' = nextId
  BY DEF Copying, Commit, Abandon, SendNothing, Restart, SendCreate, SendDelete,
         SendUnlockCrateResponse, SendItem, DeleteUnnamed, Login, Vanish, DropSession,
         SendSOCache, vars
<1>2. QED
  BY <1>1, CopiedRows

\* The rows keep their type.
LEMMA RowsTyped ==
    ASSUME TypeOK, Control, Bracketed, Target, [Next]_vars
    PROVE  /\ table' \in Table /\ durable' \in Table
           /\ inTransaction' \in BOOLEAN /\ connected' \in BOOLEAN
<1> DEFINE Goal == /\ table' \in Table /\ durable' \in Table
                   /\ inTransaction' \in BOOLEAN /\ connected' \in BOOLEAN
<1>0. table \in Table /\ durable \in Table /\ inTransaction \in BOOLEAN /\ connected \in BOOLEAN
  BY DEF TypeOK, Table
<1>1. ASSUME NEW p \in Players, NEW o \in Operations, NEW consumed \in SUBSET Ids,
             NEW target \in 0..MaxItems, NEW step \in Steps,
             <<o, step>> \in First, Begun(p, o, consumed, target, step)
      PROVE  Goal
  <2>1. Started \/ UNCHANGED db
    BY <1>1 DEF Begun
  <2>2. QED
    BY <1>0, <2>1, CopiedRows
<1>2. ASSUME Copying PROVE Goal
  BY <1>0, <1>2, CopyingRows
<1>3. ASSUME SaveNewItemToDatabase PROVE Goal
  BY <1>0, <1>3, SavedRows
<1>4. ASSUME Update PROVE Goal
  BY <1>0, <1>4, UpdatedRows
<1>5. ASSUME Delete PROVE Goal
  BY <1>0, <1>5, DeletedRows
<1>6. ASSUME NEW p \in Players, CheckAndSendNewItemsSince(p) PROVE Goal
  <2>1. op = "none"
    BY <1>6 DEF CheckAndSendNewItemsSince
  <2>2. QED
    BY <1>6, <2>1, PolledRows
<1>7. ASSUME NEW p \in Players, NEW kind \in Kinds, NEW by \in Sources, ShopInserts(p, kind, by)
      PROVE  Goal
  <2>1. inTransaction' = inTransaction /\ connected' = connected
    BY <1>7 DEF ShopInserts
  <2>2. QED
    BY <1>0, <1>7, <2>1, ShopRows
<1>8. ASSUME NEW i \in Ids, NEW p \in Players, Trade(i, p) PROVE Goal
  <2>1. inTransaction' = inTransaction /\ connected' = connected
    BY <1>8 DEF Trade
  <2>2. QED
    BY <1>0, <1>8, <2>1, TradedRows
<1> HIDE DEF Goal
<1>9. Goal
  BY <1>1, <1>2, <1>3, <1>4, <1>5, <1>6, <1>7, <1>8, NextCases DEF Copying
<1>10. QED
  BY <1>9 DEF Goal

\* The type is kept.
LEMMA TypeOKInductive ==
    ASSUME TypeOK, Control, Bracketed, Target, [Next]_vars
    PROVE  TypeOK'
BY RowsTyped, HandlerInductive, ClientsTyped DEF TypeOK, HandlerTyped, Table

\* Ends of a handler: the connection is back at rest.
LEMMA RestedRows ==
    ASSUME TypeOK, Undone \/ Committed \/ CommitFailed \/ RolledBack \/ Reopened
    PROVE  table' = durable' /\ inTransaction' = FALSE
BY DEF Undone, Committed, CommitFailed, ConnectionLost, RolledBack, Reopened

\* A transaction is open exactly where its handler has it open.
LEMMA BracketedInductive ==
    ASSUME TypeOK, Control, Bracketed, Target, [Next]_vars
    PROVE  Bracketed'
<1>1. ASSUME NEW p \in Players, NEW o \in Operations, NEW consumed \in SUBSET Ids,
             NEW target \in 0..MaxItems, NEW step \in Steps,
             <<o, step>> \in First, Begun(p, o, consumed, target, step)
      PROVE  Bracketed'
  <2>1. op = "none" /\ op' = o /\ pc' = step /\ table' = table
    BY <1>1, BegunStep
  <2>2. ~inTransaction /\ table = durable
    BY <2>1 DEF Bracketed, Bracket
  <2>3. CASE step = "show" \/ o \in {"base", "delete"}
    <3>1. durable' = durable /\ inTransaction' = inTransaction
      BY <1>1, <2>3, BegunStep
    <3>2. ~Bracket'
      BY <1>1, <2>1, <2>3 DEF Bracket, First
    <3>3. QED
      BY <2>1, <2>2, <3>1, <3>2 DEF Bracketed
  <2>4. CASE ~(step = "show" \/ o \in {"base", "delete"})
    <3>1. inTransaction' = TRUE
      BY <1>1, <2>4, BegunStep
    <3>2. Bracket'
      BY <1>1, <2>1, <2>4 DEF Bracket, First
    <3>3. QED
      BY <3>1, <3>2 DEF Bracketed
  <2>5. QED
    BY <2>3, <2>4
<1>2. ASSUME table' = durable', inTransaction' = FALSE, ~Bracket' PROVE Bracketed'
  BY <1>2 DEF Bracketed
<1>3. ASSUME inTransaction' = inTransaction, Bracket' <=> Bracket,
             ~inTransaction => durable' = table'
      PROVE  Bracketed'
  BY <1>3 DEF Bracketed
<1>4. ASSUME Done, table' = durable', inTransaction' = FALSE PROVE Bracketed'
  BY <1>2, <1>4, DoneStep DEF Bracket
<1>5. ASSUME SaveNewItemToDatabase PROVE Bracketed'
  <2>1. pc = "save" /\ pc' = AfterSave /\ op' = op
    BY <1>5 DEF SaveNewItemToDatabase
  <2>2. Bracket' <=> Bracket
    BY <2>1 DEF Bracket, Control, AfterSave
  <2>3. QED
    BY <1>3, <1>5, <2>2, SavedRows
<1>6. ASSUME Update PROVE Bracketed'
  <2>1. pc = "update" /\ op' = op /\ pc' = IF op = "apply" THEN "delete" ELSE "commit"
    BY <1>6 DEF Update, GoTo
  <2>2. Bracket' <=> Bracket
    BY <2>1 DEF Bracket, Control
  <2>3. QED
    BY <1>3, <1>6, <2>2, UpdatedRows
<1>7. ASSUME Delete PROVE Bracketed'
  <2>1. pc = "delete" /\ op' = op /\ pc' = AfterDelete
    BY <1>7 DEF Delete, GoTo
  <2>2. Bracket' <=> Bracket
    BY <2>1 DEF Bracket, Control, AfterDelete
  <2>3. QED
    BY <1>3, <1>7, <2>2, DeletedRows
<1>8. ASSUME Commit PROVE Bracketed'
  <2>1. table' = durable' /\ inTransaction' = FALSE
    BY <1>8, RestedRows DEF Commit
  <2>2. Done \/ (op # "unbox" /\ GoTo(AfterCommit))
    BY <1>8 DEF Commit
  <2>3. ASSUME op # "unbox", GoTo(AfterCommit) PROVE ~Bracket'
    BY <2>3 DEF GoTo, AfterCommit, Bracket
  <2>4. QED
    BY <1>2, <1>4, <2>1, <2>2, <2>3
<1>9. ASSUME Abandon PROVE Bracketed'
  BY <1>4, <1>9, RestedRows DEF Abandon
<1>10. ASSUME Restart PROVE Bracketed'
  BY <1>4, <1>10, RestedRows DEF Restart
<1>11. ASSUME SendNothing PROVE Bracketed'
  <2>1. pc = "show" /\ Done /\ StatementFailed
    BY <1>11 DEF SendNothing
  <2>2. ~inTransaction /\ table = durable
    BY <2>1 DEF Bracketed, Bracket, Control
  <2>3. table' = durable' /\ inTransaction' = FALSE
    BY <2>1, <2>2 DEF StatementFailed, ConnectionLost, Undone, db, TypeOK
  <2>4. QED
    BY <1>4, <2>1, <2>3
<1>12. ASSUME UNCHANGED db, Bracket' <=> Bracket PROVE Bracketed'
  BY <1>12 DEF Bracketed, db
<1>13. ASSUME SendCreate \/ SendUnlockCrateResponse PROVE Bracketed'
  <2>1. UNCHANGED db /\ op' = op /\ op = "unbox"
    BY <1>13 DEF SendCreate, SendUnlockCrateResponse, GoTo, Control
  <2>2. QED
    BY <1>12, <2>1 DEF Bracket
<1>14. ASSUME SendDelete PROVE Bracketed'
  <2>1. UNCHANGED db /\ pc = "forget"
    BY <1>14 DEF SendDelete
  <2>2. \/ op \in {"delete", "unname"} /\ Done
        \/ op \notin {"delete", "unname"} /\ GoTo(AfterForget)
    BY <1>14 DEF SendDelete
  <2>3. CASE op \in {"delete", "unname"} /\ Done
    <3>1. ~Bracket /\ ~Bracket'
      BY <2>1, <2>3, DoneStep DEF Bracket
    <3>2. QED
      BY <1>12, <2>1, <3>1
  <2>4. CASE op \notin {"delete", "unname"} /\ GoTo(AfterForget)
    <3>1. op' = op /\ pc' = AfterForget
      BY <2>4 DEF GoTo
    <3>2. Bracket' <=> Bracket
      BY <2>1, <2>4, <3>1 DEF AfterForget, Bracket, Control
    <3>3. QED
      BY <1>12, <2>1, <3>2
  <2>5. QED
    BY <2>2, <2>3, <2>4
<1>15. ASSUME SendItem PROVE Bracketed'
  <2>1. UNCHANGED db /\ Done /\ pc = "show"
    BY <1>15 DEF SendItem
  <2>2. ~Bracket /\ ~Bracket'
    BY <2>1, DoneStep DEF Bracket, Control
  <2>3. QED
    BY <1>12, <2>1, <2>2
<1>16. ASSUME DeleteUnnamed PROVE Bracketed'
  <2>1. UNCHANGED db /\ pc = "show" /\ pc' = "delete" /\ op = "unname" /\ op' = op
    BY <1>16 DEF DeleteUnnamed
  <2>2. QED
    BY <1>12, <2>1 DEF Bracket
<1>17. ASSUME \/ UNCHANGED vars
              \/ \E p \in Players : Login(p) \/ Vanish(p) \/ DropSession(p) \/ SendSOCache(p)
       PROVE  Bracketed'
  <2>1. UNCHANGED db
    BY <1>17 DEF vars, Login, Vanish, DropSession, SendSOCache
  <2>2. op' = op /\ pc' = pc
    BY <1>17, QuietSteps
  <2>3. QED
    BY <1>12, <2>1, <2>2 DEF Bracket
<1>18. ASSUME NEW p \in Players, CheckAndSendNewItemsSince(p) PROVE Bracketed'
  <2>1. op = "none" /\ op' = op
    BY <1>18, QuietSteps DEF CheckAndSendNewItemsSince
  <2>2. table' = durable' /\ inTransaction' = FALSE
    BY <1>18, <2>1, PolledRows
  <2>3. QED
    BY <1>2, <2>1, <2>2 DEF Bracket
<1>19. ASSUME NEW p \in Players, NEW kind \in Kinds, NEW by \in Sources, ShopInserts(p, kind, by)
       PROVE  Bracketed'
  <2>1. inTransaction' = inTransaction /\ op' = op /\ pc' = pc
    BY <1>19 DEF ShopInserts, handler
  <2>2. ASSUME table = durable PROVE durable' = table'
    BY <1>19, <2>2 DEF ShopInserts
  <2>3. QED
    BY <1>3, <2>1, <2>2 DEF Bracket, Bracketed
<1>20. ASSUME NEW i \in Ids, NEW p \in Players, Trade(i, p) PROVE Bracketed'
  <2>1. inTransaction' = inTransaction /\ op' = op /\ pc' = pc
    BY <1>20, QuietSteps DEF Trade
  <2>2. ASSUME table = durable PROVE durable' = table'
    BY <1>20, <2>2 DEF Trade
  <2>3. QED
    BY <1>3, <2>1, <2>2 DEF Bracket, Bracketed
<1>21. QED
  BY <1>1, <1>5, <1>6, <1>7, <1>8, <1>9, <1>10, <1>11, <1>13, <1>14, <1>15, <1>16, <1>17, <1>18,
     <1>19, <1>20, NextCases

\* A handler works on an item that exists, unless it is one to scrape.
LEMMA TargetInductive ==
    ASSUME TypeOK, Control, Bracketed, Target, [Next]_vars
    PROVE  Target'
<1>1. ASSUME NEW p \in Players, NEW o \in Operations, NEW consumed \in SUBSET Ids,
             NEW target \in 0..MaxItems, NEW step \in Steps,
             <<o, step>> \in First, Begun(p, o, consumed, target, step)
      PROVE  Target'
  <2>1. op' = o /\ pc' = step /\ used' = consumed /\ made' = target /\ table' = table
    BY <1>1, BegunStep
  <2>2. /\ step \in {"update", "show"} => target \in Ids
        /\ step = "update" /\ o # "scrape" => table[target] # NoRow
        /\ o = "apply" => \E s \in Ids : consumed = {s}
    BY <1>1 DEF Begun
  <2>3. HasTarget' => step \in {"update", "show"}
    BY <1>1, <2>1 DEF HasTarget, First
  <2>4. QED
    BY <2>1, <2>2, <2>3 DEF Target
<1>2. ASSUME Done PROVE Target'
  BY <1>2, DoneStep DEF Target, HasTarget
<1>3. ASSUME op' = op, made' = made, used' = used, HasTarget' => HasTarget, pc' # "update"
      PROVE  Target'
  BY <1>3 DEF Target
<1>4. ASSUME op' = op, pc' = pc, made' = made, used' = used,
             pc = "update" /\ op # "scrape" => table'[made] # NoRow
      PROVE  Target'
  BY <1>4 DEF Target, HasTarget
<1>5. ASSUME SaveNewItemToDatabase PROVE Target'
  <2>1. made' \in Ids
    BY <1>5, SavedRows
  <2>2. pc' = AfterSave /\ op' = op /\ used' = used /\ op \in {"unbox", "craft", "base"}
    BY <1>5 DEF SaveNewItemToDatabase, Control
  <2>3. pc' # "update"
    BY <2>2 DEF AfterSave
  <2>4. QED
    BY <2>1, <2>2, <2>3 DEF Target
<1>6. ASSUME Update \/ Delete PROVE Target'
  <2>1. /\ op' = op /\ made' = made /\ used' = used
        /\ \/ pc = "update" /\ pc' = IF op = "apply" THEN "delete" ELSE "commit"
           \/ pc = "delete" /\ pc' = AfterDelete
    BY <1>6 DEF Update, Delete, GoTo
  <2>2. pc' # "update" /\ (HasTarget' => HasTarget)
    BY <2>1 DEF HasTarget, AfterDelete, Control
  <2>3. QED
    BY <1>3, <2>1, <2>2
<1>7. ASSUME Commit PROVE Target'
  <2>1. Done \/ GoTo(AfterCommit)
    BY <1>7 DEF Commit
  <2>2. pc = "commit"
    BY <1>7 DEF Commit
  <2>3. ASSUME GoTo(AfterCommit) PROVE Target'
    <3>1. op' = op /\ made' = made /\ used' = used /\ pc' \in {"forget", "show"}
      BY <2>3 DEF GoTo, AfterCommit
    <3>2. HasTarget' => HasTarget
      BY <2>2, <3>1 DEF HasTarget
    <3>3. QED
      BY <1>3, <3>1, <3>2
  <2>4. QED
    BY <1>2, <2>1, <2>3
<1>8. ASSUME Abandon \/ SendItem \/ SendNothing \/ Restart PROVE Target'
  BY <1>2, <1>8 DEF Abandon, SendItem, SendNothing, Restart
<1>9. ASSUME SendCreate \/ SendUnlockCrateResponse PROVE Target'
  <2>1. /\ op' = op /\ made' = made /\ used' = used /\ op = "unbox"
        /\ pc \in {"create", "unlock"} /\ pc' \in {"forget", "delete"}
    BY <1>9 DEF SendCreate, SendUnlockCrateResponse, GoTo, Control
  <2>2. HasTarget' => HasTarget
    BY <2>1 DEF HasTarget
  <2>3. QED
    BY <1>3, <2>1, <2>2
<1>10. ASSUME SendDelete PROVE Target'
  <2>1. pc = "forget" /\ (Done \/ (op \notin {"delete", "unname"} /\ GoTo(AfterForget)))
    BY <1>10 DEF SendDelete
  <2>2. ASSUME op \notin {"delete", "unname"}, GoTo(AfterForget) PROVE Target'
    <3>1. op' = op /\ made' = made /\ used' = used /\ pc' \in {"unlock", "show", "commit"}
      BY <2>1, <2>2 DEF GoTo, AfterForget, Control
    <3>2. HasTarget' => HasTarget
      BY <2>1, <3>1 DEF HasTarget
    <3>3. QED
      BY <1>3, <3>1, <3>2
  <2>3. QED
    BY <1>2, <2>1, <2>2
<1>11. ASSUME DeleteUnnamed PROVE Target'
  <2>1. pc = "show" /\ pc' = "delete" /\ op = "unname" /\ op' = op /\ made' = made
    BY <1>11 DEF DeleteUnnamed
  <2>2. QED
    BY <2>1 DEF Target, HasTarget
<1>12. ASSUME \/ UNCHANGED vars
              \/ \E p \in Players : Login(p) \/ Vanish(p) \/ DropSession(p) \/ SendSOCache(p)
       PROVE  Target'
  <2>1. table' = table
    BY <1>12 DEF vars, db, Login, Vanish, DropSession, SendSOCache
  <2>2. op' = op /\ pc' = pc /\ made' = made /\ used' = used
    BY <1>12, QuietSteps
  <2>3. QED
    BY <1>4, <2>1, <2>2 DEF Target
<1>13. ASSUME NEW p \in Players, CheckAndSendNewItemsSince(p) PROVE Target'
  <2>1. op' = op /\ pc' = pc /\ made' = made /\ used' = used
    BY <1>13, QuietSteps
  <2>2. op = "none"
    BY <1>13 DEF CheckAndSendNewItemsSince
  <2>3. pc # "update"
    BY <2>2 DEF Control
  <2>4. QED
    BY <1>4, <2>1, <2>3
<1>14. ASSUME NEW p \in Players, NEW kind \in Kinds, NEW by \in Sources, ShopInserts(p, kind, by)
       PROVE  Target'
  <2>1. op' = op /\ pc' = pc /\ made' = made /\ used' = used
    BY <1>14 DEF ShopInserts, handler
  <2>2. \A i \in Ids : table[i] # NoRow => table'[i] # NoRow
    BY <1>14, ShopRows, RowFields
  <2>3. pc = "update" /\ op # "scrape" => made \in Ids /\ table[made] # NoRow
    BY DEF Target, HasTarget, Control
  <2>4. QED
    BY <1>4, <2>1, <2>2, <2>3
<1>15. ASSUME NEW i \in Ids, NEW p \in Players, Trade(i, p) PROVE Target'
  <2>1. op' = op /\ pc' = pc /\ made' = made /\ used' = used
    BY <1>15, QuietSteps
  <2>2. \A j \in Ids : table[j] # NoRow => table'[j] # NoRow
    BY <1>15, TradedRows, RowFields
  <2>3. pc = "update" /\ op # "scrape" => made \in Ids /\ table[made] # NoRow
    BY DEF Target, HasTarget, Control
  <2>4. QED
    BY <1>4, <2>1, <2>2, <2>3
<1>16. QED
  BY <1>1, <1>5, <1>6, <1>7, <1>8, <1>9, <1>10, <1>11, <1>12, <1>13, <1>14, <1>15, NextCases

\* The control invariant holds initially.
LEMMA InvInitially == Init => Inv
<1> SUFFICES ASSUME Init PROVE Inv
  OBVIOUS
<1>1. 0 \in 0..MaxItems /\ 1 \in 1..(MaxItems + 1)
  BY ExchangeAssumption
<1>2. TypeOK
  BY <1>1 DEF Init, TypeOK
<1>3. Control /\ Bracketed /\ Target
  BY DEF Init, Control, Bracketed, Bracket, Target, HasTarget
<1>4. QED
  BY <1>2, <1>3 DEF Inv

\* Every step keeps it.
LEMMA InvInductive == Inv /\ [Next]_vars => Inv'
BY TypeOKInductive, HandlerInductive, BracketedInductive, TargetInductive DEF Inv

\* It holds throughout.
LEMMA Invariance == Spec => []Inv
BY InvInitially, InvInductive, PTL DEF Spec

\* Every variable keeps its type, through every handler of the two files.
THEOREM ExchangeTypeCorrect == Spec => []TypeOK
<1>1. Inv => TypeOK
  BY DEF Inv
<1>2. QED
  BY <1>1, Invariance, PTL

\* No handler returns with its transaction open, whatever failed in it.
THEOREM HandlersLeaveNoTransaction == Spec => []AtRest
<1>1. Inv => AtRest
  BY DEF Inv, Bracketed, Bracket, AtRest
<1>2. QED
  BY <1>1, Invariance, PTL
-----------------------------------------------------------------------------
(* The exchange itself. *)

\* The product is there and what it is made of is still to be deleted.
Pending ==
    \/ op = "unbox" /\ pc \in {"create", "forget", "unlock", "delete"}
    \/ op = "apply" /\ pc = "delete"

\* The product is there and not committed.
Produced ==
    \/ Pending
    \/ op \in {"unbox", "craft", "apply"} /\ pc = "commit"
    \/ op = "apply" /\ pc = "forget"

\* A trade-up has deleted its inputs and not yet inserted its product.
Emptied == op = "craft" /\ pc = "save"

\* The ids still to be handed out appear nowhere.
Unused(t, j) == t[j] = NoRow /\ \A i \in Ids : t[i] # NoRow => j \notin t[i].from

Past ==
    \A j \in Ids : j >= nextId => Unused(table, j) /\ Unused(durable, j) /\ j \notin used

Idle ==
    /\ op \in {"none", "base"} => used = {}
    /\ op \in Operations \cup {"none"}

\* What a request consumes is the player's, unless it may change hands meanwhile; only
\* crates are opened, and only plain items deleted for the loss of their name.
StillYours(row) == row # NoRow /\ row.kind \notin Tradable => row.owner = player

Yours ==
    \A j \in used : /\ StillYours(table[j])
                    /\ StillYours(durable[j])
                    /\ op = "unbox" /\ table[j] # NoRow => table[j].kind = "crate"
                    /\ op = "unname" /\ table[j] # NoRow => Plain(table[j])

\* Outside a transaction items are deleted one by one.
Single == op \in {"delete", "unname"} => used = {} \/ \E s \in Ids : used = {s}

\* A product holds what it is made of, and is none of it; what is applied to itself is
\* deleted before the commit.
Product ==
    /\ Produced /\ ~Itself => made \notin used /\ table[made] # NoRow /\ used \subseteq table[made].from
    /\ Itself /\ pc \in {"forget", "commit"} => table[made] = NoRow

\* How what the connection sees may differ from what is committed: what is consumed is
\* gone, the product is there, and nothing else.
Gone(i) ==
    durable[i] # NoRow /\ table[i] = NoRow =>
        /\ i \in used /\ op \in {"unbox", "craft", "apply"}
        /\ op # "craft" => durable[i].owner = player

Same(i) ==
    durable[i] # NoRow /\ table[i] # NoRow =>
        /\ table[i].owner = durable[i].owner /\ table[i].kind = durable[i].kind
        /\ \/ table[i].from = durable[i].from
           \/ /\ i = made /\ op = "apply" /\ Produced
              /\ table[i].from = durable[i].from \cup used

New(i) ==
    durable[i] = NoRow /\ table[i] # NoRow =>
        i = made /\ op \in {"unbox", "craft"} /\ Produced /\ table[i].from = used

Backed(i) == inTransaction /\ i \in used => durable[i] # NoRow

Kept == \A i \in Ids : Gone(i) /\ Same(i) /\ New(i) /\ Backed(i)

\* Product i and j, of which it is made, are both in t.
Both(t, i, j) == t[i] # NoRow /\ j \in t[i].from /\ t[j] # NoRow

Clean(t) == \A i, j \in Ids : ~Both(t, i, j)

\* In what the connection sees they are there together until the deletion.
Consumed ==
    /\ \A i, j \in Ids : Both(table, i, j) => Pending /\ i = made /\ j \in used
    /\ Emptied => \A j \in used : table[j] = NoRow

\* All of this, of which NothingLost follows.
Ledger == Inv /\ Past /\ Idle /\ Product /\ Kept /\ Yours /\ Single

\* The ways in which a step can leave the rows and the handler, besides those in
\* which it writes a row or a request begins.
Ending ==
    /\ op' = "none" /\ pc' = "idle" /\ used' = {} /\ nextId' = nextId
    /\ table' = durable'
    /\ durable' = durable \/ (pc = "commit" /\ durable' = table)

Passing ==
    /\ table' = table /\ durable' = durable /\ nextId' = nextId
    /\ inTransaction' = inTransaction
    /\ op' = op /\ player' = player /\ used' = used /\ made' = made
    /\ Pending' <=> Pending
    /\ Produced' <=> Produced
    /\ Emptied' => Emptied
    /\ \/ pc' = pc \/ op = "unbox"
       \/ op = "craft" /\ pc = "forget" /\ pc' = "show"
       \/ op = "apply" /\ pc = "forget" /\ pc' = "commit"

Committing ==
    /\ pc = "commit" /\ op # "unbox" /\ pc' = AfterCommit
    /\ table' = table /\ durable' = table /\ nextId' = nextId /\ ~inTransaction'
    /\ op' = op /\ player' = player /\ used' = used /\ made' = made
    /\ ~Pending' /\ ~Produced' /\ ~Emptied'

\* The steps that end a handler.
LEMMA EndingSteps ==
    ASSUME Inv,
           \/ Abandon \/ SendNothing \/ Restart \/ SendItem
           \/ Commit /\ Done
           \/ SendDelete /\ Done
    PROVE  Ending
<1>1. Done /\ nextId' = nextId
  BY DEF Abandon, SendNothing, Restart, SendItem, Commit, SendDelete
<1>2. op' = "none" /\ pc' = "idle" /\ used' = {}
  BY <1>1, DoneStep
<1>3. ASSUME Abandon \/ Restart PROVE table' = durable' /\ durable' = durable
  BY <1>3 DEF Abandon, Restart, RolledBack, Reopened, Undone
<1>4. ASSUME Commit
      PROVE  table' = durable' /\ (durable' = durable \/ (pc = "commit" /\ durable' = table))
  BY <1>4 DEF Commit, Committed, CommitFailed, ConnectionLost, Undone
<1>5. ASSUME SendItem \/ SendNothing PROVE table' = durable' /\ durable' = durable
  <2>1. pc = "show" /\ (UNCHANGED db \/ StatementFailed)
    BY <1>5 DEF SendItem, SendNothing
  <2>2. table = durable
    BY <2>1 DEF Inv, Bracketed, Bracket, Control
  <2>3. QED
    BY <2>1, <2>2 DEF StatementFailed, ConnectionLost, Undone, db
<1>6. ASSUME SendDelete PROVE table' = durable' /\ durable' = durable
  <2>1. UNCHANGED db /\ pc = "forget" /\ op \in {"delete", "unname"}
    BY <1>1, <1>2, <1>6 DEF SendDelete, GoTo, Inv, Control
  <2>2. table = durable
    BY <2>1 DEF Inv, Bracketed, Bracket
  <2>3. QED
    BY <2>1, <2>2 DEF db
<1>7. QED
  BY <1>1, <1>2, <1>3, <1>4, <1>5, <1>6 DEF Ending

\* The steps that change neither rows nor what is pending.
LEMMA PassingSteps ==
    ASSUME Inv,
           \/ SendCreate \/ SendUnlockCrateResponse
           \/ SendDelete /\ ~Done
           \/ UNCHANGED vars
           \/ \E p \in Players : Login(p) \/ Vanish(p) \/ DropSession(p) \/ SendSOCache(p)
    PROVE  Passing
<1>1. UNCHANGED db /\ nextId' = nextId
  BY DEF SendCreate, SendUnlockCrateResponse, SendDelete, vars, Login, Vanish, DropSession,
         SendSOCache
<1>2. ASSUME op' = op, pc' = pc, player' = player, used' = used, made' = made PROVE Passing
  BY <1>1, <1>2 DEF Passing, Pending, Produced, Emptied, db
<1>3. ASSUME SendCreate \/ SendUnlockCrateResponse PROVE Passing
  <2>1. /\ op' = op /\ player' = player /\ used' = used /\ made' = made /\ op = "unbox"
        /\ pc \in {"create", "unlock"} /\ pc' \in {"forget", "delete"}
    BY <1>3 DEF SendCreate, SendUnlockCrateResponse, GoTo, Inv, Control
  <2>2. QED
    BY <1>1, <2>1 DEF Passing, Pending, Produced, Emptied, db
<1>4. ASSUME SendDelete, ~Done PROVE Passing
  <2>1. pc = "forget" /\ op \notin {"delete", "unname"} /\ GoTo(AfterForget)
    BY <1>4 DEF SendDelete
  <2>2. op' = op /\ player' = player /\ used' = used /\ made' = made /\ pc' = AfterForget
    BY <2>1 DEF GoTo
  <2>3. \/ op = "unbox" /\ pc' = "unlock"
        \/ op = "craft" /\ pc' = "show"
        \/ op = "apply" /\ pc' = "commit"
    BY <2>1, <2>2 DEF AfterForget, Inv, Control
  <2>4. QED
    BY <1>1, <2>1, <2>2, <2>3 DEF Passing, Pending, Produced, Emptied, db
<1>5. QED
  BY <1>2, <1>3, <1>4, QuietSteps

\* The commit.
LEMMA CommittingSteps ==
    ASSUME Inv, Commit, ~Done
    PROVE  Committing
<1>1. pc = "commit" /\ Committed /\ op # "unbox" /\ GoTo(AfterCommit) /\ nextId' = nextId
  BY DEF Commit
<1>2. /\ op' = op /\ player' = player /\ used' = used /\ made' = made
      /\ pc' = AfterCommit
  BY <1>1 DEF GoTo
<1>3. (op = "craft" /\ pc' = "forget") \/ (op # "craft" /\ pc' = "show")
  BY <1>2 DEF AfterCommit
<1>4. ~Pending' /\ ~Produced' /\ ~Emptied'
  BY <1>2, <1>3 DEF Pending, Produced, Emptied
<1>5. QED
  BY <1>1, <1>2, <1>4, Zenon DEF Committing, Committed

\* The steps by what they do to the rows, for the invariants below.
LEMMA ExchangeCases ==
    ASSUME Inv, [Next]_vars, NEW ACTION P,
           Ending => P, Passing => P, Committing => P,
           \A p \in Players, o \in Operations, consumed \in SUBSET Ids,
              target \in 0..MaxItems, step \in Steps :
               <<o, step>> \in First /\ Begun(p, o, consumed, target, step) => P,
           SaveNewItemToDatabase => P, Update => P, Delete => P, DeleteUnnamed => P,
           \A p \in Players : CheckAndSendNewItemsSince(p) => P,
           \A p \in Players, kind \in Kinds, by \in Sources : ShopInserts(p, kind, by) => P,
           \A i \in Ids, p \in Players : Trade(i, p) => P
    PROVE  P
<1>1. ASSUME Commit PROVE P
  BY <1>1, EndingSteps, CommittingSteps
<1>2. ASSUME SendDelete PROVE P
  BY <1>2, EndingSteps, PassingSteps
<1>3. ASSUME Abandon \/ SendNothing \/ Restart \/ SendItem PROVE P
  BY <1>3, EndingSteps
<1>4. ASSUME SendCreate \/ SendUnlockCrateResponse \/ UNCHANGED vars PROVE P
  BY <1>4, PassingSteps
<1>5. ASSUME NEW p \in Players, Login(p) \/ Vanish(p) \/ DropSession(p) \/ SendSOCache(p) PROVE P
  BY <1>5, PassingSteps
<1>6. TypeOK
  BY DEF Inv
<1>7. QED
  BY <1>1, <1>2, <1>3, <1>4, <1>5, <1>6, NextCases

\* A request begins at rest, with rows of the player, and leaves the rows alone.
LEMMA BegunRows ==
    ASSUME Inv, NEW p \in Players, NEW o \in Operations, NEW consumed \in SUBSET Ids,
           NEW target \in 0..MaxItems, NEW step \in Steps,
           <<o, step>> \in First, Begun(p, o, consumed, target, step)
    PROVE  /\ table' = table /\ durable' = durable /\ table = durable /\ nextId' = nextId
           /\ op' = o /\ player' = p /\ used' = consumed
           /\ \A i \in consumed : table[i] # NoRow /\ table[i].owner = p
           /\ ~Pending' /\ ~Produced' /\ ~Emptied'
           /\ o \in {"base", "unname"} => consumed = {}
           /\ o = "delete" => \E s \in Ids : consumed = {s}
           /\ o = "unbox" => \A i \in consumed : table[i].kind = "crate"
<1>1. /\ op = "none" /\ op' = o /\ pc' = step /\ player' = p /\ used' = consumed
      /\ nextId' = nextId /\ table' = table /\ durable' \in {table, durable}
  BY BegunStep DEF Inv
<1>2. table = durable
  BY <1>1 DEF Inv, Bracketed, Bracket
<1>3. ~Pending' /\ ~Produced' /\ ~Emptied'
  BY <1>1 DEF First, Pending, Produced, Emptied
<1>4. QED
  BY <1>1, <1>2, <1>3 DEF Begun, Owned

\* After its name is removed, a plain item is deleted outside the transaction.
LEMMA DeleteUnnamedRows ==
    ASSUME Inv, DeleteUnnamed
    PROVE  /\ table' = table /\ durable' = durable /\ table = durable /\ nextId' = nextId
           /\ op' = op /\ op = "unname" /\ player' = player /\ used' = {made}
           /\ made \in Ids /\ table[made] # NoRow /\ table[made].owner = player
           /\ Plain(table[made])
           /\ ~Pending' /\ ~Produced' /\ ~Emptied'
<1>1. /\ pc = "show" /\ op = "unname" /\ op' = op /\ player' = player /\ nextId' = nextId
      /\ used' = {made} /\ UNCHANGED db /\ Owned(player, made) /\ Plain(table[made])
  BY DEF DeleteUnnamed
<1>2. made \in Ids /\ table = durable
  BY <1>1 DEF Inv, Target, HasTarget, Bracketed, Bracket
<1>3. QED
  BY <1>1, <1>2 DEF Pending, Produced, Emptied, Owned, db

\* The statements of a handler keep its request.
LEMMA WrittenSteps ==
    ASSUME Inv, SaveNewItemToDatabase \/ Update \/ Delete
    PROVE  op' = op /\ player' = player /\ used' = used
BY DEF SaveNewItemToDatabase, Update, Delete, GoTo

\* No unused id is handed out twice, and a handler at rest consumes nothing.
LEMMA LedgerInductive ==
    ASSUME Inv, Past, Idle, [Next]_vars
    PROVE  Past' /\ Idle'
<1> DEFINE Goal == Past' /\ Idle'
<1>0. nextId \in Nat /\ Ids \subseteq Nat /\ used \subseteq Ids /\ TypeOK /\ Control /\ Target
         /\ Bracketed
  BY DEF Inv, TypeOK, Ids
<1>1. ASSUME nextId' = nextId, table' \in {table, durable}, durable' \in {table, durable},
             op' \in Operations \cup {"none"}, op' \in {"none", "base"} => used' = {},
             \A j \in Ids : j >= nextId => j \notin used'
      PROVE  Goal
  <2>1. Past'
    BY <1>1 DEF Past
  <2>2. QED
    BY <1>1, <2>1 DEF Idle
<1>2. ASSUME Ending PROVE Goal
  BY <1>1, <1>2 DEF Ending
<1>3. ASSUME Passing \/ Committing PROVE Goal
  <2>1. /\ nextId' = nextId /\ table' = table /\ durable' \in {table, durable}
        /\ op' = op /\ used' = used
    BY <1>3 DEF Passing, Committing
  <2>2. QED
    BY <1>1, <2>1 DEF Past, Idle
<1>4. ASSUME NEW p \in Players, NEW o \in Operations, NEW consumed \in SUBSET Ids,
             NEW target \in 0..MaxItems, NEW step \in Steps,
             <<o, step>> \in First, Begun(p, o, consumed, target, step)
      PROVE  Goal
  <2>1. /\ table' = table /\ durable' = durable /\ nextId' = nextId
        /\ op' = o /\ used' = consumed
        /\ o = "base" => consumed = {}
        /\ \A i \in consumed : table[i] # NoRow
    BY <1>4, BegunRows
  <2>2. o # "none"
    BY ExchangeAssumption DEF Requests
  <2>3. \A j \in Ids : j >= nextId => j \notin consumed
    BY <2>1 DEF Past, Unused
  <2>4. op' \in Operations \cup {"none"} /\ (op' \in {"none", "base"} => used' = {})
    BY <2>1, <2>2
  <2>5. table' \in {table, durable} /\ durable' \in {table, durable}
    BY <2>1
  <2>6. nextId' = nextId /\ \A j \in Ids : j >= nextId => j \notin used'
    BY <2>1, <2>3
  <2>7. QED
    BY <1>1, <2>4, <2>5, <2>6
<1>5. ASSUME DeleteUnnamed PROVE Goal
  <2>1. /\ table' = table /\ durable' = durable /\ nextId' = nextId /\ op' = op /\ op = "unname"
        /\ used' = {made} /\ made \in Ids /\ table[made] # NoRow
    BY <1>5, DeleteUnnamedRows
  <2>2. ~(made >= nextId)
    BY <2>1 DEF Past, Unused
  <2>3. QED
    BY <1>1, <2>1, <2>2 DEF Idle
<1>6. ASSUME SaveNewItemToDatabase PROVE Goal
  <2>1. /\ nextId \in Ids /\ nextId' = nextId + 1 /\ table'[nextId].from = used
        /\ \A i \in Ids : i # nextId => table'[i] = table[i]
        /\ durable' = IF inTransaction THEN durable ELSE table'
    BY <1>0, <1>6, SavedRows
  <2>2. op' = op /\ used' = used
    BY <1>6, WrittenSteps
  <2>3. \A j \in Ids : j > nextId => Unused(table', j)
    BY <1>0, <2>1 DEF Past, Unused
  <2>5. Past'
    BY <1>0, <2>1, <2>2, <2>3 DEF Past
  <2>4. QED
    BY <2>2, <2>5 DEF Idle
<1>7. ASSUME Update PROVE Goal
  <2>1. /\ made \in Ids
        /\ table'[made] = NoRow <=> table[made] = NoRow
        /\ table[made] # NoRow => table'[made].from \subseteq table[made].from \cup used
        /\ \A i \in Ids : i # made => table'[i] = table[i]
        /\ durable' \in {durable, table'}
    BY <1>0, <1>7, UpdatedRows
  <2>2. op' = op /\ used' = used /\ nextId' = nextId
    BY <1>7, WrittenSteps DEF Update
  <2>3. \A j \in Ids : j >= nextId => Unused(table', j)
    BY <2>1 DEF Past, Unused
  <2>4. Past'
    BY <2>1, <2>2, <2>3 DEF Past
  <2>5. QED
    BY <2>2, <2>4 DEF Idle
<1>8. ASSUME Delete PROVE Goal
  <2>1. /\ \A i \in Ids : table'[i] \in {NoRow, table[i]}
        /\ durable' \in {durable, table'}
    BY <1>0, <1>8, DeletedRows
  <2>2. op' = op /\ used' = used /\ nextId' = nextId
    BY <1>8, WrittenSteps DEF Delete
  <2>3. \A j \in Ids : j >= nextId => Unused(table', j)
    BY <2>1 DEF Past, Unused
  <2>4. Past'
    BY <2>1, <2>2, <2>3 DEF Past
  <2>5. QED
    BY <2>2, <2>4 DEF Idle
<1>9. ASSUME NEW p \in Players, CheckAndSendNewItemsSince(p) PROVE Goal
  <2>1. op' = op /\ used' = used /\ nextId' = nextId
    BY <1>9, QuietSteps
  <2>2. op = "none"
    BY <1>9 DEF CheckAndSendNewItemsSince
  <2>3. /\ durable' = table'
        /\ \A i \in Ids : /\ table[i] = NoRow => table'[i] = NoRow
                          /\ table'[i] # NoRow => /\ table[i] # NoRow
                                                  /\ table'[i].from = table[i].from
    BY <1>0, <1>9, <2>2, PolledRows
  <2>4. \A j \in Ids : j >= nextId => Unused(table', j)
    <3>1. SUFFICES ASSUME NEW j \in Ids, Unused(table, j) PROVE Unused(table', j)
      BY DEF Past
    <3>2. table'[j] = NoRow
      BY <2>3, <3>1 DEF Unused
    <3>3. ASSUME NEW i \in Ids, table'[i] # NoRow PROVE j \notin table'[i].from
      BY <2>3, <3>1, <3>3 DEF Unused
    <3>4. QED
      BY <3>2, <3>3 DEF Unused
  <2>5. Past'
    BY <2>1, <2>3, <2>4 DEF Past
  <2>6. QED
    BY <2>1, <2>5 DEF Idle
<1>10. ASSUME NEW p \in Players, NEW kind \in Kinds, NEW by \in Sources, ShopInserts(p, kind, by)
       PROVE  Goal
  <2>1. op' = op /\ used' = used
    BY <1>10 DEF ShopInserts, handler
  <2>2. /\ nextId \in Ids /\ nextId' = nextId + 1 /\ table'[nextId].from = {}
        /\ durable'[nextId] = table'[nextId]
        /\ \A i \in Ids : i # nextId => table'[i] = table[i] /\ durable'[i] = durable[i]
    BY <1>0, <1>10, ShopRows
  <2>3. ASSUME NEW j \in Ids, j > nextId PROVE Unused(table', j) /\ Unused(durable', j)
    <3>1. Unused(table, j) /\ Unused(durable, j) /\ j # nextId
      BY <1>0, <2>2, <2>3 DEF Past
    <3>2. Unused(table', j)
      BY <2>2, <3>1 DEF Unused
    <3>3. Unused(durable', j)
      BY <2>2, <3>1 DEF Unused
    <3>4. QED
      BY <3>2, <3>3
  <2>4. \A j \in Ids : j >= nextId' => j > nextId /\ j >= nextId
    BY <2>2 DEF Ids
  <2>5. Past'
    BY <2>1, <2>3, <2>4 DEF Past
  <2>6. QED
    BY <2>1, <2>5 DEF Idle
<1>11. ASSUME NEW i \in Ids, NEW p \in Players, Trade(i, p) PROVE Goal
  <2>1. op' = op /\ used' = used /\ nextId' = nextId
    BY <1>11, QuietSteps
  <2>2. /\ table[i] = durable[i] /\ table[i] \in Row /\ table'[i] = durable'[i]
        /\ table'[i].from = table[i].from
        /\ \A j \in Ids : j # i => table'[j] = table[j] /\ durable'[j] = durable[j]
    BY <1>0, <1>11, TradedRows
  <2>3. table[i] # NoRow /\ ~(i >= nextId)
    BY <1>0, <2>2, RowFields DEF Past, Unused
  <2>4. \A j \in Ids : j >= nextId => Unused(table', j) /\ Unused(durable', j)
    BY <2>2, <2>3 DEF Past, Unused
  <2>5. Past'
    BY <2>1, <2>4 DEF Past
  <2>6. QED
    BY <2>1, <2>5 DEF Idle
<1> HIDE DEF Goal
<1>12. Goal
  BY <1>2, <1>3, <1>4, <1>5, <1>6, <1>7, <1>8, <1>9, <1>10, <1>11, ExchangeCases
<1>13. QED
  BY <1>12 DEF Goal

\* What is consumed stays the player's.
LEMMA YoursInductive ==
    ASSUME Inv, Past, Idle, Yours, [Next]_vars
    PROVE  Yours'
<1>0. TypeOK /\ Control /\ Target /\ Bracketed /\ used \subseteq Ids
  BY DEF Inv, TypeOK
<1>1. ASSUME used' = used, player' = player, op' = op, \A j \in used : table'[j] = table[j],
             durable' \in {table, durable, table'}
      PROVE  Yours'
  BY <1>1 DEF Yours, StillYours
<1>2. ASSUME Ending PROVE Yours'
  BY <1>2 DEF Ending, Yours
<1>3. ASSUME Passing \/ Committing PROVE Yours'
  BY <1>1, <1>3 DEF Passing, Committing
<1>4. ASSUME NEW p \in Players, NEW o \in Operations, NEW consumed \in SUBSET Ids,
             NEW target \in 0..MaxItems, NEW step \in Steps,
             <<o, step>> \in First, Begun(p, o, consumed, target, step)
      PROVE  Yours'
  <2>1. /\ table' = table /\ durable' = table /\ op' = o /\ player' = p /\ used' = consumed
        /\ \A i \in consumed : table[i].owner = p
        /\ o = "unbox" => \A i \in consumed : table[i].kind = "crate"
        /\ o = "unname" => consumed = {}
    BY <1>4, BegunRows
  <2>2. QED
    BY <2>1 DEF Yours, StillYours
<1>5. ASSUME DeleteUnnamed PROVE Yours'
  <2>1. /\ table' = table /\ durable' = table /\ op' = "unname" /\ player' = player
        /\ used' = {made} /\ table[made].owner = player /\ Plain(table[made])
    BY <1>5, DeleteUnnamedRows
  <2>2. QED
    BY <2>1 DEF Yours, StillYours
<1>6. ASSUME SaveNewItemToDatabase PROVE Yours'
  <2>1. /\ nextId \in Ids
        /\ \A i \in Ids : i # nextId => table'[i] = table[i]
        /\ durable' \in {durable, table'}
    BY <1>0, <1>6, SavedRows
  <2>2. used' = used /\ player' = player /\ op' = op
    BY <1>6, WrittenSteps
  <2>3. nextId \notin used
    BY <2>1 DEF Past, Ids
  <2>4. QED
    BY <1>0, <1>1, <2>1, <2>2, <2>3
<1>7. ASSUME Update PROVE Yours'
  <2>1. /\ \A i \in Ids : /\ table'[i] = NoRow <=> table[i] = NoRow
                          /\ table[i] # NoRow => /\ table'[i].owner = table[i].owner
                                                 /\ table'[i].kind = table[i].kind
        /\ durable' \in {durable, table'}
    BY <1>0, <1>7, UpdatedRows
  <2>2. used' = used /\ player' = player /\ op' = op
    BY <1>7, WrittenSteps
  <2>3. QED
    BY <1>0, <2>1, <2>2 DEF Yours, StillYours, Plain
<1>8. ASSUME Delete PROVE Yours'
  <2>1. /\ \A i \in Ids : table'[i] \in {NoRow, table[i]}
        /\ durable' \in {durable, table'}
    BY <1>0, <1>8, DeletedRows
  <2>2. used' = used /\ player' = player /\ op' = op
    BY <1>8, WrittenSteps
  <2>3. QED
    BY <1>0, <2>1, <2>2 DEF Yours, StillYours
<1>9. ASSUME NEW p \in Players, CheckAndSendNewItemsSince(p) PROVE Yours'
  <2>1. used' = used /\ used = {}
    BY <1>9, QuietSteps DEF Idle, CheckAndSendNewItemsSince
  <2>2. QED
    BY <2>1 DEF Yours
<1>10. ASSUME NEW p \in Players, NEW kind \in Kinds, NEW by \in Sources, ShopInserts(p, kind, by)
       PROVE  Yours'
  <2>1. /\ nextId \in Ids
        /\ \A i \in Ids : i # nextId => table'[i] = table[i] /\ durable'[i] = durable[i]
    BY <1>0, <1>10, ShopRows
  <2>2. used' = used /\ player' = player /\ op' = op
    BY <1>10 DEF ShopInserts, handler
  <2>3. nextId \notin used
    BY <2>1 DEF Past, Ids
  <2>4. QED
    BY <1>0, <2>1, <2>2, <2>3 DEF Yours, StillYours
<1>11. ASSUME NEW i \in Ids, NEW p \in Players, Trade(i, p) PROVE Yours'
  <2>1. /\ table'[i].kind \in Tradable /\ durable'[i] = table'[i] /\ table'[i].kind = table[i].kind
        /\ table[i] \in Row
        /\ \A j \in Ids : j # i => table'[j] = table[j] /\ durable'[j] = durable[j]
    BY <1>0, <1>11, TradedRows
  <2>2. used' = used /\ player' = player /\ op' = op
    BY <1>11 DEF Trade, handler
  <2>3. table[i] # NoRow
    BY <2>1, RowFields
  <2>4. QED
    BY <1>0, <2>1, <2>2, <2>3 DEF Yours, StillYours, Plain
<1>12. QED
  BY <1>2, <1>3, <1>4, <1>5, <1>6, <1>7, <1>8, <1>9, <1>10, <1>11, ExchangeCases

\* A product holds what it is made of, until the handler ends.
LEMMA ProductInductive ==
    ASSUME Inv, Past, Idle, Product, [Next]_vars
    PROVE  Product'
<1>0. TypeOK /\ Control /\ Target /\ Bracketed /\ used \subseteq Ids
  BY DEF Inv, TypeOK
<1>1. Produced => made \in Ids
  BY <1>0 DEF Produced, Pending, Target, HasTarget
<1>2. ASSUME table' = durable', ~Produced' PROVE Product'
  BY <1>2 DEF Product, Produced, Itself
<1>3. ASSUME Ending PROVE Product'
  <2>1. op' = "none" /\ table' = durable'
    BY <1>3 DEF Ending
  <2>2. ~Produced'
    BY <2>1 DEF Produced, Pending
  <2>3. QED
    BY <1>2, <2>1, <2>2
<1>4. ASSUME Passing PROVE Product'
  BY <1>4 DEF Passing, Product, Itself
<1>5. ASSUME Committing PROVE Product'
  BY <1>2, <1>5 DEF Committing
<1>6. ASSUME NEW p \in Players, NEW o \in Operations, NEW consumed \in SUBSET Ids,
             NEW target \in 0..MaxItems, NEW step \in Steps,
             <<o, step>> \in First, Begun(p, o, consumed, target, step)
      PROVE  Product'
  BY <1>2, <1>6, BegunRows
<1>7. ASSUME DeleteUnnamed PROVE Product'
  BY <1>2, <1>7, DeleteUnnamedRows
<1>8. ASSUME SaveNewItemToDatabase PROVE Product'
  <2>1. /\ nextId \in Ids /\ made' = nextId /\ table'[nextId] \in Row
        /\ table'[nextId].from = used
        /\ \A i \in Ids : i # nextId => table'[i] = table[i]
        /\ durable' \in {durable, table'}
    BY <1>0, <1>8, SavedRows
  <2>2. used' = used /\ op' = op
    BY <1>8, WrittenSteps
  <2>3. nextId \notin used
    BY <2>1 DEF Past, Ids
  <2>4. table'[nextId] # NoRow
    BY <2>1, RowFields
  <2>5. op # "apply"
    BY <1>0, <1>8 DEF SaveNewItemToDatabase, Control
  <2>6. QED
    BY <2>1, <2>2, <2>3, <2>4, <2>5 DEF Product, Itself
<1>9. ASSUME Update PROVE Product'
  <2>1. /\ made \in Ids
        /\ table'[made] = NoRow <=> table[made] = NoRow
        /\ op = "apply" /\ ~Itself /\ table[made] # NoRow => used \subseteq table'[made].from
        /\ \A i \in Ids : i # made => table'[i] = table[i]
        /\ durable' \in {durable, table'}
    BY <1>0, <1>9, UpdatedRows
  <2>2. used' = used /\ op' = op /\ made' = made
    BY <1>9 DEF Update, GoTo
  <2>3. pc = "update" /\ pc' = IF op = "apply" THEN "delete" ELSE "commit"
    BY <1>9 DEF Update, GoTo
  <2>4. op = "apply" => table[made] # NoRow
    BY <1>0, <2>3 DEF Target
  <2>5. Produced' => op = "apply"
    BY <1>0, <2>2, <2>3 DEF Produced, Pending, Control
  <2>6. pc' \in {"forget", "commit"} => op # "apply"
    BY <2>3
  <2>7. Itself' <=> Itself
    BY <2>2 DEF Itself
  <2>8. ASSUME op = "apply", ~Itself
        PROVE  made \notin used /\ table'[made] # NoRow /\ used \subseteq table'[made].from
    BY <2>1, <2>4, <2>8 DEF Itself
  <2>9. QED
    BY <2>2, <2>5, <2>6, <2>7, <2>8 DEF Product, Itself
<1>10. ASSUME Delete PROVE Product'
  <2>1. /\ \A i \in Ids : table'[i] = IF i \in Deleted THEN NoRow ELSE table[i]
        /\ durable' = IF inTransaction THEN durable ELSE table'
    BY <1>0, <1>10, DeletedRows
  <2>2. used' = used /\ op' = op /\ made' = made
    BY <1>10 DEF Delete, GoTo
  <2>3. pc = "delete" /\ pc' = AfterDelete
    BY <1>10 DEF Delete, GoTo
  <2>4. Deleted \subseteq used
    BY DEF Deleted
  <2>5. Produced' => Produced
    BY <1>0, <2>2, <2>3 DEF AfterDelete, Produced, Pending, Control
  <2>6. ASSUME Itself PROVE table'[made] = NoRow
    <3>1. PICK s \in Ids : used = {s}
      BY <1>0, <2>6 DEF Itself, Target
    <3>2. Deleted # {} /\ made \in used
      BY <1>10, <2>6 DEF Itself, Delete
    <3>3. QED
      BY <2>1, <2>4, <3>1, <3>2
  <2>7. QED
    BY <1>1, <2>1, <2>2, <2>4, <2>5, <2>6 DEF Product, Itself
<1>11. ASSUME NEW p \in Players, CheckAndSendNewItemsSince(p) PROVE Product'
  <2>1. op' = op /\ op = "none"
    BY <1>11, QuietSteps DEF CheckAndSendNewItemsSince
  <2>2. ~Produced'
    BY <2>1 DEF Produced, Pending
  <2>3. table' = durable'
    BY <1>0, <1>11, <2>1, PolledRows
  <2>4. QED
    BY <1>2, <2>2, <2>3
<1>12. ASSUME NEW p \in Players, NEW kind \in Kinds, NEW by \in Sources, ShopInserts(p, kind, by)
       PROVE  Product'
  <2>1. /\ nextId \in Ids /\ table'[nextId] \in Row
        /\ \A i \in Ids : i # nextId => table'[i] = table[i] /\ durable'[i] = durable[i]
    BY <1>0, <1>12, ShopRows
  <2>2. op' = op /\ pc' = pc /\ used' = used /\ made' = made
    BY <1>12 DEF ShopInserts, handler
  <2>3. table[nextId] = NoRow /\ table'[nextId] # NoRow /\ nextId \notin used
    BY <2>1, RowFields DEF Past, Unused, Ids
  <2>4. Produced' => Produced
    BY <2>2 DEF Produced, Pending
  <2>5. QED
    BY <1>0, <1>1, <2>1, <2>2, <2>3, <2>4 DEF Product, Itself
<1>13. ASSUME NEW i \in Ids, NEW p \in Players, Trade(i, p) PROVE Product'
  <2>1. /\ table'[i] = durable'[i] /\ table[i] \in Row /\ table'[i] \in Row
        /\ table'[i].from = table[i].from
        /\ \A j \in Ids : j # i => table'[j] = table[j] /\ durable'[j] = durable[j]
    BY <1>0, <1>13, TradedRows
  <2>2. op' = op /\ pc' = pc /\ used' = used /\ made' = made
    BY <1>13, QuietSteps
  <2>3. table[i] # NoRow /\ table'[i] # NoRow
    BY <2>1, RowFields
  <2>4. Produced' => Produced
    BY <2>2 DEF Produced, Pending
  <2>5. QED
    BY <1>0, <1>1, <2>1, <2>2, <2>3, <2>4 DEF Product, Itself
<1>14. QED
  BY <1>3, <1>4, <1>5, <1>6, <1>7, <1>8, <1>9, <1>10, <1>11, <1>12, <1>13, ExchangeCases

\* The connection and the database differ as the request says, until the handler ends.
LEMMA KeptInductive ==
    ASSUME Inv, Past, Idle, Kept, [Next]_vars
    PROVE  Kept'
<1>0. TypeOK /\ Control /\ Target /\ Bracketed /\ used \subseteq Ids
  BY DEF Inv, TypeOK
<1>1. ASSUME table' = durable', inTransaction' => \A i \in used' : durable'[i] # NoRow PROVE Kept'
  BY <1>1 DEF Kept, Gone, Same, New, Backed
<1>2. ASSUME Ending PROVE Kept'
  BY <1>1, <1>2 DEF Ending
<1>3. ASSUME Passing PROVE Kept'
  BY <1>3 DEF Passing, Kept, Gone, Same, New, Backed
<1>4. ASSUME Committing PROVE Kept'
  BY <1>1, <1>4 DEF Committing
<1>5. ASSUME NEW p \in Players, NEW o \in Operations, NEW consumed \in SUBSET Ids,
             NEW target \in 0..MaxItems, NEW step \in Steps,
             <<o, step>> \in First, Begun(p, o, consumed, target, step)
      PROVE  Kept'
  BY <1>1, <1>5, BegunRows
<1>6. ASSUME DeleteUnnamed PROVE Kept'
  BY <1>1, <1>6, DeleteUnnamedRows
<1>7. ASSUME SaveNewItemToDatabase PROVE Kept'
  <2>1. /\ nextId \in Ids /\ made' = nextId /\ table'[nextId] \in Row
        /\ table'[nextId].from = used
        /\ \A i \in Ids : i # nextId => table'[i] = table[i]
        /\ durable' = IF inTransaction THEN durable ELSE table'
        /\ inTransaction' = inTransaction
    BY <1>0, <1>7, SavedRows
  <2>2. used' = used /\ op' = op /\ player' = player /\ pc = "save" /\ pc' = AfterSave
    BY <1>7 DEF SaveNewItemToDatabase
  <2>3. CASE ~inTransaction
    BY <1>1, <2>1, <2>3
  <2>4. CASE inTransaction
    <3>1. op \in {"unbox", "craft"}
      BY <1>0, <2>2, <2>4 DEF Control, Bracketed, Bracket
    <3>2. ~Produced /\ Produced'
      BY <2>2, <3>1 DEF Produced, Pending, AfterSave
    <3>3. durable[nextId] = NoRow /\ nextId \notin used
      BY <2>1 DEF Past, Unused, Ids
    <3>4. ASSUME NEW i \in Ids PROVE Gone(i)' /\ Same(i)' /\ New(i)' /\ Backed(i)'
      <4>1. CASE i = nextId
        BY <2>1, <2>2, <2>4, <3>1, <3>2, <3>3, <4>1 DEF Gone, Same, New, Backed
      <4>2. CASE i # nextId
        <5>1. table'[i] = table[i] /\ durable' = durable
          BY <2>1, <2>4, <4>2
        <5>2. Gone(i) /\ Same(i) /\ New(i) /\ Backed(i)
          BY DEF Kept
        <5>3. QED
          BY <2>1, <2>2, <3>1, <3>2, <5>1, <5>2 DEF Gone, Same, New, Backed
      <4>3. QED
        BY <4>1, <4>2
    <3>5. QED
      BY <3>4 DEF Kept
  <2>5. QED
    BY <2>3, <2>4
<1>8. ASSUME Update PROVE Kept'
  <2>1. /\ made \in Ids
        /\ table'[made] = NoRow <=> table[made] = NoRow
        /\ table[made] # NoRow =>
             /\ table'[made].owner = table[made].owner /\ table'[made].kind = table[made].kind
             /\ \/ table'[made].from = table[made].from
                \/ op = "apply" /\ table'[made].from = table[made].from \cup used
        /\ \A i \in Ids : i # made => table'[i] = table[i]
        /\ durable' = IF inTransaction THEN durable ELSE table'
        /\ inTransaction' = inTransaction
    BY <1>0, <1>8, UpdatedRows
  <2>2. /\ used' = used /\ op' = op /\ made' = made /\ player' = player /\ pc = "update"
        /\ pc' = IF op = "apply" THEN "delete" ELSE "commit"
    BY <1>8 DEF Update, GoTo
  <2>3. inTransaction /\ ~Produced
    BY <1>0, <2>2 DEF Control, Bracketed, Bracket, Produced, Pending
  <2>4. op = "apply" => Produced'
    BY <2>2 DEF Produced, Pending
  <2>5. ASSUME NEW i \in Ids PROVE Gone(i)' /\ Same(i)' /\ New(i)' /\ Backed(i)'
    <3>1. Gone(i) /\ Same(i) /\ New(i) /\ Backed(i)
      BY DEF Kept
    <3>2. durable' = durable
      BY <2>1, <2>3
    <3>3. CASE i = made
      BY <2>1, <2>2, <2>3, <2>4, <3>1, <3>2, <3>3 DEF Gone, Same, New, Backed
    <3>4. CASE i # made
      BY <2>1, <2>2, <2>3, <2>4, <3>1, <3>2, <3>4 DEF Gone, Same, New, Backed
    <3>5. QED
      BY <3>3, <3>4
  <2>6. QED
    BY <2>5 DEF Kept
<1>9. ASSUME Delete PROVE Kept'
  <2>1. /\ \A i \in Ids : table'[i] = IF i \in Deleted THEN NoRow ELSE table[i]
        /\ durable' = IF inTransaction THEN durable ELSE table'
        /\ inTransaction' = inTransaction
    BY <1>0, <1>9, DeletedRows
  <2>2. /\ used' = used /\ op' = op /\ made' = made /\ player' = player
        /\ pc = "delete" /\ pc' = AfterDelete
    BY <1>9 DEF Delete, GoTo
  <2>3. Produced => Produced'
    BY <2>2 DEF AfterDelete, Produced, Pending
  <2>4. CASE ~inTransaction
    BY <1>1, <2>1, <2>4
  <2>5. CASE inTransaction
    <3>1. op \in {"unbox", "craft", "apply"}
      BY <1>0, <2>2, <2>5 DEF Bracketed, Bracket
    <3>2. ASSUME NEW i \in Ids PROVE Gone(i)' /\ Same(i)' /\ New(i)' /\ Backed(i)'
      <4>1. Gone(i) /\ Same(i) /\ New(i) /\ Backed(i)
        BY DEF Kept
      <4>2. durable' = durable
        BY <2>1, <2>5
      <4>3. CASE i \in Deleted
        <5>1. i \in used /\ table'[i] = NoRow
          BY <2>1, <4>3 DEF Deleted
        <5>2. op # "craft" => table[i] # NoRow /\ table[i].owner = player
          BY <4>3 DEF Deleted, Holdings, Owned
        <5>3. QED
          BY <2>1, <2>2, <3>1, <4>1, <4>2, <5>1, <5>2 DEF Gone, Same, New, Backed
      <4>4. CASE i \notin Deleted
        <5>1. table'[i] = table[i]
          BY <2>1, <4>4
        <5>2. QED
          BY <2>1, <2>2, <2>3, <4>1, <4>2, <5>1 DEF Gone, Same, New, Backed
      <4>5. QED
        BY <4>3, <4>4
    <3>3. QED
      BY <3>2 DEF Kept
  <2>6. QED
    BY <2>4, <2>5
<1>10. ASSUME NEW p \in Players, CheckAndSendNewItemsSince(p) PROVE Kept'
  <2>1. op = "none"
    BY <1>10 DEF CheckAndSendNewItemsSince
  <2>2. table' = durable' /\ ~inTransaction'
    BY <1>0, <1>10, <2>1, PolledRows
  <2>3. QED
    BY <1>1, <2>2
<1>11. ASSUME NEW p \in Players, NEW kind \in Kinds, NEW by \in Sources, ShopInserts(p, kind, by)
       PROVE  Kept'
  <2>1. /\ nextId \in Ids /\ durable'[nextId] = table'[nextId]
        /\ \A i \in Ids : i # nextId => table'[i] = table[i] /\ durable'[i] = durable[i]
    BY <1>0, <1>11, ShopRows
  <2>2. /\ op' = op /\ pc' = pc /\ used' = used /\ made' = made /\ player' = player
        /\ inTransaction' = inTransaction
    BY <1>11 DEF ShopInserts, handler
  <2>3. nextId \notin used /\ (Produced' <=> Produced)
    BY <2>1, <2>2 DEF Past, Ids, Produced, Pending
  <2>4. ASSUME NEW i \in Ids PROVE Gone(i)' /\ Same(i)' /\ New(i)' /\ Backed(i)'
    <3>1. Gone(i) /\ Same(i) /\ New(i) /\ Backed(i)
      BY DEF Kept
    <3>2. CASE i = nextId
      BY <2>1, <2>2, <2>3, <3>2 DEF Gone, Same, New, Backed
    <3>3. CASE i # nextId
      BY <2>1, <2>2, <2>3, <3>1, <3>3 DEF Gone, Same, New, Backed
    <3>4. QED
      BY <3>2, <3>3
  <2>5. QED
    BY <2>4 DEF Kept
<1>12. ASSUME NEW k \in Ids, NEW p \in Players, Trade(k, p) PROVE Kept'
  <2>1. /\ table'[k] = durable'[k] /\ table'[k] \in Row
        /\ \A j \in Ids : j # k => table'[j] = table[j] /\ durable'[j] = durable[j]
    BY <1>0, <1>12, TradedRows
  <2>2. /\ op' = op /\ pc' = pc /\ used' = used /\ made' = made /\ player' = player
        /\ inTransaction' = inTransaction
    BY <1>12 DEF Trade, handler
  <2>3. table'[k] # NoRow /\ (Produced' <=> Produced)
    BY <2>1, <2>2, RowFields DEF Produced, Pending
  <2>4. ASSUME NEW i \in Ids PROVE Gone(i)' /\ Same(i)' /\ New(i)' /\ Backed(i)'
    <3>1. Gone(i) /\ Same(i) /\ New(i) /\ Backed(i)
      BY DEF Kept
    <3>2. CASE i = k
      BY <2>1, <2>2, <2>3, <3>2 DEF Gone, Same, New, Backed
    <3>3. CASE i # k
      BY <2>1, <2>2, <2>3, <3>1, <3>3 DEF Gone, Same, New, Backed
    <3>4. QED
      BY <3>2, <3>3
  <2>5. QED
    BY <2>4 DEF Kept
<1>13. QED
  BY <1>2, <1>3, <1>4, <1>5, <1>6, <1>7, <1>8, <1>9, <1>10, <1>11, <1>12, ExchangeCases

\* A request to delete is for one item, and so is the deletion for the loss of a name.
LEMMA SingleInductive ==
    ASSUME Inv, Single, [Next]_vars
    PROVE  Single'
<1>0. TypeOK
  BY DEF Inv
<1>1. ASSUME op' = op, used' = used PROVE Single'
  BY <1>1 DEF Single
<1>2. ASSUME Ending PROVE Single'
  BY <1>2 DEF Ending, Single
<1>3. ASSUME Passing \/ Committing PROVE Single'
  BY <1>1, <1>3 DEF Passing, Committing
<1>4. ASSUME NEW p \in Players, NEW o \in Operations, NEW consumed \in SUBSET Ids,
             NEW target \in 0..MaxItems, NEW step \in Steps,
             <<o, step>> \in First, Begun(p, o, consumed, target, step)
      PROVE  Single'
  BY <1>4, BegunRows DEF Single
<1>5. ASSUME DeleteUnnamed PROVE Single'
  BY <1>5, DeleteUnnamedRows DEF Single
<1>6. ASSUME SaveNewItemToDatabase \/ Update \/ Delete PROVE Single'
  BY <1>1, <1>6, WrittenSteps
<1>7. ASSUME NEW p \in Players, CheckAndSendNewItemsSince(p) PROVE Single'
  BY <1>1, <1>7, QuietSteps
<1>8. ASSUME NEW p \in Players, NEW kind \in Kinds, NEW by \in Sources, ShopInserts(p, kind, by)
      PROVE  Single'
  BY <1>1, <1>8 DEF ShopInserts, handler
<1>9. ASSUME NEW i \in Ids, NEW p \in Players, Trade(i, p) PROVE Single'
  BY <1>1, <1>9, QuietSteps
<1>10. QED
  BY <1>2, <1>3, <1>4, <1>5, <1>6, <1>7, <1>8, <1>9, ExchangeCases

\* A step that removes a committed row removes one that the request consumes.
LEMMA NothingLostSteps ==
    ASSUME Ledger, [Next]_vars, NEW i \in Ids, durable[i] # NoRow, durable'[i] = NoRow
    PROVE  /\ durable[i].owner = player \/ (op = "craft" /\ durable[i].kind \in Tradable)
           /\ \/ Destroys(i)
              \/ \E j \in Ids : durable'[j] # NoRow /\ i \in durable'[j].from
<1> DEFINE Goal == /\ durable[i].owner = player \/ (op = "craft" /\ durable[i].kind \in Tradable)
                   /\ \/ Destroys(i)
                      \/ \E j \in Ids : durable'[j] # NoRow /\ i \in durable'[j].from
<1>0. /\ Inv /\ TypeOK /\ Control /\ Target /\ Bracketed
      /\ Past /\ Idle /\ Product /\ Kept /\ Yours /\ Single
  BY DEF Ledger, Inv
<1>1. ASSUME pc = "commit", durable' = table PROVE Goal
  <2>1. i \in used /\ op \in {"unbox", "craft", "apply"}
    BY <1>0, <1>1 DEF Kept, Gone
  <2>2. Produced /\ made \in Ids
    BY <1>0, <1>1, <2>1 DEF Produced, Target, HasTarget
  <2>3. durable[i].owner = player \/ (op = "craft" /\ durable[i].kind \in Tradable)
    BY <1>0, <1>1, <2>1 DEF Yours, StillYours, Kept, Gone
  <2>4. CASE Itself
    <3>1. used = {i} /\ made = i /\ op = "apply"
      BY <1>0, <2>1, <2>4 DEF Itself, Target
    <3>2. QED
      BY <2>3, <3>1 DEF Destroys
  <2>5. CASE ~Itself
    <3>1. durable'[made] # NoRow /\ i \in durable'[made].from
      BY <1>0, <1>1, <2>1, <2>2, <2>5 DEF Product
    <3>2. QED
      BY <2>2, <2>3, <3>1
  <2>6. QED
    BY <2>4, <2>5
<1>2. ASSUME durable' = durable PROVE Goal
  BY <1>2
<1>3. ASSUME durable' = table', ~inTransaction, table[i] # NoRow => table'[i] # NoRow PROVE Goal
  BY <1>0, <1>3 DEF Bracketed
<1> HIDE DEF Goal
<1>4. ASSUME Ending \/ Passing \/ Committing PROVE Goal
  BY <1>1, <1>2, <1>4 DEF Ending, Passing, Committing
<1>5. ASSUME NEW p \in Players, NEW o \in Operations, NEW consumed \in SUBSET Ids,
             NEW target \in 0..MaxItems, NEW step \in Steps,
             <<o, step>> \in First, Begun(p, o, consumed, target, step)
      PROVE  Goal
  BY <1>0, <1>2, <1>5, BegunRows
<1>6. ASSUME DeleteUnnamed PROVE Goal
  BY <1>0, <1>2, <1>6, DeleteUnnamedRows
<1>7. ASSUME SaveNewItemToDatabase PROVE Goal
  <2>1. /\ table'[nextId] \in Row
        /\ \A j \in Ids : j # nextId => table'[j] = table[j]
        /\ durable' = IF inTransaction THEN durable ELSE table'
    BY <1>0, <1>7, SavedRows
  <2>2. table[i] # NoRow => table'[i] # NoRow
    BY <2>1, RowFields
  <2>3. QED
    BY <1>2, <1>3, <2>1, <2>2
<1>8. ASSUME Update PROVE Goal
  <2>1. /\ table'[made] = NoRow <=> table[made] = NoRow
        /\ \A j \in Ids : j # made => table'[j] = table[j]
        /\ durable' = IF inTransaction THEN durable ELSE table'
    BY <1>0, <1>8, UpdatedRows
  <2>2. table[i] # NoRow => table'[i] # NoRow
    BY <2>1
  <2>3. QED
    BY <1>2, <1>3, <2>1, <2>2
<1>9. ASSUME Delete PROVE Goal
  <2>1. /\ \A j \in Ids : table'[j] = IF j \in Deleted THEN NoRow ELSE table[j]
        /\ durable' = IF inTransaction THEN durable ELSE table'
    BY <1>0, <1>9, DeletedRows
  <2>2. CASE inTransaction
    BY <1>2, <2>1, <2>2
  <2>3. CASE ~inTransaction
    <3>1. table = durable
      BY <1>0, <2>3 DEF Bracketed
    <3>2. i \in Deleted
      BY <2>1, <2>3, <3>1
    <3>3. op \in {"delete", "unname"}
      BY <1>0, <1>9, <2>3 DEF Delete, Control, Bracketed, Bracket
    <3>4. i \in used /\ durable[i].owner = player
      BY <3>1, <3>2, <3>3 DEF Deleted, Holdings, Owned
    <3>5. used = {i}
      BY <1>0, <3>3, <3>4 DEF Single
    <3>6. op = "unname" => Plain(durable[i])
      BY <1>0, <3>1, <3>4 DEF Yours
    <3>7. Destroys(i)
      BY <3>3, <3>5, <3>6 DEF Destroys
    <3>8. QED
      BY <3>4, <3>7 DEF Goal
  <2>4. QED
    BY <2>2, <2>3
<1>10. ASSUME NEW p \in Players, CheckAndSendNewItemsSince(p) PROVE Goal
  <2>1. op = "none"
    BY <1>10 DEF CheckAndSendNewItemsSince
  <2>2. ~inTransaction
    BY <1>0, <2>1 DEF Bracketed, Bracket
  <2>3. durable' = table' /\ (table'[i] = NoRow <=> table[i] = NoRow)
    BY <1>0, <1>10, <2>1, PolledRows
  <2>4. QED
    BY <1>3, <2>2, <2>3
<1>11. ASSUME NEW p \in Players, NEW kind \in Kinds, NEW by \in Sources, ShopInserts(p, kind, by)
       PROVE  Goal
  <2>1. /\ table'[nextId] \in Row /\ durable'[nextId] = table'[nextId]
        /\ \A j \in Ids : j # nextId => durable'[j] = durable[j]
    BY <1>0, <1>11, ShopRows
  <2>2. QED
    BY <2>1, RowFields
<1>12. ASSUME NEW j \in Ids, NEW p \in Players, Trade(j, p) PROVE Goal
  <2>1. /\ durable'[j] \in Row
        /\ \A k \in Ids : k # j => durable'[k] = durable[k]
    BY <1>0, <1>12, TradedRows
  <2>2. QED
    BY <2>1, RowFields
<1>13. Goal
  BY <1>0, <1>4, <1>5, <1>6, <1>7, <1>8, <1>9, <1>10, <1>11, <1>12, ExchangeCases
<1>14. QED
  BY <1>13 DEF Goal

\* NotDuplicated in the terms of the invariant.
LEMMA DuplicationIsBoth == NotDuplicated <=> Clean(durable)
BY DEF NotDuplicated, Clean, Both

\* Crates are not traded while they are opened.
Undisturbed == "crate" \notin Tradable \/ "unbox" \notin Operations

\* Product and inputs are both there only while the deletion is pending.
LEMMA ConsumedInductive ==
    ASSUME Inv, Past, Idle, Yours, Consumed, Clean(durable), Undisturbed, [Next]_vars
    PROVE  Clean(durable)' /\ Consumed'
<1> DEFINE Goal == Clean(durable') /\ Consumed'
<1>0. TypeOK /\ Control /\ Target /\ Bracketed /\ used \subseteq Ids
  BY DEF Inv, TypeOK
<1>1. ~Pending => Clean(table)
  BY DEF Consumed, Clean
<1>2. ASSUME table' = durable', Clean(durable'), ~Emptied' PROVE Goal
  BY <1>2 DEF Consumed, Clean
<1>3. pc = "commit" \/ op = "none" \/ pc \in {"save", "update"} => ~Pending
  BY <1>0 DEF Pending, Control
<1>4. ASSUME Ending PROVE Goal
  <2>1. ~Emptied'
    BY <1>4 DEF Ending, Emptied
  <2>2. table' = durable' /\ Clean(durable')
    BY <1>1, <1>3, <1>4 DEF Ending
  <2>3. QED
    BY <1>2, <2>1, <2>2
<1>5. ASSUME Passing PROVE Goal
  BY <1>5 DEF Passing, Consumed
<1>6. ASSUME Committing PROVE Goal
  BY <1>1, <1>2, <1>3, <1>6 DEF Committing
<1>7. ASSUME NEW p \in Players, NEW o \in Operations, NEW consumed \in SUBSET Ids,
             NEW target \in 0..MaxItems, NEW step \in Steps,
             <<o, step>> \in First, Begun(p, o, consumed, target, step)
      PROVE  Goal
  BY <1>2, <1>7, BegunRows
<1>8. ASSUME DeleteUnnamed PROVE Goal
  BY <1>2, <1>8, DeleteUnnamedRows
<1>9. ASSUME SaveNewItemToDatabase PROVE Goal
  <2>1. /\ nextId \in Ids /\ made' = nextId
        /\ table'[nextId].from = used
        /\ \A i \in Ids : i # nextId => table'[i] = table[i]
        /\ durable' = IF inTransaction THEN durable ELSE table'
    BY <1>0, <1>9, SavedRows
  <2>2. used' = used /\ op' = op /\ pc = "save" /\ pc' = AfterSave
    BY <1>9 DEF SaveNewItemToDatabase
  <2>3. op \in {"unbox", "craft", "base"}
    BY <1>0, <2>2 DEF Control
  <2>4. Unused(table, nextId) /\ nextId \notin used
    BY <2>1 DEF Past, Ids
  <2>5. Clean(table)
    BY <1>1, <1>3, <2>2
  <2>6. ASSUME NEW i \in Ids, NEW j \in Ids, Both(table', i, j)
        PROVE  op = "unbox" /\ i = nextId /\ j \in used
    <3>1. CASE i = nextId
      <4>1. j \in used /\ table[j] # NoRow
        BY <2>1, <2>4, <2>6, <3>1 DEF Both
      <4>2. op # "craft" /\ op # "base"
        BY <2>2, <4>1 DEF Consumed, Emptied, Idle
      <4>3. QED
        BY <2>3, <3>1, <4>1, <4>2
    <3>2. CASE i # nextId
      <4>1. j # nextId
        BY <2>1, <2>4, <2>6, <3>2 DEF Both, Unused
      <4>2. Both(table, i, j)
        BY <2>1, <2>6, <3>2, <4>1 DEF Both
      <4>3. QED
        BY <2>5, <4>2 DEF Clean
    <3>3. QED
      BY <3>1, <3>2
  <2>7. op = "unbox" => Pending' /\ inTransaction
    BY <1>0, <2>2 DEF Pending, AfterSave, Bracketed, Bracket
  <2>8. ~Emptied'
    BY <2>2, <2>3 DEF Emptied, AfterSave
  <2>9. Consumed'
    BY <2>1, <2>2, <2>6, <2>7, <2>8 DEF Consumed
  <2>10. Clean(durable')
    BY <2>1, <2>6, <2>7 DEF Clean
  <2>11. QED
    BY <2>9, <2>10
<1>10. ASSUME Update PROVE Goal
  <2>1. /\ made \in Ids
        /\ table'[made] = NoRow <=> table[made] = NoRow
        /\ table[made] # NoRow =>
             \/ table'[made].from = table[made].from
             \/ op = "apply" /\ table'[made].from = table[made].from \cup used
        /\ \A i \in Ids : i # made => table'[i] = table[i]
        /\ durable' = IF inTransaction THEN durable ELSE table'
    BY <1>0, <1>10, UpdatedRows
  <2>2. /\ used' = used /\ op' = op /\ made' = made /\ pc = "update"
        /\ pc' = IF op = "apply" THEN "delete" ELSE "commit"
    BY <1>10 DEF Update, GoTo
  <2>3. inTransaction
    BY <1>0, <2>2 DEF Control, Bracketed, Bracket
  <2>4. Clean(table)
    BY <1>1, <1>3, <2>2
  <2>5. ASSUME NEW i \in Ids, NEW j \in Ids, Both(table', i, j)
        PROVE  op = "apply" /\ i = made /\ j \in used
    <3>1. table[i] # NoRow /\ table[j] # NoRow
      BY <2>1, <2>5 DEF Both
    <3>2. j \notin table[i].from
      BY <2>4, <3>1 DEF Clean, Both
    <3>3. QED
      BY <2>1, <2>5, <3>1, <3>2 DEF Both
  <2>6. op = "apply" => Pending'
    BY <2>2 DEF Pending
  <2>7. ~Emptied'
    BY <2>2 DEF Emptied
  <2>8. Consumed'
    BY <2>2, <2>5, <2>6, <2>7 DEF Consumed
  <2>9. QED
    BY <2>1, <2>3, <2>8
<1>11. ASSUME Delete PROVE Goal
  <2>1. /\ \A i \in Ids : table'[i] = IF i \in Deleted THEN NoRow ELSE table[i]
        /\ durable' = IF inTransaction THEN durable ELSE table'
    BY <1>0, <1>11, DeletedRows
  <2>2. used' = used /\ op' = op /\ pc = "delete"
    BY <1>11 DEF Delete, GoTo
  <2>3. ASSUME NEW i \in Ids, NEW j \in Ids, Both(table', i, j) PROVE FALSE
    <3>1. Both(table, i, j) /\ j \notin Deleted
      BY <2>1, <2>3 DEF Both
    <3>2. j \in used /\ op \in {"unbox", "apply"}
      BY <3>1 DEF Consumed, Pending
    <3>3. CASE op = "unbox"
      <4>1. "crate" \notin Tradable
        BY <3>3 DEF Undisturbed, Idle
      <4>2. j \in Holdings(player)
        BY <3>1, <3>2, <3>3, <4>1 DEF Yours, StillYours, Holdings, Owned, Both
      <4>3. QED
        BY <3>1, <3>2, <3>3, <4>2 DEF Deleted
    <3>4. CASE op = "apply"
      <4>1. Deleted # {} /\ Deleted \subseteq used
        BY <1>11, <3>4 DEF Delete, Deleted
      <4>2. PICK s \in Ids : used = {s}
        BY <1>0, <3>4 DEF Target
      <4>3. QED
        BY <3>1, <3>2, <4>1, <4>2
    <3>5. QED
      BY <3>2, <3>3, <3>4
  <2>4. Clean(table')
    BY <2>3 DEF Clean
  <2>5. ASSUME Emptied', NEW j \in used PROVE table'[j] = NoRow
    <3>1. j \in Deleted
      BY <2>2, <2>5 DEF Emptied, Deleted
    <3>2. QED
      BY <1>0, <2>1, <3>1
  <2>6. Consumed'
    BY <2>2, <2>4, <2>5 DEF Consumed, Clean
  <2>7. QED
    BY <2>1, <2>4, <2>6
<1>12. ASSUME NEW p \in Players, CheckAndSendNewItemsSince(p) PROVE Goal
  <2>1. op' = op /\ op = "none"
    BY <1>12, QuietSteps DEF CheckAndSendNewItemsSince
  <2>2. /\ durable' = table'
        /\ \A i \in Ids : /\ table'[i] = NoRow <=> table[i] = NoRow
                          /\ table[i] # NoRow => table'[i].from = table[i].from
    BY <1>0, <1>12, <2>1, PolledRows
  <2>3. \A i, j \in Ids : Both(table', i, j) => Both(table, i, j)
    BY <2>2 DEF Both
  <2>4. Clean(durable')
    BY <1>1, <1>3, <2>1, <2>2, <2>3 DEF Clean
  <2>5. ~Emptied'
    BY <2>1 DEF Emptied
  <2>6. QED
    BY <1>2, <2>2, <2>4, <2>5
<1>13. ASSUME NEW p \in Players, NEW kind \in Kinds, NEW by \in Sources, ShopInserts(p, kind, by)
       PROVE  Goal
  <2>1. /\ nextId \in Ids /\ table'[nextId].from = {} /\ durable'[nextId] = table'[nextId]
        /\ \A i \in Ids : i # nextId => table'[i] = table[i] /\ durable'[i] = durable[i]
    BY <1>0, <1>13, ShopRows
  <2>2. op' = op /\ pc' = pc /\ used' = used /\ made' = made
    BY <1>13 DEF ShopInserts, handler
  <2>3. Unused(table, nextId) /\ Unused(durable, nextId) /\ nextId \notin used
    BY <2>1 DEF Past, Ids
  <2>4. \A i, j \in Ids : Both(table', i, j) => Both(table, i, j)
    BY <2>1, <2>3 DEF Both, Unused
  <2>5. \A i, j \in Ids : Both(durable', i, j) => Both(durable, i, j)
    BY <2>1, <2>3 DEF Both, Unused
  <2>6. (Pending' <=> Pending) /\ (Emptied' <=> Emptied)
    BY <2>2 DEF Pending, Emptied
  <2>7. Consumed'
    BY <1>0, <2>1, <2>2, <2>3, <2>4, <2>6 DEF Consumed
  <2>8. QED
    BY <2>5, <2>7 DEF Clean
<1>14. ASSUME NEW k \in Ids, NEW p \in Players, Trade(k, p) PROVE Goal
  <2>1. /\ table'[k].from = table[k].from /\ table[k] = durable[k] /\ table'[k] = durable'[k]
        /\ table[k] \in Row
        /\ \A j \in Ids : j # k => table'[j] = table[j] /\ durable'[j] = durable[j]
    BY <1>0, <1>14, TradedRows
  <2>2. op' = op /\ pc' = pc /\ used' = used /\ made' = made
    BY <1>14, QuietSteps
  <2>3. table[k] # NoRow
    BY <2>1, RowFields
  <2>4. \A i, j \in Ids : Both(table', i, j) => Both(table, i, j)
    BY <2>1, <2>3 DEF Both
  <2>5. \A i, j \in Ids : Both(durable', i, j) => Both(durable, i, j)
    BY <2>1, <2>3 DEF Both
  <2>6. (Pending' <=> Pending) /\ (Emptied' <=> Emptied)
    BY <2>2 DEF Pending, Emptied
  <2>7. Consumed'
    BY <1>0, <2>1, <2>2, <2>3, <2>4, <2>6 DEF Consumed
  <2>8. QED
    BY <2>5, <2>7 DEF Clean
<1> HIDE DEF Goal
<1>15. Goal
  BY <1>4, <1>5, <1>6, <1>7, <1>8, <1>9, <1>10, <1>11, <1>12, <1>13, <1>14, ExchangeCases
<1>16. QED
  BY <1>15 DEF Goal, Clean, Both
-----------------------------------------------------------------------------
\* The invariants hold initially.
LEMMA LedgerInitially == Init => Ledger /\ Consumed /\ Clean(durable)
<1> SUFFICES ASSUME Init PROVE Ledger /\ Consumed /\ Clean(durable)
  OBVIOUS
<1>1. /\ op = "none" /\ used = {} /\ durable = table
      /\ \A i \in Ids : table[i] = NoRow
  BY DEF Init
<1>2. Past /\ Idle /\ Kept /\ Yours /\ Single
  BY <1>1 DEF Past, Unused, Idle, Kept, Gone, Same, New, Backed, Yours, Single
<1>3. Product /\ Consumed /\ Clean(durable)
  BY <1>1 DEF Product, Itself, Produced, Pending, Consumed, Emptied, Both, Clean
<1>4. QED
  BY <1>2, <1>3, InvInitially DEF Ledger

\* Every step keeps the ledger.
LEMMA LedgerKept == Ledger /\ [Next]_vars => Ledger'
BY InvInductive, LedgerInductive, ProductInductive, KeptInductive, YoursInductive,
   SingleInductive DEF Ledger

\* It holds throughout.
LEMMA LedgerInvariance == Spec => []Ledger
BY LedgerKept, LedgerInitially, PTL DEF Spec

\* An item disappears from the database only at its owner's request, and unless that
\* request destroys it, by becoming part of what is committed with its disappearance,
\* whatever statement, connection or commit fails and whatever changes hands meanwhile.
THEOREM NothingIsLost == Spec => NothingLost
<1> DEFINE Explained == \A i \in Ids : durable[i] # NoRow /\ durable'[i] = NoRow =>
          /\ durable[i].owner = player \/ (op = "craft" /\ durable[i].kind \in Tradable)
          /\ \/ Destroys(i)
             \/ \E j \in Ids : durable'[j] # NoRow /\ i \in durable'[j].from
<1>1. Ledger /\ [Next]_vars => [Explained]_vars
  BY NothingLostSteps
<1>2. QED
  BY <1>1, LedgerInvariance, PTL DEF Spec, NothingLost

\* What an item was made of is gone from the database, for any failures, and for any
\* trades but those of crates.
THEOREM NothingIsDuplicated == ASSUME Undisturbed PROVE Spec => []NotDuplicated
<1> DEFINE Sound == Consumed /\ Clean(durable)
<1>1. Init => Sound
  BY LedgerInitially
<1>2. Ledger /\ Sound /\ [Next]_vars => Sound'
  BY ConsumedInductive DEF Ledger
<1>3. Sound => NotDuplicated
  BY DuplicationIsBoth
<1>4. QED
  BY <1>1, <1>2, <1>3, LedgerInvariance, PTL DEF Spec
-----------------------------------------------------------------------------
(* The refinement. *)

\* What a handler has made and not committed is made of nothing but what it consumes,
\* and its id is not in the database yet.
Novel == op \in {"unbox", "craft"} /\ Produced => Unused(durable, made)

\* No other user of the database takes the id of a product.
LEMMA NovelInductive ==
    ASSUME Inv, Past, Idle, Product, Novel, [Next]_vars
    PROVE  Novel'
<1>0. TypeOK /\ Control /\ Target /\ Bracketed
  BY DEF Inv
<1>1. ASSUME ~Produced' \/ op' \notin {"unbox", "craft"} PROVE Novel'
  BY <1>1 DEF Novel
<1>2. ASSUME Ending PROVE Novel'
  BY <1>1, <1>2 DEF Ending
<1>3. ASSUME Passing PROVE Novel'
  BY <1>3 DEF Passing, Novel
<1>4. ASSUME Committing PROVE Novel'
  BY <1>1, <1>4 DEF Committing
<1>5. ASSUME NEW p \in Players, NEW o \in Operations, NEW consumed \in SUBSET Ids,
             NEW target \in 0..MaxItems, NEW step \in Steps,
             <<o, step>> \in First, Begun(p, o, consumed, target, step)
      PROVE  Novel'
  BY <1>1, <1>5, BegunRows
<1>6. ASSUME DeleteUnnamed PROVE Novel'
  BY <1>1, <1>6, DeleteUnnamedRows
<1>7. ASSUME SaveNewItemToDatabase PROVE Novel'
  <2>1. /\ nextId \in Ids /\ made' = nextId
        /\ durable' = IF inTransaction THEN durable ELSE table'
    BY <1>0, <1>7, SavedRows
  <2>2. op' = op /\ pc = "save"
    BY <1>7 DEF SaveNewItemToDatabase
  <2>3. op \in {"unbox", "craft"} => inTransaction
    BY <1>0, <2>2 DEF Bracketed, Bracket
  <2>4. Unused(durable, nextId)
    BY <2>1 DEF Past, Ids
  <2>5. QED
    BY <2>1, <2>2, <2>3, <2>4 DEF Novel
<1>8. ASSUME Update PROVE Novel'
  <2>1. op' = op /\ pc = "update"
    BY <1>8 DEF Update, GoTo
  <2>2. op \notin {"unbox", "craft"}
    BY <1>0, <2>1 DEF Control
  <2>3. QED
    BY <1>1, <2>1, <2>2
<1>9. ASSUME Delete PROVE Novel'
  <2>1. durable' = IF inTransaction THEN durable ELSE table'
    BY <1>0, <1>9, DeletedRows
  <2>2. op' = op /\ made' = made /\ pc = "delete" /\ pc' = AfterDelete
    BY <1>9 DEF Delete, GoTo
  <2>3. op \in {"unbox", "craft"} => inTransaction
    BY <1>0, <2>2 DEF Bracketed, Bracket
  <2>4. Produced' => Produced
    BY <1>0, <2>2 DEF AfterDelete, Produced, Pending, Control
  <2>5. QED
    BY <2>1, <2>2, <2>3, <2>4 DEF Novel
<1>10. ASSUME NEW p \in Players, CheckAndSendNewItemsSince(p) PROVE Novel'
  BY <1>1, <1>10, QuietSteps DEF CheckAndSendNewItemsSince
<1>11. ASSUME NEW p \in Players, NEW kind \in Kinds, NEW by \in Sources, ShopInserts(p, kind, by)
       PROVE  Novel'
  <2>1. /\ nextId \in Ids /\ durable'[nextId].from = {} /\ durable'[nextId] = table'[nextId]
        /\ \A i \in Ids : i # nextId => durable'[i] = durable[i]
    BY <1>0, <1>11, ShopRows
  <2>2. op' = op /\ pc' = pc /\ made' = made
    BY <1>11 DEF ShopInserts, handler
  <2>3. ASSUME op \in {"unbox", "craft"}, Produced PROVE Unused(durable', made)
    <3>1. made \in Ids /\ made # nextId
      BY <1>0, <2>1, <2>3 DEF Produced, Pending, Target, HasTarget, Product, Itself, Past, Unused, Ids
    <3>2. Unused(durable, made)
      BY <2>3 DEF Novel
    <3>3. QED
      BY <2>1, <3>1, <3>2 DEF Unused
  <2>4. Produced' => Produced
    BY <2>2 DEF Produced, Pending
  <2>5. QED
    BY <2>2, <2>3, <2>4 DEF Novel
<1>12. ASSUME NEW i \in Ids, NEW p \in Players, Trade(i, p) PROVE Novel'
  <2>1. /\ durable[i] \in Row /\ durable'[i].from = durable[i].from
        /\ \A j \in Ids : j # i => durable'[j] = durable[j]
    BY <1>0, <1>12, TradedRows
  <2>2. op' = op /\ pc' = pc /\ made' = made
    BY <1>12, QuietSteps
  <2>3. ASSUME op \in {"unbox", "craft"}, Produced PROVE Unused(durable', made)
    <3>1. Unused(durable, made) /\ made \in Ids
      BY <1>0, <2>3 DEF Novel, Produced, Pending, Target, HasTarget
    <3>2. durable[i] # NoRow
      BY <2>1, RowFields
    <3>3. QED
      BY <2>1, <3>1, <3>2 DEF Unused
  <2>4. Produced' => Produced
    BY <2>2 DEF Produced, Pending
  <2>5. QED
    BY <2>2, <2>3, <2>4 DEF Novel
<1>13. QED
  BY <1>2, <1>3, <1>4, <1>5, <1>6, <1>7, <1>8, <1>9, <1>10, <1>11, <1>12, ExchangeCases
-----------------------------------------------------------------------------
\* What Inventory sees of a row.
LEMMA AbstractItems ==
    ASSUME NEW t \in Table, NEW i \in Ids
    PROVE  /\ Abstract(t)[i] = NoRow <=> t[i] = NoRow
           /\ t[i] # NoRow => /\ Abstract(t)[i] = [owner |-> t[i].owner, from |-> t[i].from]
                              /\ t[i].owner \in Players /\ t[i].from \subseteq Ids
<1>1. t[i] = NoRow \/ t[i] \in Row
  BY DEF Table
<1>2. CASE t[i] = NoRow
  BY <1>2 DEF Abstract
<1>3. CASE t[i] \in Row
  <2>1. t[i].owner \in Players /\ t[i].from \in SUBSET Ids /\ t[i] # NoRow
    BY <1>3, RowFields
  <2>2. [owner |-> t[i].owner, from |-> t[i].from] \in [owner: Players, from: SUBSET Ids]
    BY <2>1
  <2>3. [owner |-> t[i].owner, from |-> t[i].from] # NoRow
    BY <2>2, ExchangeAssumption
  <2>4. Abstract(t)[i] = [owner |-> t[i].owner, from |-> t[i].from]
    BY <2>1 DEF Abstract
  <2>5. QED
    BY <2>1, <2>3, <2>4
<1>4. QED
  BY <1>1, <1>2, <1>3

\* A row is an item to Inventory, and the other way round.
Alike(t, u, i) ==
    /\ t[i] = NoRow <=> u[i] = NoRow
    /\ t[i] # NoRow => t[i].owner = u[i].owner /\ t[i].from = u[i].from

\* Rows that are alike are the same item.
LEMMA AlikeItems ==
    ASSUME NEW t \in Table, NEW u \in Table, NEW i \in Ids, Alike(t, u, i)
    PROVE  Abstract(t)[i] = Abstract(u)[i]
<1>1. CASE t[i] = NoRow
  <2>1. u[i] = NoRow
    BY <1>1 DEF Alike
  <2>2. QED
    BY <1>1, <2>1 DEF Abstract
<1>2. CASE t[i] # NoRow
  <2>1. u[i] # NoRow /\ t[i].owner = u[i].owner /\ t[i].from = u[i].from
    BY <1>2 DEF Alike
  <2>2. Abstract(t)[i] = [owner |-> t[i].owner, from |-> t[i].from]
    BY <1>2 DEF Abstract
  <2>3. Abstract(u)[i] = [owner |-> u[i].owner, from |-> u[i].from]
    BY <2>1 DEF Abstract
  <2>4. QED
    BY <2>1, <2>2, <2>3
<1>3. QED
  BY <1>1, <1>2

\* An id without a row and in no row is fresh.
LEMMA FreshIds ==
    ASSUME durable \in Table, NEW i \in Ids, Unused(durable, i)
    PROVE  Promise!Fresh(i)
<1>1. Abstract(durable)[i] = NoRow
  BY AbstractItems DEF Unused
<1>2. ASSUME NEW j \in Ids, Abstract(durable)[j] # NoRow PROVE i \notin Abstract(durable)[j].from
  <2>1. durable[j] # NoRow /\ Abstract(durable)[j] = [owner |-> durable[j].owner, from |-> durable[j].from]
    BY <1>2, AbstractItems
  <2>2. QED
    BY <2>1 DEF Unused
<1>3. QED
  BY <1>1, <1>2 DEF Promise!Fresh, Promise!Present

\* A committed row that appears is an item inserted.
LEMMA InsertedItem ==
    ASSUME durable \in Table, durable' \in Table, NEW i \in Ids, Unused(durable, i),
           durable'[i] # NoRow, durable'[i].from = {},
           \A j \in Ids : j # i => Alike(durable', durable, j)
    PROVE  Promise!Next
<1>1. durable'[i].owner \in Players
  BY AbstractItems
<1>2. Abstract(durable') = [Abstract(durable) EXCEPT ![i] = [owner |-> durable'[i].owner, from |-> {}]]
  <2>1. Abstract(durable')[i] = [owner |-> durable'[i].owner, from |-> {}]
    BY AbstractItems
  <2>2. \A j \in Ids : j # i => Abstract(durable')[j] = Abstract(durable)[j]
    BY AlikeItems
  <2>3. QED
    BY <2>1, <2>2 DEF Abstract
<1>3. Promise!Insert(durable'[i].owner, i)
  BY <1>2, FreshIds DEF Promise!Insert, Abstract
<1>4. QED
  BY <1>1, <1>3 DEF Promise!Next

\* A committed row that appears in place of others is an item made of them.
LEMMA ProducedItem ==
    ASSUME durable \in Table, durable' \in Table, NEW i \in Ids, NEW S \in SUBSET Ids,
           S # {}, i \notin S, \A s \in S : durable[s] # NoRow /\ durable'[s] = NoRow,
           Unused(durable, i), durable'[i] # NoRow, durable'[i].from = S,
           \A j \in Ids \ S : j # i => Alike(durable', durable, j)
    PROVE  Promise!Next
<1>1. durable'[i].owner \in Players
  BY AbstractItems
<1> DEFINE p == durable'[i].owner
           new == [j \in Ids |-> IF j = i THEN [owner |-> p, from |-> S]
                                 ELSE IF j \in S THEN NoRow ELSE Abstract(durable)[j]]
<1>2. Abstract(durable')[i] = [owner |-> p, from |-> S]
  BY AbstractItems
<1>3. \A j \in S : Abstract(durable')[j] = NoRow
  BY AbstractItems
<1>4. \A j \in Ids \ S : j # i => Abstract(durable')[j] = Abstract(durable)[j]
  BY AlikeItems
<1>5. Abstract(durable') = new
  <2>1. \A j \in Ids : Abstract(durable')[j] = new[j]
    BY <1>2, <1>3, <1>4
  <2>2. Abstract(durable') = [j \in Ids |-> Abstract(durable')[j]]
    BY DEF Abstract
  <2>3. QED
    BY <2>1, <2>2
<1>6. \A s \in S : Promise!Present(s)
  BY AbstractItems DEF Promise!Present
<1>7. Promise!Exchange(p, S, i)
  BY <1>5, <1>6, FreshIds DEF Promise!Exchange, Abstract
<1>8. QED
  BY <1>1, <1>7 DEF Promise!Next

\* A committed row that others become part of is an item that takes them in.
LEMMA AbsorbedItem ==
    ASSUME durable \in Table, durable' \in Table, NEW i \in Ids, NEW S \in SUBSET Ids,
           S # {}, i \notin S, \A s \in S : durable[s] # NoRow /\ durable'[s] = NoRow,
           durable[i] # NoRow, durable'[i] # NoRow, durable'[i].owner = durable[i].owner,
           durable'[i].from = durable[i].from \cup S,
           \A j \in Ids \ S : j # i => Alike(durable', durable, j)
    PROVE  Promise!Next
<1>1. durable'[i].owner \in Players
  BY AbstractItems
<1> DEFINE p == durable'[i].owner
           new == [j \in Ids |-> IF j = i THEN [Abstract(durable)[i] EXCEPT !.from = @ \cup S]
                                 ELSE IF j \in S THEN NoRow ELSE Abstract(durable)[j]]
<1>2. Abstract(durable')[i] = [Abstract(durable)[i] EXCEPT !.from = @ \cup S]
  <2>1. Abstract(durable')[i] = [owner |-> p, from |-> durable[i].from \cup S]
    BY AbstractItems
  <2>2. Abstract(durable)[i] = [owner |-> p, from |-> durable[i].from]
    BY AbstractItems
  <2>3. QED
    BY <2>1, <2>2
<1>3. \A j \in S : Abstract(durable')[j] = NoRow
  BY AbstractItems
<1>4. \A j \in Ids \ S : j # i => Abstract(durable')[j] = Abstract(durable)[j]
  BY AlikeItems
<1>5. Abstract(durable') = new
  <2>1. \A j \in Ids : Abstract(durable')[j] = new[j]
    BY <1>2, <1>3, <1>4
  <2>2. Abstract(durable') = [j \in Ids |-> Abstract(durable')[j]]
    BY DEF Abstract
  <2>3. QED
    BY <2>1, <2>2
<1>6. Promise!Present(i) /\ \A s \in S : Promise!Present(s)
  BY AbstractItems DEF Promise!Present
<1>7. Promise!Exchange(p, S, i)
  BY <1>5, <1>6 DEF Promise!Exchange, Abstract
<1>8. QED
  BY <1>1, <1>7 DEF Promise!Next

\* A committed row that goes is an item deleted.
LEMMA DeletedItem ==
    ASSUME durable \in Table, durable' \in Table, NEW i \in Ids,
           durable[i] # NoRow, durable'[i] = NoRow,
           \A j \in Ids : j # i => Alike(durable', durable, j)
    PROVE  Promise!Next
<1>1. Abstract(durable')[i] = NoRow
  BY AbstractItems
<1>2. \A j \in Ids : j # i => Abstract(durable')[j] = Abstract(durable)[j]
  BY AlikeItems
<1>3. Abstract(durable') = [Abstract(durable) EXCEPT ![i] = NoRow]
  BY <1>1, <1>2 DEF Abstract
<1>4. Promise!Delete(i)
  BY <1>3, AbstractItems DEF Promise!Delete, Promise!Present, Abstract
<1>5. QED
  BY <1>4 DEF Promise!Next

\* A committed row that another player owns is an item given.
LEMMA GivenItem ==
    ASSUME durable \in Table, durable' \in Table, NEW i \in Ids,
           durable[i] # NoRow, durable'[i] # NoRow, durable'[i].from = durable[i].from,
           \A j \in Ids : j # i => Alike(durable', durable, j)
    PROVE  Promise!Next
<1>1. durable'[i].owner \in Players
  BY AbstractItems
<1> DEFINE p == durable'[i].owner
<1>2. Abstract(durable')[i] = [Abstract(durable)[i] EXCEPT !.owner = p]
  <2>1. Abstract(durable')[i] = [owner |-> p, from |-> durable[i].from]
    BY AbstractItems
  <2>2. Abstract(durable)[i] = [owner |-> durable[i].owner, from |-> durable[i].from]
    BY AbstractItems
  <2>3. QED
    BY <2>1, <2>2
<1>3. \A j \in Ids : j # i => Abstract(durable')[j] = Abstract(durable)[j]
  BY AlikeItems
<1>4. Abstract(durable') = [Abstract(durable) EXCEPT ![i].owner = p]
  BY <1>2, <1>3 DEF Abstract
<1>5. Promise!Give(i, p)
  BY <1>4, AbstractItems DEF Promise!Give, Promise!Present, Abstract
<1>6. QED
  BY <1>1, <1>5 DEF Promise!Next

\* Where all rows are alike nothing happens.
LEMMA SameItems ==
    ASSUME durable \in Table, durable' \in Table,
           \A j \in Ids : Alike(durable', durable, j)
    PROVE  UNCHANGED Abstract(durable)
<1>1. \A j \in Ids : Abstract(durable')[j] = Abstract(durable)[j]
  BY AlikeItems
<1>2. Abstract(durable') = Abstract(durable)
  BY <1>1 DEF Abstract
<1>3. QED
  BY <1>2 DEF Abstract

\* A commit makes of everything the handler did one step.
LEMMA CommittedItems ==
    ASSUME Ledger, Novel, Clean(table), pc = "commit", durable' = table
    PROVE  Promise!Next \/ UNCHANGED Abstract(durable)
<1>0. /\ Inv /\ TypeOK /\ Control /\ Target /\ Bracketed /\ Product /\ Kept
      /\ table \in Table /\ durable \in Table /\ durable' \in Table /\ used \in SUBSET Ids
  BY DEF Ledger, Inv, TypeOK, Table
<1>1. op \in {"unbox", "craft", "apply", "scrape", "unname"}
  BY <1>0 DEF Control
<1>2. ASSUME op \in {"scrape", "unname"} PROVE UNCHANGED Abstract(durable)
  <2>1. \A j \in Ids : Alike(durable', durable, j)
    BY <1>0, <1>2 DEF Kept, Gone, Same, New, Alike
  <2>2. QED
    BY <1>0, <2>1, SameItems
<1>3. ASSUME Itself PROVE Promise!Next
  <2>1. made \in Ids /\ used = {made} /\ inTransaction
    BY <1>0, <1>3 DEF Itself, Target, HasTarget, Bracketed, Bracket
  <2>2. durable[made] # NoRow /\ durable'[made] = NoRow
    BY <1>0, <1>3, <2>1 DEF Kept, Backed, Product
  <2>3. \A j \in Ids : j # made => Alike(durable', durable, j)
    BY <1>0, <2>1 DEF Kept, Gone, Same, New, Alike
  <2>4. QED
    BY <1>0, <2>1, <2>2, <2>3, DeletedItem
<1>4. ASSUME op \in {"unbox", "craft", "apply"}, ~Itself PROVE Promise!Next
  <2>1. Produced /\ made \in Ids /\ inTransaction
    BY <1>0, <1>4 DEF Produced, Target, HasTarget, Bracketed, Bracket
  <2>2. made \notin used /\ durable'[made] # NoRow /\ used \subseteq durable'[made].from
    BY <1>0, <1>4, <2>1 DEF Product
  <2>3. \A s \in used : durable[s] # NoRow
    BY <1>0, <2>1 DEF Kept, Backed
  <2>4. \A s \in used : durable'[s] = NoRow
    BY <1>0, <2>1, <2>2 DEF Clean, Both
  <2>5. ASSUME NEW j \in Ids \ used, j # made PROVE Alike(durable', durable, j)
    BY <1>0, <2>5 DEF Kept, Gone, Same, New, Alike
  <2>6. CASE op \in {"unbox", "craft"}
    <3>1. Unused(durable, made)
      BY <2>1, <2>6 DEF Novel
    <3>2. durable'[made].from = used
      BY <1>0, <2>1, <2>2, <3>1 DEF Kept, New, Unused
    <3>3. CASE used = {}
      BY <1>0, <2>1, <2>2, <2>5, <3>1, <3>2, <3>3, InsertedItem
    <3>4. CASE used # {}
      <4>1. \A s \in used : durable[s] # NoRow /\ durable'[s] = NoRow
        BY <2>3, <2>4
      <4>2. \A j \in Ids \ used : j # made => Alike(durable', durable, j)
        BY <2>5
      <4>3. QED
        BY <1>0, <2>1, <2>2, <3>1, <3>2, <3>4, <4>1, <4>2, ProducedItem
    <3>5. QED
      BY <3>3, <3>4
  <2>7. CASE op = "apply"
    <3>1. used # {}
      BY <1>0, <2>7 DEF Target
    <3>2. durable[made] # NoRow
      BY <1>0, <2>1, <2>2, <2>7 DEF Kept, New
    <3>3. /\ durable'[made].owner = durable[made].owner
          /\ durable'[made].from = durable[made].from \cup used
      BY <1>0, <2>1, <2>2, <3>2 DEF Kept, Same
    <3>4. \A s \in used : durable[s] # NoRow /\ durable'[s] = NoRow
      BY <2>3, <2>4
    <3>5. \A j \in Ids \ used : j # made => Alike(durable', durable, j)
      BY <2>5
    <3>6. QED
      BY <1>0, <2>1, <2>2, <3>1, <3>2, <3>3, <3>4, <3>5, AbsorbedItem
  <2>8. QED
    BY <1>4, <2>6, <2>7
<1>5. QED
  BY <1>1, <1>2, <1>3, <1>4

\* Every step of a handler, the shop and the players is a step of Inventory or none.
LEMMA ExchangeStepsMap ==
    ASSUME Ledger, Consumed, Novel, [Next]_vars
    PROVE  Promise!Next \/ UNCHANGED Abstract(durable)
<1> DEFINE Goal == Promise!Next \/ UNCHANGED Abstract(durable)
<1>0. /\ Inv /\ TypeOK /\ Control /\ Target /\ Bracketed
      /\ Product /\ Kept /\ Past /\ Idle /\ Single
      /\ table \in Table /\ durable \in Table /\ used \in SUBSET Ids
      /\ ~inTransaction => table = durable
  BY DEF Ledger, Inv, TypeOK, Table, Bracketed
<1>1. ASSUME durable' = durable PROVE Goal
  BY <1>1 DEF Abstract
<1>2. ASSUME pc = "commit", durable' = table PROVE Goal
  <2>1. ~Pending
    BY <1>2 DEF Pending
  <2>2. Clean(table)
    BY <2>1 DEF Consumed, Clean
  <2>3. QED
    BY <1>2, <2>2, CommittedItems
<1> HIDE DEF Goal
<1>3. ASSUME Ending \/ Passing \/ Committing PROVE Goal
  BY <1>1, <1>2, <1>3 DEF Ending, Passing, Committing
<1>4. ASSUME NEW p \in Players, NEW o \in Operations, NEW consumed \in SUBSET Ids,
             NEW target \in 0..MaxItems, NEW step \in Steps,
             <<o, step>> \in First, Begun(p, o, consumed, target, step)
      PROVE  Goal
  BY <1>0, <1>1, <1>4, BegunRows
<1>5. ASSUME DeleteUnnamed PROVE Goal
  BY <1>0, <1>1, <1>5, DeleteUnnamedRows
<1>6. ASSUME SaveNewItemToDatabase PROVE Goal
  <2>1. /\ nextId \in Ids /\ table' \in Table /\ table'[nextId] \in Row
        /\ table'[nextId].from = used
        /\ \A j \in Ids : j # nextId => table'[j] = table[j]
        /\ durable' = IF inTransaction THEN durable ELSE table'
    BY <1>0, <1>6, SavedRows
  <2>2. CASE ~inTransaction
    <3>1. op = "base" /\ used = {}
      BY <1>0, <1>6, <2>2 DEF SaveNewItemToDatabase, Control, Bracketed, Bracket, Idle
    <3>2. Unused(durable, nextId) /\ table'[nextId] # NoRow
      BY <1>0, <2>1, RowFields DEF Past, Ids
    <3>3. \A j \in Ids : j # nextId => Alike(durable', durable, j)
      BY <1>0, <2>1, <2>2 DEF Alike
    <3>4. QED
      BY <1>0, <2>1, <2>2, <3>1, <3>2, <3>3, InsertedItem DEF Goal
  <2>3. QED
    BY <1>1, <2>1, <2>2
<1>7. ASSUME Update PROVE Goal
  <2>1. inTransaction
    BY <1>0, <1>7 DEF Update, Control, Bracketed, Bracket
  <2>2. durable' = IF inTransaction THEN durable ELSE table'
    BY <1>0, <1>7, UpdatedRows
  <2>3. QED
    BY <1>1, <2>1, <2>2
<1>8. ASSUME Delete PROVE Goal
  <2>1. /\ table' \in Table
        /\ \A j \in Ids : table'[j] = IF j \in Deleted THEN NoRow ELSE table[j]
        /\ durable' = IF inTransaction THEN durable ELSE table'
    BY <1>0, <1>8, DeletedRows
  <2>2. CASE ~inTransaction
    <3>1. op \in {"delete", "unname"}
      BY <1>0, <1>8, <2>2 DEF Delete, Control, Bracketed, Bracket
    <3>2. Deleted # {} /\ Deleted = used \cap Holdings(player)
      BY <1>8, <3>1 DEF Delete, Deleted
    <3>3. PICK s \in Ids : used = {s}
      BY <1>0, <3>1, <3>2 DEF Single
    <3>4. Deleted = {s} /\ durable[s] # NoRow
      BY <1>0, <2>2, <3>2, <3>3 DEF Holdings, Owned
    <3>5. durable'[s] = NoRow /\ \A j \in Ids : j # s => Alike(durable', durable, j)
      BY <1>0, <2>1, <2>2, <3>4 DEF Alike
    <3>6. durable' \in Table
      BY <2>1, <2>2
    <3>7. QED
      BY <1>0, <3>4, <3>5, <3>6, DeletedItem DEF Goal
  <2>3. QED
    BY <1>1, <2>1, <2>2
<1>9. ASSUME NEW p \in Players, CheckAndSendNewItemsSince(p) PROVE Goal
  <2>1. op = "none"
    BY <1>9 DEF CheckAndSendNewItemsSince
  <2>2. table = durable
    BY <1>0, <2>1 DEF Bracketed, Bracket
  <2>3. /\ durable' \in Table
        /\ \A i \in Ids : /\ durable'[i] = NoRow <=> table[i] = NoRow
                          /\ table[i] # NoRow => /\ durable'[i].from = table[i].from
                                                 /\ durable'[i].owner = table[i].owner
    BY <1>0, <1>9, <2>1, PolledRows
  <2>4. \A j \in Ids : Alike(durable', durable, j)
    BY <2>2, <2>3 DEF Alike
  <2>5. QED
    BY <1>0, <2>3, <2>4, SameItems DEF Goal
<1>10. ASSUME NEW p \in Players, NEW kind \in Kinds, NEW by \in Sources, ShopInserts(p, kind, by)
       PROVE  Goal
  <2>1. /\ nextId \in Ids /\ durable' \in Table /\ durable'[nextId] \in Row
        /\ durable'[nextId].from = {}
        /\ \A i \in Ids : i # nextId => durable'[i] = durable[i]
    BY <1>0, <1>10, ShopRows
  <2>2. Unused(durable, nextId) /\ durable'[nextId] # NoRow
    BY <1>0, <2>1, RowFields DEF Past, Ids
  <2>3. \A j \in Ids : j # nextId => Alike(durable', durable, j)
    BY <2>1 DEF Alike
  <2>4. QED
    BY <1>0, <2>1, <2>2, <2>3, InsertedItem DEF Goal
<1>11. ASSUME NEW i \in Ids, NEW p \in Players, Trade(i, p) PROVE Goal
  <2>1. /\ durable' \in Table /\ durable[i] \in Row /\ durable'[i] \in Row
        /\ durable'[i].from = durable[i].from
        /\ \A j \in Ids : j # i => durable'[j] = durable[j]
    BY <1>0, <1>11, TradedRows
  <2>2. durable[i] # NoRow /\ durable'[i] # NoRow
    BY <2>1, RowFields
  <2>3. \A j \in Ids : j # i => Alike(durable', durable, j)
    BY <2>1 DEF Alike
  <2>4. QED
    BY <1>0, <2>1, <2>2, <2>3, GivenItem DEF Goal
<1>12. Goal
  BY <1>0, <1>3, <1>4, <1>5, <1>6, <1>7, <1>8, <1>9, <1>10, <1>11, ExchangeCases
<1>13. QED
  BY <1>12 DEF Goal

\* Whatever statements, connections and commits fail, wherever the process dies, and
\* whatever changes hands but crates, the committed rows change as Inventory promises: each
\* request in one step or not at all.
THEOREM ExchangeRefinesInventory == ASSUME Undisturbed PROVE Spec => ExchangesAreAtomic
<1> DEFINE Mapped == Ledger /\ Consumed /\ Clean(durable) /\ Novel
<1>1. Init => Mapped
  <2>1. Init => Novel
    BY DEF Init, Novel
  <2>2. QED
    BY <2>1, LedgerInitially
<1>2. Mapped /\ [Next]_vars => Mapped'
  <2>1. Ledger /\ [Next]_vars => Ledger'
    BY LedgerKept
  <2>2. Mapped /\ [Next]_vars => Consumed' /\ Clean(durable)'
    BY ConsumedInductive DEF Ledger
  <2>3. Mapped /\ [Next]_vars => Novel'
    BY NovelInductive DEF Ledger
  <2>4. QED
    BY <2>1, <2>2, <2>3
<1>3. Init => Promise!Init
  BY DEF Init, Promise!Init, Abstract
<1>4. Mapped /\ [Next]_vars => [Promise!Next]_(Abstract(durable))
  BY ExchangeStepsMap
<1> HIDE DEF Mapped
<1>5. QED
  BY <1>1, <1>2, <1>3, <1>4, PTL DEF Spec, ExchangesAreAtomic, Promise!Spec
-----------------------------------------------------------------------------
(* What the clients are told. *)

\* What a handler is about to tell its client is already so in the database: what a
\* trade-up consumed is deleted before its commit, and what it made is committed.
Settled ==
    /\ op \in {"craft", "delete", "unname"} /\ pc = "forget" => \A i \in used : durable[i] = NoRow
    /\ op = "craft" /\ pc \in {"save", "commit"} => \A i \in used : table[i] = NoRow
    /\ op \in {"craft", "base"} /\ pc \in {"forget", "show"} => durable[made] # NoRow

\* Nobody brings back what is gone, or takes away what was made for the client.
LEMMA SettledInductive ==
    ASSUME Ledger, Settled, [Next]_vars
    PROVE  Settled'
<1>0. /\ Inv /\ TypeOK /\ Control /\ Target /\ Bracketed /\ used \subseteq Ids
      /\ Past /\ Idle /\ Product /\ Kept /\ Yours /\ Single
  BY DEF Ledger, Inv, TypeOK
<1>1. ASSUME pc' \notin {"save", "commit", "forget", "show"} PROVE Settled'
  BY <1>1 DEF Settled
<1>2. ASSUME op' = op, pc' = pc, used' = used, made' = made,
             \A i \in used : durable[i] = NoRow => durable'[i] = NoRow,
             \A i \in used : table[i] = NoRow => table'[i] = NoRow,
             op \in {"craft", "base"} /\ pc \in {"forget", "show"} /\ durable[made] # NoRow
               => durable'[made] # NoRow
      PROVE  Settled'
  BY <1>2 DEF Settled
<1>3. ASSUME Ending PROVE Settled'
  BY <1>1, <1>3 DEF Ending
<1>4. ASSUME Passing PROVE Settled'
  <2>1. /\ table' = table /\ durable' = durable /\ op' = op /\ used' = used /\ made' = made
        /\ \/ pc' = pc \/ op = "unbox"
           \/ op = "craft" /\ pc = "forget" /\ pc' = "show"
           \/ op = "apply" /\ pc = "forget" /\ pc' = "commit"
    BY <1>4 DEF Passing
  <2>2. CASE pc' = pc
    BY <1>2, <2>1, <2>2
  <2>3. CASE op \in {"unbox", "apply"}
    BY <2>1, <2>3 DEF Settled
  <2>4. CASE op = "craft" /\ pc = "forget" /\ pc' = "show"
    BY <2>1, <2>4 DEF Settled
  <2>5. QED
    BY <2>1, <2>2, <2>3, <2>4
<1>5. ASSUME Committing PROVE Settled'
  <2>1. /\ pc = "commit" /\ pc' = AfterCommit /\ durable' = table
        /\ op' = op /\ used' = used /\ made' = made
    BY <1>5 DEF Committing
  <2>2. op # "base" /\ (op # "craft" => pc' = "show") /\ (op = "craft" => pc' = "forget")
    BY <1>0, <2>1 DEF AfterCommit, Control
  <2>3. op = "craft" => table[made] # NoRow /\ \A i \in used : table[i] = NoRow
    BY <1>0, <2>1 DEF Settled, Product, Itself, Produced
  <2>4. QED
    BY <2>1, <2>2, <2>3 DEF Settled
<1>6. ASSUME NEW p \in Players, NEW o \in Operations, NEW consumed \in SUBSET Ids,
             NEW target \in 0..MaxItems, NEW step \in Steps,
             <<o, step>> \in First, Begun(p, o, consumed, target, step)
      PROVE  Settled'
  <2>1. op' = o /\ pc' = step
    BY <1>0, <1>6, BegunStep
  <2>2. ~(o = "craft" /\ step \in {"save", "commit"}) /\ step # "forget"
           /\ ~(o \in {"craft", "base"} /\ step = "show")
    BY <1>6 DEF First
  <2>3. QED
    BY <2>1, <2>2 DEF Settled
<1>7. ASSUME DeleteUnnamed PROVE Settled'
  BY <1>1, <1>7 DEF DeleteUnnamed
<1>8. ASSUME SaveNewItemToDatabase PROVE Settled'
  <2>1. /\ nextId \in Ids /\ made' = nextId /\ table'[nextId] \in Row
        /\ \A i \in Ids : i # nextId => table'[i] = table[i]
        /\ durable' = IF inTransaction THEN durable ELSE table'
    BY <1>0, <1>8, SavedRows
  <2>2. op' = op /\ used' = used /\ pc = "save" /\ pc' = AfterSave
    BY <1>8 DEF SaveNewItemToDatabase
  <2>3. nextId \notin used /\ table'[nextId] # NoRow
    BY <1>0, <2>1, RowFields DEF Past, Ids
  <2>4. CASE op = "unbox"
    BY <2>2, <2>4 DEF Settled
  <2>5. CASE op = "craft"
    <3>1. \A i \in used : table'[i] = NoRow
      BY <1>0, <2>1, <2>2, <2>3, <2>5 DEF Settled
    <3>2. pc' = "commit"
      BY <2>2, <2>5 DEF AfterSave
    <3>3. QED
      BY <2>2, <2>5, <3>1, <3>2 DEF Settled
  <2>6. CASE op = "base"
    <3>1. ~inTransaction
      BY <1>0, <2>6 DEF Bracketed, Bracket
    <3>2. durable'[made'] # NoRow /\ pc' = "show"
      BY <2>1, <2>2, <2>3, <2>6, <3>1 DEF AfterSave
    <3>3. QED
      BY <2>2, <2>6, <3>2 DEF Settled
  <2>7. QED
    BY <1>0, <2>2, <2>4, <2>5, <2>6 DEF Control
<1>9. ASSUME Update PROVE Settled'
  <2>1. pc = "update" /\ op' = op /\ pc' \in {"delete", "commit"}
    BY <1>9 DEF Update, GoTo
  <2>2. op \notin {"craft", "base"}
    BY <1>0, <2>1 DEF Control
  <2>3. QED
    BY <2>1, <2>2 DEF Settled
<1>10. ASSUME Delete PROVE Settled'
  <2>1. /\ \A i \in Ids : table'[i] = IF i \in Deleted THEN NoRow ELSE table[i]
        /\ durable' = IF inTransaction THEN durable ELSE table'
    BY <1>0, <1>10, DeletedRows
  <2>2. /\ pc = "delete" /\ pc' = AfterDelete /\ op' = op /\ used' = used
        /\ op \in {"apply", "delete", "unname"} => Deleted # {}
    BY <1>10 DEF Delete, GoTo
  <2>3. CASE op \in {"unbox", "apply"}
    BY <2>2, <2>3 DEF Settled
  <2>4. CASE op = "craft"
    <3>1. pc' = "save" /\ \A i \in used : table'[i] = NoRow
      BY <1>0, <2>1, <2>2, <2>4 DEF AfterDelete, Deleted
    <3>2. QED
      BY <2>2, <2>4, <3>1 DEF Settled
  <2>5. CASE op \in {"delete", "unname"}
    <3>1. pc' = "forget" /\ Deleted # {} /\ Deleted \subseteq used
      BY <2>2, <2>5 DEF AfterDelete, Deleted
    <3>2. used \subseteq Deleted
      BY <1>0, <2>5, <3>1 DEF Single
    <3>3. ~inTransaction
      BY <1>0, <2>2, <2>5 DEF Bracketed, Bracket
    <3>4. \A i \in used : durable'[i] = NoRow
      BY <1>0, <2>1, <3>2, <3>3
    <3>5. QED
      BY <2>2, <2>5, <3>1, <3>4 DEF Settled
  <2>6. QED
    BY <1>0, <2>2, <2>3, <2>4, <2>5 DEF Control
<1>11. ASSUME NEW p \in Players, CheckAndSendNewItemsSince(p) PROVE Settled'
  BY <1>11, QuietSteps DEF CheckAndSendNewItemsSince, Settled
<1>12. ASSUME NEW p \in Players, NEW kind \in Kinds, NEW by \in Sources, ShopInserts(p, kind, by)
       PROVE  Settled'
  <2>1. /\ nextId \in Ids /\ durable'[nextId] = table'[nextId] /\ table'[nextId] \in Row
        /\ \A i \in Ids : i # nextId => table'[i] = table[i] /\ durable'[i] = durable[i]
    BY <1>0, <1>12, ShopRows
  <2>2. op' = op /\ pc' = pc /\ used' = used /\ made' = made
    BY <1>12 DEF ShopInserts, handler
  <2>3. nextId \notin used /\ durable'[nextId] # NoRow
    BY <1>0, <2>1, RowFields DEF Past, Ids
  <2>4. \A i \in used : durable'[i] = durable[i] /\ table'[i] = table[i]
    BY <1>0, <2>1, <2>3
  <2>5. op \in {"craft", "base"} /\ pc \in {"forget", "show"} => made \in Ids
    BY <1>0 DEF Target, HasTarget
  <2>6. op \in {"craft", "base"} /\ pc \in {"forget", "show"} /\ durable[made] # NoRow
          => durable'[made] # NoRow
    BY <2>1, <2>3, <2>5
  <2>7. QED
    BY <1>2, <2>2, <2>4, <2>6
<1>13. ASSUME NEW j \in Ids, NEW p \in Players, Trade(j, p) PROVE Settled'
  <2>1. /\ table[j] = durable[j] /\ table[j] \in Row /\ table'[j] = durable'[j] /\ table'[j] \in Row
        /\ \A i \in Ids : i # j => table'[i] = table[i] /\ durable'[i] = durable[i]
    BY <1>0, <1>13, TradedRows
  <2>2. op' = op /\ pc' = pc /\ used' = used /\ made' = made
    BY <1>13, QuietSteps
  <2>3. \A i \in Ids : durable[i] = NoRow => durable'[i] = NoRow
    BY <2>1, RowFields
  <2>4. \A i \in Ids : table[i] = NoRow => table'[i] = NoRow
    BY <2>1, RowFields
  <2>5. \A i \in Ids : durable[i] # NoRow => durable'[i] # NoRow
    BY <2>1, RowFields
  <2>6. op \in {"craft", "base"} /\ pc \in {"forget", "show"} => made \in Ids
    BY <1>0 DEF Target, HasTarget
  <2>7. QED
    BY <1>0, <1>2, <2>2, <2>3, <2>4, <2>5, <2>6
<1>14. QED
  BY <1>0, <1>3, <1>4, <1>5, <1>6, <1>7, <1>8, <1>9, <1>10, <1>11, <1>12, <1>13, ExchangeCases

\* The steps that change what a client has, while a request is handled.
LEMMA MessagesFollow ==
    ASSUME Ledger, Settled, [Next]_vars, op \notin {"none", "unbox", "apply"}, NEW p \in Players
    PROVE  /\ \A i \in shown'[p] \ shown[p] : durable[i] # NoRow
           /\ \A i \in shown[p] \ shown'[p] : durable[i] = NoRow
<1> DEFINE Goal == /\ \A i \in shown'[p] \ shown[p] : durable[i] # NoRow
                   /\ \A i \in shown[p] \ shown'[p] : durable[i] = NoRow
<1>0. Inv /\ TypeOK /\ Control /\ Target /\ Bracketed
  BY DEF Ledger, Inv
<1>1. ASSUME shown' = shown PROVE Goal
  BY <1>1
<1>2. ASSUME SendDelete PROVE Goal
  <2>1. /\ pc = "forget"
        /\ shown' = IF link[player] = "up" THEN [shown EXCEPT ![player] = @ \ used] ELSE shown
    BY <1>2 DEF SendDelete, Forget
  <2>2. op \in {"craft", "delete", "unname"}
    BY <1>0, <2>1 DEF Control
  <2>3. \A i \in used : durable[i] = NoRow
    BY <2>1, <2>2 DEF Settled
  <2>4. shown'[p] \subseteq shown[p] /\ shown[p] \ shown'[p] \subseteq used
    BY <1>0, <2>1 DEF TypeOK
  <2>5. QED
    BY <2>3, <2>4
<1>3. ASSUME SendItem PROVE Goal
  <2>1. /\ pc = "show" /\ (op \in {"craft", "base"} \/ Owned(player, made))
        /\ shown' = IF link[player] = "up" THEN [shown EXCEPT ![player] = @ \cup {made}] ELSE shown
    BY <1>3 DEF SendItem, Show
  <2>2. table = durable
    BY <1>0, <2>1 DEF Bracketed, Bracket, Control
  <2>3. durable[made] # NoRow
    BY <2>1, <2>2 DEF Settled, Owned
  <2>4. shown[p] \subseteq shown'[p] /\ shown'[p] \ shown[p] \subseteq {made}
    BY <1>0, <2>1 DEF TypeOK
  <2>5. QED
    BY <2>3, <2>4
<1>4. ASSUME SendCreate \/ SendUnlockCrateResponse PROVE FALSE
  BY <1>0, <1>4 DEF SendCreate, SendUnlockCrateResponse, Control
<1>5. ASSUME NEW q \in Players,
             Login(q) \/ SendSOCache(q) \/ DropSession(q) \/ CheckAndSendNewItemsSince(q)
      PROVE  FALSE
  BY <1>5 DEF Login, SendSOCache, DropSession, CheckAndSendNewItemsSince
<1>6. ASSUME NEW q \in Players, NEW o \in Operations, NEW consumed \in SUBSET Ids,
             NEW target \in 0..MaxItems, NEW step \in Steps,
             <<o, step>> \in First, Begun(q, o, consumed, target, step)
      PROVE  Goal
  BY <1>1, <1>6 DEF Begun, Begin, clients
<1>7. ASSUME \/ SaveNewItemToDatabase \/ Update \/ Delete \/ Commit \/ Abandon
             \/ SendNothing \/ DeleteUnnamed \/ Restart \/ UNCHANGED vars
             \/ \E q \in Players : Vanish(q)
      PROVE  Goal
  BY <1>1, <1>7 DEF SaveNewItemToDatabase, Update, Delete, Commit, Abandon, SendNothing,
     DeleteUnnamed, Restart, Vanish, vars, clients
<1>8. ASSUME NEW q \in Players, NEW kind \in Kinds, NEW by \in Sources, ShopInserts(q, kind, by)
      PROVE  Goal
  BY <1>1, <1>8 DEF ShopInserts, clients
<1>9. ASSUME NEW i \in Ids, NEW q \in Players, Trade(i, q) PROVE Goal
  BY <1>1, <1>9 DEF Trade, clients
<1> HIDE DEF Goal
<1>10. Goal
  BY <1>0, <1>2, <1>3, <1>4, <1>5, <1>6, <1>7, <1>8, <1>9, NextCases
<1>11. QED
  BY <1>10 DEF Goal

LEMMA SettledInvariance == Spec => []Settled
<1>1. Init => Settled
  BY DEF Init, Settled
<1>2. Ledger /\ Settled /\ [Next]_vars => Settled'
  BY SettledInductive
<1>3. QED
  BY <1>1, <1>2, LedgerInvariance, PTL DEF Spec

\* "We must commit before sending ANY messages to the client": except while a crate
\* is opened or a sticker applied, a message shows the client only what is committed
\* and takes only what is gone, with any failures and any trades meanwhile.
THEOREM MessagesFollowCommitAlways == Spec => MessagesFollowCommit
<1>1. Ledger /\ Settled /\ [Next]_vars =>
        (op \notin {"none", "unbox", "apply"} => \A p \in Players :
            /\ \A i \in shown'[p] \ shown[p] : durable[i] # NoRow
            /\ \A i \in shown[p] \ shown'[p] : durable[i] = NoRow)
  BY MessagesFollow
<1>2. QED
  BY <1>1, LedgerInvariance, SettledInvariance, PTL DEF Spec, MessagesFollowCommit
-----------------------------------------------------------------------------
(* What the clients have. *)

\* Crates are not opened, which a client is told of too early, and rows do not change
\* hands, which a client is not told of.
Quiet == Tradable = {} /\ "unbox" \notin Operations

\* What a trade-up or a name makes is made for the player.
ForPlayer ==
    /\ op = "craft" /\ pc = "commit" => table[made].owner = player
    /\ op \in {"craft", "base"} /\ pc \in {"forget", "show"} => durable[made].owner = player

Has(p, i) == durable[i] # NoRow /\ durable[i].owner = p

\* The client is about to be told that item i is gone.
Leaving(p, i) == pc = "forget" /\ op # "apply" /\ p = player /\ i \in used

\* A client that is there has nothing but its player's items, and what is leaving.
Real ==
    connected =>
        \A p \in Players : link[p] = "up" => \A i \in shown[p] : Has(p, i) \/ Leaving(p, i)

\* The sticker is taken from the client before its deletion is committed.
Taken == op = "apply" /\ pc = "commit" /\ link[player] = "up" => used \cap shown[player] = {}

\* Without trades the shop is the only one to disturb a handler.
LEMMA ForPlayerInductive ==
    ASSUME Quiet, Ledger, Settled, ForPlayer, [Next]_vars
    PROVE  ForPlayer'
<1>0. /\ Inv /\ TypeOK /\ Control /\ Target /\ Bracketed /\ used \subseteq Ids
      /\ Past /\ Idle /\ Product /\ Kept /\ Yours
  BY DEF Ledger, Inv, TypeOK
<1>1. ASSUME \/ pc' \notin {"commit", "forget", "show"}
             \/ op' \notin {"craft", "base"}
      PROVE  ForPlayer'
  BY <1>1 DEF ForPlayer
<1>2. ASSUME Ending PROVE ForPlayer'
  BY <1>1, <1>2 DEF Ending
<1>3. ASSUME Passing PROVE ForPlayer'
  <2>1. /\ table' = table /\ durable' = durable /\ op' = op /\ player' = player /\ made' = made
        /\ \/ pc' = pc \/ op = "unbox"
           \/ op = "craft" /\ pc = "forget" /\ pc' = "show"
           \/ op = "apply" /\ pc = "forget" /\ pc' = "commit"
    BY <1>3 DEF Passing
  <2>2. CASE pc' = pc
    BY <2>1, <2>2 DEF ForPlayer
  <2>3. CASE op \in {"unbox", "apply"}
    BY <1>1, <2>1, <2>3
  <2>4. CASE op = "craft" /\ pc = "forget" /\ pc' = "show"
    BY <2>1, <2>4 DEF ForPlayer
  <2>5. QED
    BY <2>1, <2>2, <2>3, <2>4
<1>4. ASSUME Committing PROVE ForPlayer'
  <2>1. /\ pc = "commit" /\ pc' = AfterCommit /\ durable' = table
        /\ op' = op /\ player' = player /\ made' = made
    BY <1>4 DEF Committing
  <2>2. op # "base" /\ pc' # "commit"
    BY <1>0, <2>1 DEF AfterCommit, Control
  <2>3. QED
    BY <2>1, <2>2 DEF ForPlayer
<1>5. ASSUME NEW p \in Players, NEW o \in Operations, NEW consumed \in SUBSET Ids,
             NEW target \in 0..MaxItems, NEW step \in Steps,
             <<o, step>> \in First, Begun(p, o, consumed, target, step)
      PROVE  ForPlayer'
  <2>1. op' = o /\ pc' = step
    BY <1>0, <1>5, BegunStep
  <2>2. step \notin {"commit", "forget"} /\ ~(o \in {"craft", "base"} /\ step = "show")
    BY <1>5 DEF First
  <2>3. QED
    BY <2>1, <2>2 DEF ForPlayer
<1>6. ASSUME DeleteUnnamed PROVE ForPlayer'
  BY <1>1, <1>6 DEF DeleteUnnamed
<1>7. ASSUME SaveNewItemToDatabase PROVE ForPlayer'
  <2>1. /\ made' = nextId /\ table'[nextId].owner = player
        /\ durable' = IF inTransaction THEN durable ELSE table'
    BY <1>0, <1>7, SavedRows
  <2>2. op' = op /\ player' = player /\ pc = "save" /\ pc' = AfterSave
    BY <1>7 DEF SaveNewItemToDatabase
  <2>3. CASE op = "unbox"
    BY <1>1, <2>2, <2>3
  <2>4. CASE op = "craft"
    BY <2>1, <2>2, <2>4 DEF AfterSave, ForPlayer
  <2>5. CASE op = "base"
    <3>1. ~inTransaction
      BY <1>0, <2>5 DEF Bracketed, Bracket
    <3>2. QED
      BY <2>1, <2>2, <2>5, <3>1 DEF AfterSave, ForPlayer
  <2>6. QED
    BY <1>0, <2>2, <2>3, <2>4, <2>5 DEF Control
<1>8. ASSUME Update PROVE ForPlayer'
  <2>1. pc = "update" /\ op' = op
    BY <1>8 DEF Update, GoTo
  <2>2. QED
    BY <1>0, <1>1, <2>1 DEF Control
<1>9. ASSUME Delete PROVE ForPlayer'
  <2>1. pc = "delete" /\ op' = op /\ pc' = AfterDelete
    BY <1>9 DEF Delete, GoTo
  <2>2. op = "craft" => pc' = "save"
    BY <2>1 DEF AfterDelete
  <2>3. QED
    BY <1>0, <1>1, <2>1, <2>2 DEF Control
<1>10. ASSUME NEW p \in Players, CheckAndSendNewItemsSince(p) PROVE ForPlayer'
  BY <1>1, <1>10, QuietSteps DEF CheckAndSendNewItemsSince
<1>11. ASSUME NEW p \in Players, NEW kind \in Kinds, NEW by \in Sources, ShopInserts(p, kind, by)
       PROVE  ForPlayer'
  <2>1. /\ nextId \in Ids
        /\ \A i \in Ids : i # nextId => table'[i] = table[i] /\ durable'[i] = durable[i]
    BY <1>0, <1>11, ShopRows
  <2>2. op' = op /\ pc' = pc /\ player' = player /\ made' = made
    BY <1>11 DEF ShopInserts, handler
  <2>3. table[nextId] = NoRow /\ durable[nextId] = NoRow
    BY <1>0, <2>1 DEF Past, Unused, Ids
  <2>4. CASE op = "craft" /\ pc = "commit"
    <3>1. made \in Ids /\ made # nextId
      BY <1>0, <2>3, <2>4 DEF Target, HasTarget, Product, Itself, Produced
    <3>2. QED
      BY <2>1, <2>2, <2>4, <3>1 DEF ForPlayer
  <2>5. CASE op \in {"craft", "base"} /\ pc \in {"forget", "show"}
    <3>1. made \in Ids /\ made # nextId
      BY <1>0, <2>3, <2>5 DEF Target, HasTarget, Settled
    <3>2. QED
      BY <2>1, <2>2, <2>5, <3>1 DEF ForPlayer
  <2>6. CASE ~(op = "craft" /\ pc = "commit") /\ ~(op \in {"craft", "base"} /\ pc \in {"forget", "show"})
    BY <2>2, <2>6 DEF ForPlayer
  <2>7. QED
    BY <2>4, <2>5, <2>6
<1>12. ASSUME NEW j \in Ids, NEW p \in Players, Trade(j, p) PROVE ForPlayer'
  BY <1>12 DEF Trade, Quiet
<1>13. QED
  BY <1>0, <1>2, <1>3, <1>4, <1>5, <1>6, <1>7, <1>8, <1>9, <1>10, <1>11, <1>12, ExchangeCases

\* What a step has to do for the clients to have only what is real.
LEMMA RealStep ==
    ASSUME Real, connected' => connected,
           \A p \in Players : link'[p] = "up" =>
              /\ link[p] = "up"
              /\ \A i \in shown'[p] :
                    \/ Has(p, i)'
                    \/ i \in shown[p] /\ (Has(p, i) \/ Leaving(p, i) => Has(p, i)' \/ Leaving(p, i)')
    PROVE  Real'
BY DEF Real

\* The rows that are there stay, and stay whose they are.
Stays == \A p \in Players, i \in Ids : Has(p, i) => Has(p, i)'

\* A step that only adds rows, while nothing is leaving.
LEMMA RealStays ==
    ASSUME TypeOK, Real, Stays, connected' => connected, UNCHANGED <<shown, link>>,
           pc # "forget" \/ op = "apply" \/ UNCHANGED <<op, pc, player, used>>
    PROVE  Real'
<1>1. \A p \in Players, i \in Ids : Leaving(p, i) => Leaving(p, i)'
  BY DEF Leaving
<1>2. \A p \in Players : shown[p] \subseteq Ids
  BY DEF TypeOK
<1>3. QED
  BY <1>1, <1>2, RealStep DEF Stays

\* At the commit of what a handler wrote, only what it consumed goes.
LEMMA CommittedStays ==
    ASSUME Quiet, Ledger, Real, Taken, Commit, connected'
    PROVE  Real'
<1>0. /\ Inv /\ TypeOK /\ Control /\ Target /\ Bracketed /\ used \subseteq Ids
      /\ Past /\ Idle /\ Product /\ Kept /\ Yours
  BY DEF Ledger, Inv, TypeOK
<1>1. /\ pc = "commit" /\ Committed /\ UNCHANGED <<shown, link>>
      /\ IF op = "unbox" THEN Done ELSE GoTo(AfterCommit)
  BY DEF Commit, CommitFailed, ConnectionLost, clients
<1>2. connected /\ durable' = table /\ op # "unbox"
  BY <1>0, <1>1 DEF Committed, Quiet, Idle, Control
<1>3. /\ op' = op /\ player' = player /\ used' = used
      /\ op = "craft" => pc' = "forget"
  BY <1>1, <1>2 DEF GoTo, AfterCommit
<1>4. ASSUME NEW p \in Players, link[p] = "up", NEW i \in shown[p], Has(p, i)
      PROVE  Has(p, i)' \/ Leaving(p, i)'
  <2>1. i \in Ids
    BY <1>0 DEF TypeOK
  <2>2. CASE table[i] # NoRow
    <3>1. table[i].owner = durable[i].owner
      BY <1>0, <1>4, <2>1, <2>2 DEF Kept, Same, Has
    <3>2. QED
      BY <1>2, <1>4, <2>2, <3>1 DEF Has
  <2>3. CASE table[i] = NoRow
    <3>1. i \in used /\ op \in {"unbox", "craft", "apply"}
      BY <1>0, <1>4, <2>1, <2>3 DEF Kept, Gone, Has
    <3>2. p = player
      BY <1>0, <1>4, <3>1 DEF Yours, StillYours, Has, Quiet
    <3>3. op # "apply"
      BY <1>1, <1>4, <3>1, <3>2 DEF Taken
    <3>4. QED
      BY <1>2, <1>3, <3>1, <3>2, <3>3 DEF Leaving
  <2>4. QED
    BY <2>2, <2>3
<1>5. \A p \in Players, i \in Ids : ~Leaving(p, i)
  BY <1>1 DEF Leaving
<1>6. \A p \in Players : shown[p] \subseteq Ids
  BY <1>0 DEF TypeOK
<1>7. QED
  BY <1>1, <1>2, <1>4, <1>5, <1>6, RealStep

\* What is taken from the client is not given back before the commit.
LEMMA TakenInductive ==
    ASSUME Quiet, Ledger, Taken, [Next]_vars
    PROVE  Taken'
<1>0. Inv /\ TypeOK /\ Control
  BY DEF Ledger, Inv
<1>1. ASSUME pc' # "commit" \/ op' # "apply" PROVE Taken'
  BY <1>1 DEF Taken
<1>2. ASSUME op' = op, pc' = pc, player' = player, used' = used, shown' = shown,
             link'[player] = "up" => link[player] = "up"
      PROVE  Taken'
  BY <1>2 DEF Taken
<1>3. ASSUME SendDelete PROVE Taken'
  <2>1. /\ UNCHANGED link
        /\ shown' = IF link[player] = "up" THEN [shown EXCEPT ![player] = @ \ used] ELSE shown
        /\ IF op \in {"delete", "unname"} THEN Done ELSE GoTo(AfterForget)
    BY <1>3 DEF SendDelete, Forget
  <2>2. CASE op = "apply"
    <3>1. player' = player /\ used' = used
      BY <2>1, <2>2 DEF GoTo
    <3>2. link[player] = "up" => used \cap shown'[player] = {}
      BY <1>0, <2>1 DEF TypeOK
    <3>3. QED
      BY <2>1, <3>1, <3>2 DEF Taken
  <2>3. CASE op # "apply"
    BY <1>1, <2>1, <2>3 DEF Done, GoTo
  <2>4. QED
    BY <2>2, <2>3
<1>4. ASSUME NEW p \in Players, NEW o \in Operations, NEW consumed \in SUBSET Ids,
             NEW target \in 0..MaxItems, NEW step \in Steps,
             <<o, step>> \in First, Begun(p, o, consumed, target, step)
      PROVE  Taken'
  <2>1. pc' = step
    BY <1>0, <1>4, BegunStep
  <2>2. step # "commit"
    BY <1>4 DEF First
  <2>3. QED
    BY <1>1, <2>1, <2>2
<1>5. ASSUME SaveNewItemToDatabase PROVE Taken'
  <2>1. op' = op /\ pc = "save"
    BY <1>5 DEF SaveNewItemToDatabase
  <2>2. QED
    BY <1>0, <1>1, <2>1 DEF Control
<1>6. ASSUME Update PROVE Taken'
  BY <1>1, <1>6 DEF Update, GoTo
<1>7. ASSUME Delete PROVE Taken'
  BY <1>1, <1>7 DEF Delete, GoTo, AfterDelete
<1>8. ASSUME Commit PROVE Taken'
  BY <1>1, <1>8 DEF Commit, Done, GoTo, AfterCommit
<1>9. ASSUME Abandon \/ SendItem \/ SendNothing \/ DeleteUnnamed \/ Restart PROVE Taken'
  BY <1>1, <1>9 DEF Abandon, SendItem, SendNothing, DeleteUnnamed, Restart, Done
<1>10. ASSUME SendCreate \/ SendUnlockCrateResponse PROVE Taken'
  BY <1>1, <1>10 DEF SendCreate, SendUnlockCrateResponse, GoTo
<1>11. ASSUME NEW p \in Players,
              Login(p) \/ DropSession(p) \/ SendSOCache(p) \/ CheckAndSendNewItemsSince(p)
       PROVE  Taken'
  BY <1>1, <1>11 DEF Login, DropSession, SendSOCache, CheckAndSendNewItemsSince, handler
<1>12. ASSUME NEW p \in Players, Vanish(p) PROVE Taken'
  <2>1. link'[player] = "up" => link[player] = "up"
    BY <1>0, <1>12 DEF Vanish, TypeOK
  <2>2. QED
    BY <1>2, <1>12, <2>1 DEF Vanish, handler
<1>13. ASSUME NEW p \in Players, NEW kind \in Kinds, NEW by \in Sources, ShopInserts(p, kind, by)
       PROVE  Taken'
  BY <1>2, <1>13 DEF ShopInserts, handler, clients
<1>14. ASSUME NEW i \in Ids, NEW p \in Players, Trade(i, p) PROVE Taken'
  BY <1>14 DEF Trade, Quiet
<1>15. ASSUME UNCHANGED vars PROVE Taken'
  BY <1>2, <1>15 DEF vars, handler, clients
<1>16. QED
  BY <1>0, <1>3, <1>4, <1>5, <1>6, <1>7, <1>8, <1>9, <1>10, <1>11, <1>12, <1>13, <1>14, <1>15, NextCases

\* The statements of a handler.
LEMMA StatementsReal ==
    ASSUME Quiet, Ledger, Settled, Real, Taken,
           SaveNewItemToDatabase \/ Update \/ Delete \/ Commit \/ Abandon \/ SendNothing
    PROVE  Real'
<1>0. /\ Inv /\ TypeOK /\ Control /\ Target /\ Bracketed /\ used \subseteq Ids
      /\ Past /\ Idle /\ Product /\ Kept /\ Yours
  BY DEF Ledger, Inv, TypeOK
<1>1. ASSUME SaveNewItemToDatabase PROVE Real'
  <2>1. /\ nextId \in Ids /\ durable[nextId] = NoRow
        /\ \A i \in Ids : i # nextId => table'[i] = table[i]
        /\ durable' = IF inTransaction THEN durable ELSE table'
        /\ connected' = connected
    BY <1>0, <1>1, SavedRows DEF Past, Unused, Ids
  <2>2. ~inTransaction => durable = table
    BY <1>0 DEF Bracketed
  <2>3. Stays
    BY <2>1, <2>2 DEF Stays, Has
  <2>4. UNCHANGED <<shown, link>> /\ pc # "forget"
    BY <1>1 DEF SaveNewItemToDatabase, clients
  <2>5. QED
    BY <1>0, <2>1, <2>3, <2>4, RealStays
<1>2. ASSUME Update PROVE Real'
  <2>1. UNCHANGED <<shown, link>> /\ pc = "update"
    BY <1>2 DEF Update, clients
  <2>2. inTransaction
    BY <1>0, <2>1 DEF Control, Bracketed, Bracket
  <2>3. durable' = durable /\ connected' = connected
    BY <1>0, <1>2, <2>2, UpdatedRows
  <2>4. Stays
    BY <2>3 DEF Stays, Has
  <2>5. QED
    BY <1>0, <2>1, <2>3, <2>4, RealStays
<1>3. ASSUME Delete PROVE Real'
  <2>1. /\ \A i \in Ids : table'[i] = IF i \in Deleted THEN NoRow ELSE table[i]
        /\ durable' = IF inTransaction THEN durable ELSE table'
        /\ connected' = connected
    BY <1>0, <1>3, DeletedRows
  <2>2. /\ pc = "delete" /\ pc' = AfterDelete
        /\ op' = op /\ used' = used /\ player' = player /\ UNCHANGED <<shown, link>>
    BY <1>3 DEF Delete, GoTo, clients
  <2>3. CASE inTransaction
    <3>1. Stays
      BY <2>1, <2>3 DEF Stays, Has
    <3>2. QED
      BY <1>0, <2>1, <2>2, <3>1, RealStays
  <2>4. CASE ~inTransaction
    <3>1. op \in {"delete", "unname"} /\ table = durable
      BY <1>0, <2>2, <2>4 DEF Control, Bracketed, Bracket
    <3>2. pc' = "forget" /\ Deleted \subseteq used /\ \A i \in Deleted : durable[i].owner = player
      BY <2>2, <3>1 DEF AfterDelete, Deleted, Holdings, Owned
    <3>3. ASSUME NEW p \in Players, NEW i \in Ids, Has(p, i) PROVE Has(p, i)' \/ Leaving(p, i)'
      <4>1. CASE i \in Deleted
        BY <2>2, <3>1, <3>2, <3>3, <4>1 DEF Leaving, Has
      <4>2. CASE i \notin Deleted
        BY <2>1, <2>4, <3>1, <3>3, <4>2 DEF Has
      <4>3. QED
        BY <4>1, <4>2
    <3>4. \A p \in Players, i \in Ids : ~Leaving(p, i)
      BY <2>2 DEF Leaving
    <3>5. \A p \in Players : shown[p] \subseteq Ids
      BY <1>0 DEF TypeOK
    <3>6. QED
      BY <2>1, <2>2, <3>3, <3>4, <3>5, RealStep
  <2>5. QED
    BY <2>3, <2>4
<1>4. ASSUME Commit PROVE Real'
  <2>1. ~connected' => Real'
    BY DEF Real
  <2>2. QED
    BY <1>4, <2>1, CommittedStays
<1>5. ASSUME Abandon \/ SendNothing PROVE Real'
  <2>1. Ending
    BY <1>0, <1>5, EndingSteps
  <2>2. pc # "commit" /\ (pc # "forget" \/ op = "apply") /\ UNCHANGED <<shown, link>>
    BY <1>5 DEF Abandon, SendNothing, clients
  <2>3. Stays
    BY <2>1, <2>2 DEF Ending, Stays, Has
  <2>4. connected' => connected
    BY <1>0, <1>5 DEF Abandon, SendNothing, RolledBack, StatementFailed, ConnectionLost, db, TypeOK
  <2>5. QED
    BY <1>0, <2>2, <2>3, <2>4, RealStays
<1>6. QED
  BY <1>1, <1>2, <1>3, <1>4, <1>5

\* The messages of a handler.
LEMMA MessagesReal ==
    ASSUME Quiet, Ledger, Settled, ForPlayer, Real,
           SendCreate \/ SendDelete \/ SendUnlockCrateResponse \/ SendItem \/ DeleteUnnamed
    PROVE  Real'
<1>0. /\ Inv /\ TypeOK /\ Control /\ Target /\ Bracketed /\ used \subseteq Ids /\ Idle
      /\ \A p \in Players : shown[p] \subseteq Ids
  BY DEF Ledger, Inv, TypeOK
<1>1. /\ UNCHANGED db /\ UNCHANGED link
      /\ \A p \in Players, i \in Ids : Has(p, i) <=> Has(p, i)'
  BY DEF SendCreate, SendDelete, SendUnlockCrateResponse, SendItem, DeleteUnnamed, clients, Has, db
<1>2. connected' = connected
  BY <1>1 DEF db
<1>3. ASSUME SendCreate \/ SendUnlockCrateResponse PROVE FALSE
  BY <1>0, <1>3 DEF SendCreate, SendUnlockCrateResponse, Control, Idle, Quiet
<1>4. ASSUME SendDelete PROVE Real'
  <2>1. /\ op = "apply" => link[player] = "up"
        /\ shown' = IF link[player] = "up" THEN [shown EXCEPT ![player] = @ \ used] ELSE shown
    BY <1>4 DEF SendDelete, Forget
  <2>2. ASSUME NEW p \in Players, link[p] = "up", NEW i \in shown'[p]
        PROVE  i \in shown[p] /\ ~Leaving(p, i)
    BY <1>0, <2>1, <2>2 DEF Leaving, TypeOK
  <2>3. QED
    BY <1>0, <1>1, <1>2, <2>2, RealStep
<1>5. ASSUME SendItem PROVE Real'
  <2>1. /\ pc = "show" /\ (op \in {"craft", "base"} \/ Owned(player, made))
        /\ shown' = IF link[player] = "up" THEN [shown EXCEPT ![player] = @ \cup {made}] ELSE shown
    BY <1>5 DEF SendItem, Show
  <2>2. table = durable
    BY <1>0, <2>1 DEF Bracketed, Bracket, Control
  <2>3. Has(player, made) /\ made \in Ids
    BY <1>0, <2>1, <2>2 DEF Settled, ForPlayer, Owned, Has, Target, HasTarget, Control
  <2>4. ASSUME NEW p \in Players, NEW i \in shown'[p]
        PROVE  i \in shown[p] \/ (p = player /\ i = made)
    BY <1>0, <2>1, <2>4 DEF TypeOK
  <2>5. \A p \in Players, i \in Ids : ~Leaving(p, i)
    BY <2>1 DEF Leaving
  <2>6. QED
    BY <1>0, <1>1, <1>2, <2>3, <2>4, <2>5, RealStep
<1>6. ASSUME DeleteUnnamed PROVE Real'
  <2>1. pc = "show" /\ UNCHANGED shown
    BY <1>6 DEF DeleteUnnamed, clients
  <2>2. \A p \in Players, i \in Ids : ~Leaving(p, i)
    BY <2>1 DEF Leaving
  <2>3. QED
    BY <1>0, <1>1, <1>2, <2>1, <2>2, RealStep
<1>7. QED
  BY <1>3, <1>4, <1>5, <1>6

\* The clients that come, go and ask, and the poll.
LEMMA ClientsReal ==
    ASSUME Ledger, Real, NEW p \in Players,
           Login(p) \/ Vanish(p) \/ DropSession(p) \/ SendSOCache(p) \/ CheckAndSendNewItemsSince(p)
    PROVE  Real'
<1>0. /\ Inv /\ TypeOK /\ Control /\ Bracketed
      /\ \A q \in Players : shown[q] \subseteq Ids
  BY DEF Ledger, Inv, TypeOK
<1>1. ASSUME Vanish(p) PROVE Real'
  <2>1. UNCHANGED <<table, durable, connected, op, pc, player, used, shown>>
    BY <1>1 DEF Vanish, db, handler
  <2>2. \A q \in Players : link'[q] = "up" => link[q] = "up"
    BY <1>0, <1>1 DEF Vanish, TypeOK
  <2>3. \A q \in Players, i \in Ids : Has(q, i) \/ Leaving(q, i) => Has(q, i)' \/ Leaving(q, i)'
    BY <2>1 DEF Has, Leaving
  <2>4. QED
    BY <1>0, <2>1, <2>2, <2>3, RealStep
<1>2. ASSUME op = "none" PROVE /\ table = durable
                              /\ \A q \in Players, i \in Ids : ~Leaving(q, i)
  BY <1>0, <1>2 DEF Bracketed, Bracket, Control, Leaving
<1>3. ASSUME Login(p) PROVE Real'
  <2>1. /\ op = "none" /\ UNCHANGED <<durable, connected>>
        /\ link' = [link EXCEPT ![p] = "up"] /\ shown' = [shown EXCEPT ![p] = {}]
    BY <1>3 DEF Login, db
  <2>2. ASSUME NEW q \in Players, link'[q] = "up", NEW i \in shown'[q], connected
        PROVE  Has(q, i)'
    <3>1. q # p /\ link[q] = "up" /\ i \in shown[q] /\ i \in Ids
      BY <1>0, <2>1, <2>2 DEF TypeOK
    <3>2. Has(q, i)
      BY <1>2, <2>1, <2>2, <3>1 DEF Real
    <3>3. QED
      BY <2>1, <3>2 DEF Has
  <2>3. QED
    BY <2>1, <2>2 DEF Real
<1>4. ASSUME DropSession(p) PROVE Real'
  <2>1. /\ op = "none" /\ UNCHANGED <<durable, connected, shown>>
        /\ link' = [link EXCEPT ![p] = "none"]
    BY <1>4 DEF DropSession, db
  <2>2. \A q \in Players : link'[q] = "up" => link[q] = "up"
    BY <1>0, <2>1 DEF TypeOK
  <2>3. \A q \in Players, i \in Ids : Has(q, i) => Has(q, i)'
    BY <2>1 DEF Has
  <2>4. QED
    BY <1>0, <1>2, <2>1, <2>2, <2>3, RealStep
<1>5. ASSUME SendSOCache(p) PROVE Real'
  <2>1. /\ op = "none" /\ UNCHANGED <<durable, connected, link>>
        /\ shown' = [shown EXCEPT ![p] = Holdings(p)]
    BY <1>5 DEF SendSOCache, db
  <2>2. \A i \in Holdings(p) : Has(p, i)'
    BY <1>2, <2>1 DEF Holdings, Owned, Has
  <2>3. \A q \in Players : shown'[q] = IF q = p THEN Holdings(p) ELSE shown[q]
    BY <1>0, <2>1 DEF TypeOK
  <2>4. \A q \in Players, i \in Ids : Has(q, i) => Has(q, i)'
    BY <2>1 DEF Has
  <2>5. QED
    BY <1>0, <1>2, <2>1, <2>2, <2>3, <2>4, RealStep
<1>6. ASSUME CheckAndSendNewItemsSince(p) PROVE Real'
  <2>1. op = "none" /\ UNCHANGED link
    BY <1>6 DEF CheckAndSendNewItemsSince
  <2>2. PICK first \in NewItems(p) : shown' = shown \/ Show(p, first)
    BY <1>6 DEF CheckAndSendNewItemsSince
  <2>3. first \in Ids /\ Has(p, first)
    BY <1>2, <2>1 DEF NewItems, Holdings, Owned, Has
  <2>4. /\ durable' = table'
        /\ \A i \in Ids : /\ table[i] = NoRow <=> table'[i] = NoRow
                          /\ table[i] # NoRow => table'[i].owner = table[i].owner
    BY <1>0, <1>6, <2>1, PolledRows
  <2>5. \A q \in Players, i \in Ids : Has(q, i) => Has(q, i)'
    <3>1. SUFFICES ASSUME NEW q \in Players, NEW i \in Ids, Has(q, i) PROVE Has(q, i)'
      OBVIOUS
    <3>2. table[i] # NoRow /\ table[i].owner = q
      BY <1>2, <2>1, <3>1 DEF Has
    <3>3. table'[i] # NoRow /\ table'[i].owner = q
      BY <2>4, <3>2
    <3>4. QED
      BY <2>4, <3>3 DEF Has
  <2>6. \A q \in Players : shown'[q] \subseteq IF q = p THEN shown[q] \cup {first} ELSE shown[q]
    BY <1>0, <2>2 DEF Show, TypeOK
  <2>7. connected' => connected
    BY <1>6 DEF CheckAndSendNewItemsSince
  <2>8. QED
    BY <1>0, <1>2, <2>1, <2>3, <2>5, <2>6, <2>7, RealStep
<1>7. QED
  BY <1>1, <1>3, <1>4, <1>5, <1>6

\* No step leaves a client with what is not there.
LEMMA RealInductive ==
    ASSUME Quiet, Ledger, Settled, ForPlayer, Real, Taken, [Next]_vars
    PROVE  Real'
<1>0. /\ Inv /\ TypeOK /\ Control /\ Bracketed /\ Past
      /\ \A p \in Players : shown[p] \subseteq Ids
  BY DEF Ledger, Inv, TypeOK
<1>1. ASSUME NEW p \in Players, NEW o \in Operations, NEW consumed \in SUBSET Ids,
             NEW target \in 0..MaxItems, NEW step \in Steps,
             <<o, step>> \in First, Begun(p, o, consumed, target, step)
      PROVE  Real'
  <2>1. op = "none" /\ UNCHANGED <<shown, link>> /\ connected' = connected
    BY <1>0, <1>1, BegunStep DEF clients
  <2>2. durable' = durable
    BY <1>0, <1>1, BegunRows
  <2>3. Stays /\ pc # "forget"
    BY <1>0, <2>1, <2>2 DEF Stays, Has, Control
  <2>4. QED
    BY <1>0, <2>1, <2>3, RealStays
<1>2. ASSUME NEW p \in Players, NEW kind \in Kinds, NEW by \in Sources, ShopInserts(p, kind, by)
      PROVE  Real'
  <2>1. /\ nextId \in Ids /\ \A i \in Ids : i # nextId => durable'[i] = durable[i]
    BY <1>0, <1>2, ShopRows
  <2>2. durable[nextId] = NoRow
    BY <1>0, <2>1 DEF Past, Unused, Ids
  <2>3. Stays
    BY <2>1, <2>2 DEF Stays, Has
  <2>4. UNCHANGED <<shown, link, connected, op, pc, player, used>>
    BY <1>2 DEF ShopInserts, handler, clients
  <2>5. QED
    BY <1>0, <2>3, <2>4, RealStays
<1>3. ASSUME NEW i \in Ids, NEW p \in Players, Trade(i, p) PROVE Real'
  BY <1>3 DEF Trade, Quiet
<1>4. ASSUME Restart PROVE Real'
  BY <1>4 DEF Restart, Real
<1>5. ASSUME UNCHANGED vars PROVE Real'
  <2>1. Stays
    BY <1>5 DEF vars, db, Stays, Has
  <2>2. QED
    BY <1>0, <1>5, <2>1, RealStays DEF vars, db, handler, clients
<1>6. QED
  BY <1>0, <1>1, <1>2, <1>3, <1>4, <1>5, StatementsReal, MessagesReal, ClientsReal, NextCases

\* No request can name an item that its client has and the database has not: the
\* messages, the poll and the cache keep up with every request but the opening of
\* crates, whatever statements fail, deadlocks, lost connections and crashes.
THEOREM NoPhantomsAlways == ASSUME Quiet PROVE Spec => []NoPhantoms
<1> DEFINE Shown == ForPlayer /\ Real /\ Taken
<1>1. Init => Shown
  BY DEF Init, ForPlayer, Real, Taken
<1>2. Ledger /\ Settled /\ Shown /\ [Next]_vars => Shown'
  BY ForPlayerInductive, RealInductive, TakenInductive
<1>3. Ledger /\ Shown => NoPhantoms
  <2>1. Ledger => (op = "none" => pc = "idle")
    BY DEF Ledger, Inv, Control
  <2>2. QED
    BY <2>1 DEF Real, Has, Leaving, NoPhantoms
<1> HIDE DEF Shown
<1>4. QED
  BY <1>1, <1>2, <1>3, LedgerInvariance, SettledInvariance, PTL DEF Spec
=============================================================================
