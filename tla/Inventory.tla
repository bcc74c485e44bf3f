------------------------------ MODULE Inventory ------------------------------
(***************************************************************************)
(* What the handlers of Exchange promise together: an item appears, goes,  *)
(* changes hands, or is made of others that are gone, each in one step.    *)
(* Nothing is said of statements, transactions, failures and messages.     *)
(***************************************************************************)

CONSTANTS Players, Ids, NoItem

Item == [owner: Players, from: SUBSET Ids]

VARIABLE items

TypeOK == items \in [Ids -> Item \cup {NoItem}]

Init == items = [i \in Ids |-> NoItem]

Present(i) == items[i] # NoItem

\* i is no item and nothing is made of it.
Fresh(i) == ~Present(i) /\ \A j \in Ids : Present(j) => i \notin items[j].from

Insert(p, i) ==
    /\ Fresh(i)
    /\ items' = [items EXCEPT ![i] = [owner |-> p, from |-> {}]]

\* i is made of the items in S, or they become part of it.
Exchange(p, S, i) ==
    /\ S # {}
    /\ \A s \in S : Present(s)
    /\ i \notin S
    /\ \/ Fresh(i) /\ items' = [j \in Ids |-> IF j = i THEN [owner |-> p, from |-> S]
                                              ELSE IF j \in S THEN NoItem ELSE items[j]]
       \/ Present(i) /\ items' = [j \in Ids |-> IF j = i THEN [items[i] EXCEPT !.from = @ \cup S]
                                                ELSE IF j \in S THEN NoItem ELSE items[j]]

Delete(i) ==
    /\ Present(i)
    /\ items' = [items EXCEPT ![i] = NoItem]

Give(i, p) ==
    /\ Present(i)
    /\ items' = [items EXCEPT ![i].owner = p]

Next ==
    \/ \E p \in Players, i \in Ids :
          \/ Insert(p, i)
          \/ \E S \in SUBSET Ids : Exchange(p, S, i)
          \/ Give(i, p)
    \/ \E i \in Ids : Delete(i)

Spec == Init /\ [][Next]_items
=============================================================================
