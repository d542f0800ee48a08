------------------------------- MODULE Paging -------------------------------
(***************************************************************************)
(* A client reads a list of the shop page by page, as the parameters limit *)
(* and offset of GET /items (app/db/repositories/items.py) and of          *)
(* GET /purchases (app/db/repositories/purchases.py) let it, while the     *)
(* other requests go on.  The server keeps nothing between two pages.      *)
(***************************************************************************)
EXTENDS Shop

CONSTANTS Reader,   \* the user whose history is read
          Limit,    \* rows per page
  MaxMoves  \* bound: rows that leave and come back during a reading

ASSUME PagingAssumption ==
  Reader \in Users /\ Limit \in Nat \ {0} /\ MaxMoves \in Nat

VARIABLES
  view,       \* what is read: the active items, all items, the history
  offset,     \* of the next page
  seen,       \* the ids of the rows received, in order
  finished,   \* the offset has reached the `total` of the last page
  stayed,     \* rows that have been in the list ever since the first page
  vanished,   \* how many rows have left the list since, ...
  returned    \* ... and how many have come back into it

readerVars == <<view, offset, seen, finished, stayed, vanished, returned>>
pagingVars == <<vars, readerVars>>

Views == {"active", "all", "history"}

\* No list is read yet.
ASSUME NoViewAssumption == None \notin Views

FaultyHistory ==   \* refunded purchases are left out
  {p \in DOMAIN purchases : purchases[p].user = Reader
                              /\ purchases[p].status = "completed"}
\* The filter of list_purchases.
History == {p \in DOMAIN purchases : purchases[p].user = Reader}

\* The rows of a list; list_items leaves deleted items out.
Shown(v) ==
  CASE v = "active"  -> {i \in DOMAIN items : Live(i) /\ items[i].active}
    [] v = "all"     -> {i \in DOMAIN items : Live(i)}
    [] v = "history" -> History

\* The place of row x in the list of ids, counted from 1.
Rank(ids, x) == Cardinality({y \in ids : y <= x})

FaultySorted(ids) ==   \* the newest first
  [k \in 1 .. Cardinality(ids) |->
     CHOOSE x \in ids : Rank(ids, x) = Cardinality(ids) + 1 - k]

\* Both lists are sorted by id.
Sorted(ids) ==
  [k \in 1 .. Cardinality(ids) |-> CHOOSE x \in ids : Rank(ids, x) = k]

FaultyPage(v, o) ==   \* the end of the slice is included
  SubSeq(Sorted(Shown(v)), o + 1, Min({o + Limit + 1, Cardinality(Shown(v))}))

FaultyFilteredPage(v, o) ==   \* the table is sliced before it is filtered
  Sorted(Shown(v) \cap (o + 1 .. o + Limit))

\* rows[offset : offset + limit], which Python clips at the end of the list.
Page(v, o) ==
  SubSeq(Sorted(Shown(v)), o + 1, Min({o + Limit, Cardinality(Shown(v))}))

PagingInit ==
  /\ Init
  /\ view = None /\ offset = 0 /\ seen = << >> /\ finished = FALSE
  /\ stayed = {} /\ vanished = 0 /\ returned = 0

\* The first page, or the next one of the same list, and its total.
Fetch(v) ==
  /\ IF view = None THEN stayed' = Shown(v) ELSE view = v /\ UNCHANGED stayed
  /\ ~finished
  /\ view' = v
  /\ seen' = seen \o Page(v, offset)
  /\ offset' = offset + Limit
  /\ finished' = (offset' >= Cardinality(Shown(v)))
  /\ UNCHANGED <<vars, vanished, returned>>

\* Another request; a row that was in its table before and enters the list
\* has come back to it.
Meanwhile ==
  /\ Next
  /\ UNCHANGED <<view, offset, seen, finished>>
  /\ IF view = None \/ finished THEN UNCHANGED <<stayed, vanished, returned>>
     ELSE LET table == IF view = "history" THEN DOMAIN purchases
                                           ELSE DOMAIN items
          IN /\ stayed' = stayed \cap Shown(view)'
             /\ vanished' = vanished + Cardinality(Shown(view) \ Shown(view)')
             /\ returned' = returned +
                  Cardinality((Shown(view)' \ Shown(view)) \cap table)
             /\ vanished' + returned' <= MaxMoves

PagingNext == (\E v \in Views : Fetch(v)) \/ Meanwhile

PagingSpec == PagingInit /\ [][PagingNext]_pagingVars

-----------------------------------------------------------------------------
\* No page is longer than the limit, so that the rows received never overtake
\* the offset.
PagingTypeOK ==
  /\ view \in Optional(Views) /\ finished \in BOOLEAN
  /\ offset \in Nat /\ offset \in {n * Limit : n \in 0 .. offset}
  /\ seen \in Seq(ItemIds \cup PurchaseIds) /\ Len(seen) <= offset
  /\ stayed \subseteq ItemIds \cup PurchaseIds
  /\ vanished \in Nat /\ returned \in Nat

\* A reader who reads to the end misses at most one row for each row that left
\* the list meanwhile: creating, editing and restocking items hides none.
MissedBounded ==
  finished => Cardinality(stayed \ Range(seen)) <= vanished

\* A row is received twice at most once for each row that came back into the
\* list: items created meanwhile make none appear again.
RepeatedBounded == Len(seen) - Cardinality(Range(seen)) <= returned

\* A purchase history is read exactly, in whatever order purchases and refunds
\* go on: no purchase twice, and none missing that was there when the reading
\* began.
HistoryExact ==
  view = "history" =>
    /\ \A m, n \in DOMAIN seen : m < n => seen[m] < seen[n]
    /\ finished => stayed \subseteq Range(seen)

=============================================================================
