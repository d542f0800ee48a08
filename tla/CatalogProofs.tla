--------------------------- MODULE CatalogProofs ---------------------------
(***************************************************************************)
(* What is proved about items, their stocks and what users own of them.    *)
(***************************************************************************)
EXTENDS ConservationProofs

\* A step that touches items or inventories is an administrator's, a purchase
\* or a refund.
LEMMA StockSteps ==
  ASSUME [Next]_vars
  PROVE  \/ UNCHANGED <<items, inventory>>
         \/ \E a \in Users, sku \in Skus, price \in Prices, stock \in Optional(Stocks) :
              CreateItem(a, sku, price, stock)
         \/ \E a \in Users, i \in ItemIds :
              \/ \E price \in Optional(Prices), stock \in Optional(Stocks) :
                   UpdateItem(a, i, price, stock)
              \/ DeleteItem(a, i)
              \/ \E isActive \in BOOLEAN : ToggleActive(a, i, isActive)
         \/ \E u \in Users, i \in ItemIds, q \in Quantities, k \in Keys :
              BuyNew(u, i, q, k)
         \/ \E actor \in Users, p \in PurchaseIds : RequestRefund(actor, p)
BY DEF Next, Elsewhere, TopupRequest, AdminRequest, RefundRequest,
   PurchaseRequest, vars, walletVars, orderVars, refundVars, Register, GrantAdmin,
   Topup, BuyReplay, BuyRefused, Tick

\* The row of an item that a step changes, and nothing else of the catalogue.
OneRow(i, row) ==
  /\ i \in DOMAIN items /\ items[i] \in ItemRecord
  /\ items' = [items EXCEPT ![i] = row]

\* An administrator writes a live item: its price and stock, its flags.
Edited(i, row) ==
  /\ OneRow(i, row) /\ ~items[i].deleted /\ row.sku = items[i].sku
  /\ AdminRequest
  /\ inventory' = inventory

LEMMA UpdateEdits ==
  ASSUME TypeOK, NEW a \in Users, NEW i \in ItemIds, NEW price \in Optional(Prices),
         NEW stock \in Optional(Stocks), UpdateItem(a, i, price, stock)
  PROVE  \E row : Edited(i, row) /\ ~row.deleted
<1> DEFINE row == [items[i] EXCEPT !.price = Supplied(price, @),
                                   !.stock = Supplied(stock, @)]
<1>1. EditItem(a, i, row)
  BY DEF UpdateItem
<1>2. items[i] \in ItemRecord
  BY <1>1, ItemType DEF EditItem, Live
<1>3. row.sku = items[i].sku /\ ~row.deleted
  BY <1>1, <1>2 DEF EditItem, Live, ItemRecord
<1>4. AdminRequest
  BY DEF AdminRequest
<1> HIDE DEF row
<1> QED BY <1>1, <1>2, <1>3, <1>4 DEF EditItem, Edited, OneRow, Live, orderVars

LEMMA ToggleEdits ==
  ASSUME TypeOK, NEW a \in Users, NEW i \in ItemIds, NEW isActive \in BOOLEAN,
         ToggleActive(a, i, isActive)
  PROVE  \E row : Edited(i, row) /\ ~row.deleted
<1> DEFINE row == [items[i] EXCEPT !.active = isActive]
<1>1. EditItem(a, i, row)
  BY DEF ToggleActive
<1>2. items[i] \in ItemRecord
  BY <1>1, ItemType DEF EditItem, Live
<1>3. row.sku = items[i].sku /\ ~row.deleted
  BY <1>1, <1>2 DEF EditItem, Live, ItemRecord
<1>4. AdminRequest
  BY DEF AdminRequest
<1> HIDE DEF row
<1> QED BY <1>1, <1>2, <1>3, <1>4 DEF EditItem, Edited, OneRow, Live, orderVars

LEMMA DeleteEdits ==
  ASSUME TypeOK, NEW a \in Users, NEW i \in ItemIds, DeleteItem(a, i)
  PROVE  \E row : Edited(i, row) /\ ~row.active
<1> DEFINE row == [items[i] EXCEPT !.deleted = TRUE, !.active = FALSE]
<1>1. EditItem(a, i, row)
  BY DEF DeleteItem
<1>2. items[i] \in ItemRecord
  BY <1>1, ItemType DEF EditItem, Live
<1>3. row.sku = items[i].sku /\ ~row.active
  BY <1>2 DEF ItemRecord
<1>4. AdminRequest
  BY DEF AdminRequest
<1> HIDE DEF row
<1> QED BY <1>1, <1>2, <1>3, <1>4 DEF EditItem, Edited, OneRow, Live, orderVars

\* A purchase moves a quantity from the stock of a live item to its buyer.
LEMMA BuyNewMoves ==
  ASSUME TypeOK, NEW u \in Users, NEW i \in ItemIds, NEW q \in Quantities,
         NEW k \in Keys, BuyNew(u, i, q, k)
  PROVE  /\ i \in DOMAIN items /\ items[i] \in ItemRecord /\ ~items[i].deleted
         /\ q \in Nat \ {0}
         /\ items' = [items EXCEPT ![i] = [items[i] EXCEPT !.stock =
                        IF items[i].stock = None THEN None ELSE items[i].stock - q]]
         /\ inventory[u][i] \in Nat
         /\ inventory' = [inventory EXCEPT ![u][i] = inventory[u][i] + q]
<1>1. i \in DOMAIN items /\ items[i] \in ItemRecord /\ ~items[i].deleted
  BY CreatedVerdict DEF BuyNew
<1> QED BY <1>1, StoreAssumption DEF BuyNew, TypeOK

\* A refund moves it back, as far as the owner still has it; InventoryExact
\* says that the owner has all of it.
LEMMA RefundMoves ==
  ASSUME TypeOK, NEW actor \in Users, NEW p \in PurchaseIds,
         RequestRefund(actor, p)
  PROVE  LET u == purchases[p].user
             i == purchases[p].item
             q == purchases[p].quantity
         IN  /\ u \in Users /\ i \in ItemIds /\ q \in Nat
             /\ inventory[u][i] \in Nat
             /\ InventoryExact => inventory[u][i] >= q
             /\ inventory' = [inventory EXCEPT ![u][i] = Less(inventory[u][i], q)]
             /\ items' = [items EXCEPT ![i] =
                            [items[i] EXCEPT !.stock = Restocked(i, q)]]
<1>1. /\ p \in DOMAIN purchases /\ purchases[p] \in PurchaseRecord
      /\ purchases[p].status = "completed"
  BY RefundableVerdict DEF RequestRefund
<1>2. InventoryExact => Held(p) >= purchases[p].quantity
  BY <1>1, OpenIsHeld
<1> QED BY <1>1, <1>2 DEF RequestRefund, PurchaseRecord, Held, TypeOK

-----------------------------------------------------------------------------
(* SKUs *)

\* Except for a creation, rows keep their SKUs and no row comes back to life.
LEMMA RowsKept ==
  ASSUME TypeOK, [Next]_vars
  PROVE  \/ \E a \in Users, sku \in Skus, price \in Prices, stock \in Optional(Stocks) :
              CreateItem(a, sku, price, stock)
         \/ /\ DOMAIN items' = DOMAIN items
            /\ \A i \in DOMAIN items : /\ items'[i].sku = items[i].sku
                                       /\ items[i].deleted => items'[i].deleted
<1> DEFINE Kept == /\ DOMAIN items' = DOMAIN items
                   /\ \A i \in DOMAIN items : /\ items'[i].sku = items[i].sku
                                              /\ items[i].deleted => items'[i].deleted
<1>1. ASSUME NEW i \in ItemIds, \E row : Edited(i, row) PROVE Kept
  BY <1>1 DEF Edited, OneRow
<1>2. ASSUME NEW u \in Users, NEW i \in ItemIds, NEW q \in Quantities,
             NEW k \in Keys, BuyNew(u, i, q, k)
      PROVE  Kept
  BY <1>2, BuyNewMoves DEF ItemRecord
<1>3. ASSUME NEW actor \in Users, NEW p \in PurchaseIds, RequestRefund(actor, p)
      PROVE  Kept
  <2>1. \A i \in DOMAIN items : items[i] \in ItemRecord
    BY ItemType
  <2>2. PICK i, stock : items' = [items EXCEPT ![i] = [items[i] EXCEPT !.stock = stock]]
    BY <1>3, RefundMoves
  <2> QED BY <2>1, <2>2 DEF ItemRecord
<1>4. CASE UNCHANGED <<items, inventory>>
  BY <1>4
<1> QED BY <1>1, <1>2, <1>3, <1>4, StockSteps, UpdateEdits, ToggleEdits, DeleteEdits

LEMMA SkusFresh == Fresh => LiveSkuUnique
BY SeedAssumption DEF Fresh, LiveSkuUnique, Live, NewItem

LEMMA SkusNext ==
  TypeOK /\ LiveSkuUnique /\ [Next]_vars => LiveSkuUnique'
<1> SUFFICES ASSUME TypeOK, LiveSkuUnique, [Next]_vars PROVE LiveSkuUnique'
  OBVIOUS
<1>1. ASSUME NEW a \in Users, NEW sku \in Skus, NEW price \in Prices,
             NEW stock \in Optional(Stocks), CreateItem(a, sku, price, stock)
      PROVE  LiveSkuUnique'
  <2> DEFINE row == NewItem(sku, price, stock)
             id == Len(items) + 1
  <2>1. row \in ItemRecord /\ row.sku = sku
    BY StoreAssumption DEF NewItem, ItemRecord, Optional
  <2>2. /\ Len(items) \in Nat /\ DOMAIN items = 1 .. Len(items)
        /\ items' = Append(items, row)
    BY <1>1, LenProperties DEF TypeOK, CreateItem
  <2> HIDE DEF row
  <2>3. /\ DOMAIN items' = DOMAIN items \cup {id} /\ id \notin DOMAIN items
        /\ \A i \in DOMAIN items : items'[i] = items[i]
        /\ items'[id].sku = sku
    <3>1. /\ DOMAIN items' = 1 .. id
          /\ \A i \in DOMAIN items : items'[i] = items[i] /\ items'[id] = row
      BY <2>1, <2>2, RowAppended DEF TypeOK
    <3>2. items'[id] = row
      BY <2>1, <2>2, RowAppended DEF TypeOK
    <3> QED BY <2>1, <2>2, <3>1, <3>2
  <2>4. \A i \in DOMAIN items : Live(i) => LowerSku[items[i].sku] # LowerSku[sku]
    BY <1>1 DEF CreateItem, SkuTaken
  <2> QED BY <2>3, <2>4 DEF LiveSkuUnique, Live
<1>2. CASE /\ DOMAIN items' = DOMAIN items
           /\ \A i \in DOMAIN items : /\ items'[i].sku = items[i].sku
                                      /\ items[i].deleted => items'[i].deleted
  BY <1>2 DEF LiveSkuUnique, Live
<1> QED BY <1>1, <1>2, RowsKept

\* No two live items share a SKU in any case of its letters, after any number
\* of creations, deletions and creations again.
THEOREM SkusCorrect == Spec => []LiveSkuUnique
<1> QED BY InitFresh, SkusFresh, SkusNext, TypeCorrect, PTL DEF Spec

-----------------------------------------------------------------------------
(* Stocks and deleted items *)

\* A deleted item was withdrawn from sale by the same step, and nothing shows
\* it again.
Withdrawn == \A i \in DOMAIN items : items[i].deleted => ~items[i].active

LEMMA WithdrawnKept ==
  ASSUME TypeOK, Withdrawn, [Next]_vars PROVE Withdrawn'
<1>1. CASE UNCHANGED <<items, inventory>>
  BY <1>1 DEF Withdrawn
<1>2. ASSUME NEW a \in Users, NEW sku \in Skus, NEW price \in Prices,
             NEW stock \in Optional(Stocks), CreateItem(a, sku, price, stock)
      PROVE  Withdrawn'
  <2> DEFINE row == NewItem(sku, price, stock)
  <2>1. row \in ItemRecord /\ ~row.deleted
    BY StoreAssumption DEF NewItem, ItemRecord, Optional
  <2>2. items' = Append(items, row) /\ DOMAIN items = 1 .. Len(items)
    BY <1>2, LenProperties DEF TypeOK, CreateItem
  <2> HIDE DEF row
  <2>3. \A i \in DOMAIN items' : (i \in DOMAIN items /\ items'[i] = items[i])
                                 \/ items'[i] = row
    <3>1. Len(items) \in Nat /\ DOMAIN items' = 1 .. Len(items) + 1
      BY <2>1, <2>2, RowAppended, LenProperties DEF TypeOK
    <3>2. /\ \A i \in DOMAIN items : items'[i] = items[i]
          /\ items'[Len(items) + 1] = row
      BY <2>1, <2>2, RowAppended DEF TypeOK
    <3> QED BY <2>2, <3>1, <3>2
  <2> QED BY <2>1, <2>3 DEF Withdrawn
<1>3. ASSUME NEW i \in ItemIds, \E row : Edited(i, row) /\ (~row.deleted \/ ~row.active)
      PROVE  Withdrawn'
  BY <1>3 DEF Edited, OneRow, Withdrawn
<1>4. ASSUME NEW u \in Users, NEW i \in ItemIds, NEW q \in Quantities,
             NEW k \in Keys, BuyNew(u, i, q, k)
      PROVE  Withdrawn'
  BY <1>4, BuyNewMoves DEF Withdrawn, ItemRecord
<1>5. ASSUME NEW actor \in Users, NEW p \in PurchaseIds, RequestRefund(actor, p)
      PROVE  Withdrawn'
  <2>1. \A i \in DOMAIN items : items[i] \in ItemRecord
    BY ItemType
  <2>2. PICK i, stock : items' = [items EXCEPT ![i] = [items[i] EXCEPT !.stock = stock]]
    BY <1>5, RefundMoves
  <2> QED BY <2>1, <2>2 DEF Withdrawn, ItemRecord
<1> QED BY <1>1, <1>2, <1>3, <1>4, <1>5, StockSteps, UpdateEdits, ToggleEdits,
           DeleteEdits

LEMMA WithdrawnCorrect == Spec => []Withdrawn
<1>1. Init => Withdrawn
  BY DEF Init, Withdrawn, NewItem
<1> QED BY <1>1, WithdrawnKept, TypeCorrect, PTL DEF Spec

\* A deleted item is final: only refunds touch it, and they only take it from
\* inventories.
THEOREM DeletedCorrect == Spec => DeletedIsFinal
<1> DEFINE Final ==
      \A i \in DOMAIN items : items[i].deleted =>
        /\ items'[i] = [items[i] EXCEPT !.stock = items'[i].stock]
        /\ ~items'[i].active
        /\ \A u \in Users : inventory'[u][i] <= inventory[u][i]
<1>1. TypeOK /\ Withdrawn /\ [Next]_vars => Final
  <2> SUFFICES ASSUME TypeOK, Withdrawn, [Next]_vars,
                      NEW i \in DOMAIN items, items[i].deleted
               PROVE  /\ items'[i] = [items[i] EXCEPT !.stock = items'[i].stock]
                      /\ ~items'[i].active
                      /\ \A u \in Users : inventory'[u][i] <= inventory[u][i]
    OBVIOUS
  <2>1. items[i] \in ItemRecord /\ ~items[i].active /\ i \in ItemIds
    <3>1. DOMAIN items = 1 .. Len(items) /\ Len(items) \in Nat /\ Len(items) <= MaxItems
      BY LenProperties DEF TypeOK
    <3> QED BY <3>1, ItemType, StoreAssumption DEF Withdrawn, ItemIds
  <2>2. \A u \in Users : inventory[u][i] \in Nat
    BY <2>1 DEF TypeOK
  <2>3. items[i] = [items[i] EXCEPT !.stock = items[i].stock]
    BY <2>1 DEF ItemRecord
  <2>4. ASSUME items'[i] = items[i], inventory' = inventory
        PROVE  /\ items'[i] = [items[i] EXCEPT !.stock = items'[i].stock]
               /\ ~items'[i].active
               /\ \A u \in Users : inventory'[u][i] <= inventory[u][i]
    BY <2>1, <2>2, <2>3, <2>4
  <2>5. CASE UNCHANGED <<items, inventory>>
    BY <2>4, <2>5
  <2>6. ASSUME NEW a \in Users, NEW sku \in Skus, NEW price \in Prices,
               NEW stock \in Optional(Stocks), CreateItem(a, sku, price, stock)
        PROVE  items'[i] = items[i] /\ inventory' = inventory
    <3>1. NewItem(sku, price, stock) \in ItemRecord
      BY StoreAssumption DEF NewItem, ItemRecord, Optional
    <3> QED BY <2>6, <3>1, RowAppended DEF TypeOK, CreateItem, orderVars
  <2>7. ASSUME NEW j \in ItemIds, \E row : Edited(j, row)
        PROVE  items'[i] = items[i] /\ inventory' = inventory
    BY <2>7 DEF Edited, OneRow
  <2>8. ASSUME NEW u \in Users, NEW j \in ItemIds, NEW q \in Quantities,
               NEW k \in Keys, BuyNew(u, j, q, k)
        PROVE  /\ items'[i] = items[i] /\ \A v \in Users : inventory'[v][i] = inventory[v][i]
    <3>1. /\ ~items[j].deleted
          /\ \E row : items' = [items EXCEPT ![j] = row]
          /\ \E n : inventory' = [inventory EXCEPT ![u][j] = n]
      BY <2>8, BuyNewMoves
    <3>2. i # j
      BY <3>1
    <3> QED BY <2>1, <3>1, <3>2 DEF TypeOK
  <2>9. ASSUME NEW actor \in Users, NEW p \in PurchaseIds, RequestRefund(actor, p)
        PROVE  /\ items'[i] = [items[i] EXCEPT !.stock = items'[i].stock]
               /\ ~items'[i].active
               /\ \A u \in Users : inventory'[u][i] <= inventory[u][i]
    <3>1. PICK j, stock : items' = [items EXCEPT ![j] = [items[j] EXCEPT !.stock = stock]]
      BY <2>9, RefundMoves
    <3>2. items'[i] = items[i] \/ items'[i] = [items[i] EXCEPT !.stock = stock]
      BY <3>1
    <3>3. items'[i] = [items[i] EXCEPT !.stock = items'[i].stock] /\ ~items'[i].active
      BY <2>1, <2>3, <3>2 DEF ItemRecord
    <3>4. PICK u \in Users, j2 \in ItemIds, q \in Nat :
            inventory' = [inventory EXCEPT ![u][j2] = Less(inventory[u][j2], q)]
            /\ inventory[u][j2] \in Nat
      BY <2>9, RefundMoves
    <3>5. Less(inventory[u][j2], q) <= inventory[u][j2]
      BY <3>4 DEF Less
    <3>6. \A v \in Users : inventory'[v][i] <= inventory[v][i]
      BY <2>1, <2>2, <3>4, <3>5 DEF TypeOK
    <3> QED BY <3>3, <3>6
  <2>10. ASSUME items'[i] = items[i],
                \A v \in Users : inventory'[v][i] = inventory[v][i]
         PROVE  /\ items'[i] = [items[i] EXCEPT !.stock = items'[i].stock]
                /\ ~items'[i].active
                /\ \A u \in Users : inventory'[u][i] <= inventory[u][i]
    BY <2>1, <2>2, <2>3, <2>10
  <2> QED BY <2>4, <2>5, <2>6, <2>7, <2>8, <2>9, <2>10, StockSteps, UpdateEdits,
             ToggleEdits, DeleteEdits
<1>2. TypeOK /\ Withdrawn /\ [Next]_vars => [Final]_vars
  BY <1>1
<1> QED BY <1>2, TypeCorrect, WithdrawnCorrect, PTL DEF Spec, DeletedIsFinal

\* Units move between stock and owners without loss, also where refunds do not
\* ask for the items (settings.require_inventory_for_refund = False): the
\* max(0, ...) of the code never cuts anything off, by InventoryExact.  A stock
\* that changes by anything else is changed by a request of an administrator.
THEOREM StockCorrect == Spec => StockConserved
<1> DEFINE Conserved ==
      \A i \in DOMAIN items :
        /\ \A u \in Users :
             inventory'[u][i] # inventory[u][i] /\ items[i].stock # None
               => items'[i].stock + inventory'[u][i] =
                    items[i].stock + inventory[u][i]
        /\ items'[i].stock # items[i].stock
             => \/ \E u \in Users : inventory'[u][i] # inventory[u][i]
                \/ AdminRequest
<1>1. TypeOK /\ InventoryExact /\ [Next]_vars => Conserved
  <2> SUFFICES ASSUME TypeOK, InventoryExact, [Next]_vars PROVE Conserved
    OBVIOUS
  <2>1. /\ \A i \in DOMAIN items : i \in ItemIds /\ items[i] \in ItemRecord
        /\ \A u \in Users, i \in ItemIds : inventory[u][i] \in Nat
        /\ \A i \in DOMAIN items : items[i].stock \in Optional(Nat)
    <3>1. DOMAIN items = 1 .. Len(items) /\ Len(items) \in Nat /\ Len(items) <= MaxItems
      BY LenProperties DEF TypeOK
    <3>2. \A i \in DOMAIN items : i \in ItemIds /\ items[i] \in ItemRecord
      BY <3>1, ItemType, StoreAssumption DEF ItemIds
    <3> QED BY <3>2 DEF TypeOK, ItemRecord
  <2>2. CASE UNCHANGED <<items, inventory>>
    BY <2>2
  <2>3. ASSUME NEW a \in Users, NEW sku \in Skus, NEW price \in Prices,
               NEW stock \in Optional(Stocks), CreateItem(a, sku, price, stock)
        PROVE  Conserved
    <3>1. NewItem(sku, price, stock) \in ItemRecord
      BY StoreAssumption DEF NewItem, ItemRecord, Optional
    <3>2. (\A i \in DOMAIN items : items'[i] = items[i]) /\ inventory' = inventory
      BY <2>3, <3>1, RowAppended DEF TypeOK, CreateItem, orderVars
    <3> QED BY <3>2
  <2>4. ASSUME NEW j \in ItemIds, \E row : Edited(j, row)
        PROVE  Conserved
    BY <2>4 DEF Edited
  <2>5. ASSUME NEW u \in Users, NEW j \in ItemIds, NEW stock,
               items' = [items EXCEPT ![j] = [items[j] EXCEPT !.stock = stock]],
               NEW n \in Nat, inventory' = [inventory EXCEPT ![u][j] = n],
               j \in DOMAIN items =>
                 /\ items[j].stock # None => stock + n = items[j].stock + inventory[u][j]
                 /\ stock # items[j].stock => n # inventory[u][j]
        PROVE  Conserved
    <3> SUFFICES ASSUME NEW i \in DOMAIN items
                 PROVE  /\ \A v \in Users :
                             inventory'[v][i] # inventory[v][i] /\ items[i].stock # None
                               => items'[i].stock + inventory'[v][i] =
                                    items[i].stock + inventory[v][i]
                        /\ items'[i].stock # items[i].stock
                             => \E v \in Users : inventory'[v][i] # inventory[v][i]
      OBVIOUS
    <3>1. CASE i # j
      <4>1. items'[i] = items[i] /\ \A v \in Users : inventory'[v][i] = inventory[v][i]
        BY <2>1, <2>5, <3>1 DEF TypeOK
      <4> QED BY <4>1
    <3>2. CASE i = j
      <4>1. /\ items'[i].stock = stock /\ inventory'[u][i] = n
            /\ \A v \in Users : v # u => inventory'[v][i] = inventory[v][i]
        BY <2>1, <2>5, <3>2 DEF TypeOK, ItemRecord
      <4> QED BY <2>5, <3>2, <4>1
    <3> QED BY <3>1, <3>2
  <2>6. ASSUME NEW u \in Users, NEW j \in ItemIds, NEW q \in Quantities,
               NEW k \in Keys, BuyNew(u, j, q, k)
        PROVE  Conserved
    <3> DEFINE stock == IF items[j].stock = None THEN None ELSE items[j].stock - q
               n == inventory[u][j] + q
    <3>1. /\ j \in DOMAIN items /\ q \in Nat \ {0} /\ inventory[u][j] \in Nat
          /\ items' = [items EXCEPT ![j] = [items[j] EXCEPT !.stock = stock]]
          /\ inventory' = [inventory EXCEPT ![u][j] = n]
      BY <2>6, BuyNewMoves
    <3>2. /\ n \in Nat /\ n # inventory[u][j]
          /\ items[j].stock # None => stock + n = items[j].stock + inventory[u][j]
      BY <2>1, <3>1 DEF Optional
    <3> HIDE DEF stock, n, Conserved
    <3> QED BY <2>5, <3>1, <3>2
  <2>7. ASSUME NEW actor \in Users, NEW p \in PurchaseIds, RequestRefund(actor, p)
        PROVE  Conserved
    <3> DEFINE u == purchases[p].user
               j == purchases[p].item
               q == purchases[p].quantity
               stock == Restocked(j, q)
               n == Less(inventory[u][j], q)
    <3>1. /\ u \in Users /\ j \in ItemIds /\ q \in Nat
          /\ inventory[u][j] \in Nat /\ inventory[u][j] >= q
          /\ inventory' = [inventory EXCEPT ![u][j] = n]
          /\ items' = [items EXCEPT ![j] = [items[j] EXCEPT !.stock = stock]]
      BY <2>7, RefundMoves
    <3>2. n \in Nat /\ n = inventory[u][j] - q
      BY <3>1 DEF Less
    <3>3. j \in DOMAIN items =>
            /\ items[j].stock # None => stock + n = items[j].stock + inventory[u][j]
            /\ stock # items[j].stock => n # inventory[u][j]
      BY <2>1, <3>1, <3>2 DEF Restocked, Optional
    <3> HIDE DEF u, j, q, stock, n, Conserved
    <3> QED BY <2>5, <3>1, <3>2, <3>3
  <2> HIDE DEF Conserved
  <2> QED BY <2>2, <2>3, <2>4, <2>6, <2>7, StockSteps, UpdateEdits, ToggleEdits,
             DeleteEdits
<1>2. TypeOK /\ InventoryExact /\ [Next]_vars => [Conserved]_vars
  BY <1>1
<1> QED BY <1>2, TypeCorrect, InventoryCorrect, PTL DEF Spec, StockConserved

-----------------------------------------------------------------------------
(* The shop as a whole *)

\* All of the inductive invariants, together.
ShopSafe ==
  /\ TypeOK /\ LedgerInv /\ IdempotencyExact /\ RefundExact /\ RowsSound
  /\ LedgerCovers /\ InventoryExact /\ BalanceExact /\ LiveSkuUnique

\* What they mean: every state property of Shop and Schema.
ShopSound ==
  /\ TypeOK /\ LedgerChain /\ LedgerCovers /\ BalanceConservation /\ InventoryExact
  /\ IdempotencyExact /\ ReplayNeverRefused /\ RefundExact /\ OwnerRefundGuaranteed
  /\ LiveSkuUnique /\ SchemaKept /\ DeadAnswers

LEMMA SafeFresh == Fresh => ShopSafe
BY FreshType, LedgerFresh, IdempotencyFresh, RefundFresh, RowsFresh, CoverFresh,
   InventoryFresh, BalanceFresh, SkusFresh DEF ShopSafe

LEMMA SafeNext == ShopSafe /\ [Next]_vars => ShopSafe'
BY NextType, LedgerNext, IdempotencyNext, RefundNext, RowsNext, CoverNext,
   InventoryNext, BalanceNext, SkusNext DEF ShopSafe

LEMMA SafeMeaning == ShopSafe => ShopSound
BY LedgerInvMeaning, BalanceMeaning, ReplayMeaning, GuaranteeMeaning, SchemaMeaning,
   DeadAnswersMeaning DEF ShopSafe, ShopSound

\* What the shop promises after any history of requests, in one formula; the
\* flow and the transactions are shown to keep it.
THEOREM ShopCorrect == Spec => []ShopSound
<1> QED BY InitFresh, SafeFresh, SafeNext, SafeMeaning, PTL DEF Spec
=============================================================================
