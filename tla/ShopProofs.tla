----------------------------- MODULE ShopProofs -----------------------------
(***************************************************************************)
(* Proofs about Shop, for every value of its constants.                    *)
(***************************************************************************)
EXTENDS Shop, TLAPS, SequenceTheorems

-----------------------------------------------------------------------------
(* Sequences *)

\* Writing one row of a table keeps it a table, of the same length.
LEMMA RowWritten ==
  ASSUME NEW S, NEW s \in Seq(S), NEW i \in DOMAIN s, NEW e \in S
  PROVE  /\ [s EXCEPT ![i] = e] \in Seq(S)
         /\ Len([s EXCEPT ![i] = e]) = Len(s)
         /\ DOMAIN [s EXCEPT ![i] = e] = DOMAIN s
BY ExceptSeq

\* A row appended to a table gets the next id and leaves the others alone.
LEMMA RowAppended ==
  ASSUME NEW S, NEW s \in Seq(S), NEW e \in S
  PROVE  /\ Append(s, e) \in Seq(S)
         /\ Len(Append(s, e)) = Len(s) + 1
         /\ DOMAIN Append(s, e) = 1 .. Len(s) + 1
         /\ \A i \in DOMAIN s : Append(s, e)[i] = s[i]
         /\ Append(s, e)[Len(s) + 1] = e
BY AppendProperties

-----------------------------------------------------------------------------
(* Types *)

\* The store after reset(), at any time.
Fresh ==
  /\ role = [u \in Users |-> "absent"]
  /\ wallet = [u \in Users |-> None]
  /\ items = [i \in DOMAIN Seed |-> NewItem(Seed[i].sku, Seed[i].price, None)]
  /\ topups = << >> /\ topupByRef = [r \in Refs |-> None]
  /\ purchases = << >>
  /\ inventory = [u \in Users |-> [i \in ItemIds |-> 0]]
  /\ refunds = << >>
  /\ refundByPurchase = [p \in PurchaseIds |-> None]
  /\ ledger = << >>
  /\ idempotency = [k \in Keys |-> None]
  /\ now \in Time

LEMMA InitFresh == Init => Fresh
BY StoreAssumption DEF Init, Fresh, Time

LEMMA FreshType == Fresh => TypeOK
<1> SUFFICES ASSUME Fresh PROVE TypeOK
  OBVIOUS
<1>1. DOMAIN Seed = 1 .. Len(Seed) /\ Len(Seed) \in Nat
  BY LenProperties, StoreAssumption
<1>2. ASSUME NEW i \in DOMAIN Seed
      PROVE  NewItem(Seed[i].sku, Seed[i].price, None) \in ItemRecord
  <2>1. Seed[i] \in [sku : Skus, price : Nat]
    BY <1>1, ElementOfSeq, StoreAssumption
  <2> QED BY <2>1 DEF NewItem, ItemRecord, Optional
<1>3. items \in Seq(ItemRecord) /\ Len(items) <= MaxItems
  BY <1>1, <1>2, StoreAssumption DEF Fresh
<1> QED
  BY <1>3, StoreAssumption DEF Fresh, TypeOK, Optional, Time

LEMMA InitType == Init => TypeOK
BY InitFresh, FreshType

LEMMA RegisterType == ASSUME TypeOK, NEW u \in Users, Register(u) PROVE TypeOK'
BY DEF TypeOK, Register, OpenedBalance, Optional, orderVars, refundVars

LEMMA GrantAdminType == ASSUME TypeOK, NEW u \in Users, GrantAdmin(u) PROVE TypeOK'
BY DEF TypeOK, GrantAdmin, walletVars, orderVars, refundVars

\* The row every balance change leaves has the shape of a ledger row.
LEMMA RecordTransactionType ==
  ASSUME TypeOK, NEW u \in Users,
         NEW op \in {"topup_credit", "purchase_debit", "refund_credit"},
         NEW p \in Optional(Nat), NEW r \in Optional(Nat),
         NEW amount \in Int, NEW before \in Int, NEW after \in Int,
         RecordTransaction(u, op, p, r, amount, before, after)
  PROVE  ledger' \in Seq(LedgerRecord)
<1>1. [user |-> u, purchase |-> p, refund |-> r, operation |-> op,
       amount |-> amount, before |-> before, after |-> after] \in LedgerRecord
  BY DEF LedgerRecord
<1> QED BY <1>1, RowAppended DEF TypeOK, RecordTransaction

LEMMA TopupType ==
  ASSUME TypeOK, NEW u \in Users, NEW amount \in Amounts,
         NEW ref \in ExternalRefs, Topup(u, amount, ref)
  PROVE  TypeOK'
<1> USE StoreAssumption
<1>1. OpenedBalance(u) \in Nat /\ OpenedBalance(u) + amount \in Nat
  BY DEF TypeOK, OpenedBalance, Optional
<1>2. ledger' \in Seq(LedgerRecord)
  <2>1. /\ None \in Optional(Nat) /\ amount \in Int
        /\ OpenedBalance(u) \in Int /\ OpenedBalance(u) + amount \in Int
    BY <1>1 DEF Optional
  <2>2. RecordTransaction(u, "topup_credit", None, None, amount,
                          OpenedBalance(u), OpenedBalance(u) + amount)
    BY DEF Topup
  <2> QED BY <2>1, <2>2, RecordTransactionType
<1>3. topups' \in Seq(TopupRecord)
  <2>1. [user |-> u, amount |-> amount, ref |-> ref] \in TopupRecord
    BY DEF TopupRecord
  <2> QED BY <2>1, RowAppended DEF TypeOK, Topup
<1>4. Len(topups) + 1 \in Nat
  BY LenProperties DEF TypeOK
<1>5. topupByRef' \in [Refs -> Optional(Nat)]
  BY <1>4 DEF TypeOK, Topup, Optional
<1>6. wallet' \in [Users -> Optional(Nat)]
  BY <1>1 DEF TypeOK, Topup, Optional
<1> QED
  BY <1>2, <1>3, <1>5, <1>6 DEF TypeOK, Topup, orderVars, refundVars

LEMMA CreateItemType ==
  ASSUME TypeOK, NEW a \in Users, NEW sku \in Skus, NEW price \in Prices,
         NEW stock \in Optional(Stocks), CreateItem(a, sku, price, stock)
  PROVE  TypeOK'
<1>1. NewItem(sku, price, stock) \in ItemRecord
  BY StoreAssumption DEF NewItem, ItemRecord, Optional
<1>2. items' \in Seq(ItemRecord) /\ Len(items') = Len(items) + 1 /\ Len(items) \in Nat
  BY <1>1, RowAppended, LenProperties DEF TypeOK, CreateItem
<1> QED
  BY <1>2, StoreAssumption DEF TypeOK, CreateItem, walletVars, orderVars, refundVars

\* A row of the catalogue is an item.
LEMMA ItemType == ASSUME TypeOK, NEW i \in DOMAIN items PROVE items[i] \in ItemRecord
BY ElementOfSeq, LenProperties DEF TypeOK

\* A row of the history is a purchase.
LEMMA PurchaseType ==
  ASSUME TypeOK, NEW p \in DOMAIN purchases PROVE purchases[p] \in PurchaseRecord
BY ElementOfSeq, LenProperties DEF TypeOK

LEMMA EditItemType ==
  ASSUME TypeOK, NEW a \in Users, NEW i, NEW edited \in ItemRecord,
         EditItem(a, i, edited)
  PROVE  TypeOK'
<1>1. items' \in Seq(ItemRecord) /\ Len(items') = Len(items)
  BY RowWritten DEF TypeOK, EditItem, Live
<1> QED
  BY <1>1 DEF TypeOK, EditItem, walletVars, orderVars, refundVars

LEMMA UpdateItemType ==
  ASSUME TypeOK, NEW a \in Users, NEW i \in ItemIds, NEW price \in Optional(Prices),
         NEW stock \in Optional(Stocks), UpdateItem(a, i, price, stock)
  PROVE  TypeOK'
<1>1. items[i] \in ItemRecord
  BY ItemType DEF UpdateItem, EditItem, Live
<1>2. [items[i] EXCEPT !.price = Supplied(price, @), !.stock = Supplied(stock, @)]
        \in ItemRecord
  BY <1>1, StoreAssumption DEF ItemRecord, Supplied, Optional
<1> QED BY <1>2, EditItemType DEF UpdateItem

LEMMA DeleteItemType ==
  ASSUME TypeOK, NEW a \in Users, NEW i \in ItemIds, DeleteItem(a, i) PROVE TypeOK'
<1>1. items[i] \in ItemRecord
  BY ItemType DEF DeleteItem, EditItem, Live
<1>2. [items[i] EXCEPT !.deleted = TRUE, !.active = FALSE] \in ItemRecord
  BY <1>1 DEF ItemRecord
<1> QED BY <1>2, EditItemType DEF DeleteItem

LEMMA ToggleActiveType ==
  ASSUME TypeOK, NEW a \in Users, NEW i \in ItemIds, NEW isActive \in BOOLEAN,
         ToggleActive(a, i, isActive)
  PROVE  TypeOK'
<1>1. items[i] \in ItemRecord
  BY ItemType DEF ToggleActive, EditItem, Live
<1>2. [items[i] EXCEPT !.active = isActive] \in ItemRecord
  BY <1>1 DEF ItemRecord
<1> QED BY <1>2, EditItemType DEF ToggleActive

\* What holds when the code has decided to make a purchase.
LEMMA CreatedVerdict ==
  ASSUME TypeOK, NEW u \in Users, NEW i \in ItemIds, NEW q \in Quantities,
         NEW k \in Keys, BuyVerdict(u, i, q, k) = "created"
  PROVE  /\ i \in DOMAIN items /\ ~items[i].deleted /\ items[i].active
         /\ items[i] \in ItemRecord
         /\ items[i].stock # None => items[i].stock >= q
         /\ wallet[u] \in Nat /\ q \in Nat /\ Total(i, q) \in Nat
         /\ wallet[u] >= Total(i, q)
         /\ KeyVerdict(u, i, q, k) = "free"
<1>1. KeyVerdict(u, i, q, k) = "free" /\ SaleVerdict(u, i, q) = "created"
  BY DEF BuyVerdict, KeyVerdict
<1>2. Live(i) /\ items[i].active /\ wallet[u] # None /\ ~CannotPay(u, i, q)
      /\ (items[i].stock # None => ~(items[i].stock < q))
  BY <1>1 DEF SaleVerdict
<1>3. items[i] \in ItemRecord
  BY <1>2, ItemType DEF Live
<1>4. items[i].price \in Nat /\ q \in Nat /\ items[i].stock \in Optional(Nat)
  BY <1>3, StoreAssumption DEF ItemRecord
<1>5. Total(i, q) \in Nat /\ wallet[u] \in Nat
  BY <1>2, <1>4 DEF Total, TypeOK, Optional
<1> QED BY <1>1, <1>2, <1>3, <1>4, <1>5 DEF Live, CannotPay, Optional

LEMMA BuyNewType ==
  ASSUME TypeOK, NEW u \in Users, NEW i \in ItemIds, NEW q \in Quantities,
         NEW k \in Keys, BuyNew(u, i, q, k)
  PROVE  TypeOK'
<1> DEFINE id == Len(purchases) + 1
           total == Total(i, q)
<1>1. /\ i \in DOMAIN items /\ items[i] \in ItemRecord
      /\ items[i].stock # None => items[i].stock >= q
      /\ wallet[u] \in Nat /\ q \in Nat /\ total \in Nat /\ wallet[u] >= total
  BY CreatedVerdict DEF BuyNew
<1>2. Len(purchases) \in Nat /\ id \in Nat
  BY LenProperties DEF TypeOK
<1>3. wallet[u] - total \in Nat /\ -total \in Int
  BY <1>1
<1>4. wallet' \in [Users -> Optional(Nat)]
  BY <1>3 DEF TypeOK, BuyNew, Optional
<1>5. items' \in Seq(ItemRecord) /\ Len(items') = Len(items)
  <2> DEFINE sold == [items[i] EXCEPT !.stock = IF @ = None THEN @ ELSE @ - q]
  <2>1. sold \in ItemRecord
    BY <1>1 DEF ItemRecord, Optional
  <2>2. items' = [items EXCEPT ![i] = sold]
    BY DEF BuyNew
  <2> HIDE DEF sold
  <2> QED BY <1>1, <2>1, <2>2, RowWritten DEF TypeOK
<1>6. inventory' \in [Users -> [ItemIds -> Nat]]
  BY <1>1 DEF TypeOK, BuyNew
<1>7. purchases' \in Seq(PurchaseRecord) /\ Len(purchases') = id
  <2> DEFINE row == [user |-> u, item |-> i, quantity |-> q,
                     unitPrice |-> items[i].price, total |-> total,
                     status |-> "completed", key |-> k, createdAt |-> now]
  <2>1. row \in PurchaseRecord
    BY <1>1, StoreAssumption DEF PurchaseRecord, TypeOK, ItemRecord, ItemIds
  <2>2. purchases' = Append(purchases, row)
    BY DEF BuyNew
  <2> HIDE DEF row
  <2> QED BY <2>1, <2>2, RowAppended DEF TypeOK
<1>8. ledger' \in Seq(LedgerRecord)
  <2>1. /\ None \in Optional(Nat) /\ id \in Optional(Nat)
        /\ wallet[u] \in Int /\ wallet[u] - total \in Int
    BY <1>1, <1>2, <1>3 DEF Optional
  <2>2. RecordTransaction(u, "purchase_debit", id, None, -total,
                          wallet[u], wallet[u] - total)
    BY DEF BuyNew
  <2> QED BY <1>3, <2>1, <2>2, RecordTransactionType
<1>9. idempotency' \in [Keys -> Optional(IdempotencyRecord)]
  <2>1. [InProgress(u, i, q) EXCEPT !.status = "completed", !.result = id]
          \in IdempotencyRecord
    BY <1>1, <1>2, StoreAssumption
    DEF InProgress, PayloadOf, IdempotencyRecord, Payload, Optional, ItemIds
  <2> QED BY <2>1 DEF TypeOK, BuyNew, Optional
<1> QED
  BY <1>4, <1>5, <1>6, <1>7, <1>8, <1>9 DEF TypeOK, BuyNew, refundVars

LEMMA BuyReplayType ==
  ASSUME TypeOK, NEW u, NEW i, NEW q, NEW k, BuyReplay(u, i, q, k) PROVE TypeOK'
BY DEF TypeOK, BuyReplay, vars, walletVars, orderVars, refundVars

LEMMA BuyRefusedType ==
  ASSUME TypeOK, NEW u, NEW i, NEW q, NEW k, BuyRefused(u, i, q, k) PROVE TypeOK'
BY DEF TypeOK, BuyRefused, Restored, walletVars, refundVars

\* What holds when the code has decided to refund.
LEMMA RefundableVerdict ==
  ASSUME TypeOK, NEW actor \in Users, NEW p \in PurchaseIds,
         RefundVerdict(actor, p) = "created"
  PROVE  /\ p \in DOMAIN purchases /\ purchases[p] \in PurchaseRecord
         /\ purchases[p].status = "completed"
         /\ refundByPurchase[p] = None
         /\ purchases[p].user \in Users /\ wallet[purchases[p].user] \in Nat
         /\ purchases[p].quantity \in Nat /\ purchases[p].total \in Nat
         /\ RequireInventory => Held(p) >= purchases[p].quantity
         /\ Expired(p) => MayRefundLate(actor)
<1>1. /\ p \in DOMAIN purchases
      /\ purchases[p].status = "completed" /\ refundByPurchase[p] = None
      /\ wallet[purchases[p].user] # None
      /\ ~(RequireInventory /\ Held(p) < purchases[p].quantity)
      /\ ~(Expired(p) /\ ~MayRefundLate(actor))
  BY DEF RefundVerdict
<1>2. purchases[p] \in PurchaseRecord
  BY <1>1, ElementOfSeq, LenProperties DEF TypeOK
<1>3. purchases[p].user \in Users /\ purchases[p].quantity \in Nat
      /\ purchases[p].total \in Nat
  BY <1>2 DEF PurchaseRecord
<1>4. wallet[purchases[p].user] \in Nat
  BY <1>1, <1>3 DEF TypeOK, Optional
<1>5. inventory[purchases[p].user][purchases[p].item] \in Nat
  BY <1>2, <1>3 DEF TypeOK, PurchaseRecord
<1> QED BY <1>1, <1>2, <1>3, <1>4, <1>5 DEF Held

LEMMA RequestRefundType ==
  ASSUME TypeOK, NEW actor \in Users, NEW p \in PurchaseIds,
         RequestRefund(actor, p)
  PROVE  TypeOK'
<1> DEFINE owner == purchases[p].user
           item == purchases[p].item
           id == Len(refunds) + 1
<1>1. /\ p \in DOMAIN purchases /\ purchases[p] \in PurchaseRecord
      /\ owner \in Users /\ wallet[owner] \in Nat /\ item \in ItemIds
      /\ purchases[p].quantity \in Nat /\ Credit(p) \in Nat
  BY RefundableVerdict DEF RequestRefund, Credit, PurchaseRecord
<1>2. Len(refunds) \in Nat /\ id \in Nat /\ p \in Nat
  BY LenProperties, StoreAssumption DEF TypeOK, PurchaseIds
<1>3. wallet' \in [Users -> Optional(Nat)]
  BY <1>1 DEF TypeOK, RequestRefund, Optional
<1>4. inventory' \in [Users -> [ItemIds -> Nat]]
  <2>1. \A a \in Nat : Less(a, purchases[p].quantity) \in Nat
    BY <1>1 DEF Less
  <2>2. inventory[owner] \in [ItemIds -> Nat]
    BY <1>1 DEF TypeOK
  <2>3. Less(inventory[owner][item], purchases[p].quantity) \in Nat
    BY <1>1, <2>1, <2>2
  <2>4. inventory' = [inventory EXCEPT ![owner][item] =
                        Less(inventory[owner][item], purchases[p].quantity)]
    BY DEF RequestRefund
  <2> QED BY <2>2, <2>3, <2>4 DEF TypeOK
<1>5. items' \in Seq(ItemRecord) /\ Len(items') = Len(items)
  <2>1. CASE item \in DOMAIN items
    <3> DEFINE row == [items[item] EXCEPT
                         !.stock = Restocked(item, purchases[p].quantity)]
    <3>1. items[item] \in ItemRecord
      BY <2>1, ItemType
    <3>2. row \in ItemRecord
      BY <1>1, <3>1 DEF ItemRecord, Restocked, Optional
    <3>3. items' = [items EXCEPT ![item] = row]
      BY DEF RequestRefund
    <3> HIDE DEF row
    <3> QED BY <2>1, <3>2, <3>3, RowWritten DEF TypeOK
  <2>2. CASE item \notin DOMAIN items
    <3>1. items' = items
      BY <2>2, LenProperties DEF RequestRefund, TypeOK
    <3> QED BY <3>1 DEF TypeOK
  <2> QED BY <2>1, <2>2
<1>6. purchases' \in Seq(PurchaseRecord) /\ Len(purchases') = Len(purchases)
  <2>1. Settled(p) \in PurchaseRecord
    BY <1>1 DEF Settled, PurchaseRecord
  <2> QED BY <1>1, <2>1, RowWritten DEF TypeOK, RequestRefund
<1>7. refunds' \in Seq(RefundRecord)
  <2>1. [purchase |-> p, user |-> owner, amount |-> Credit(p), createdAt |-> now]
          \in RefundRecord
    BY <1>1, <1>2 DEF RefundRecord, TypeOK
  <2> QED BY <2>1, RowAppended DEF TypeOK, RequestRefund
<1>8. refundByPurchase' \in [PurchaseIds -> Optional(Nat)]
  BY <1>2 DEF TypeOK, RequestRefund, Optional
<1>9. ledger' \in Seq(LedgerRecord)
  <2>1. /\ p \in Optional(Nat) /\ id \in Optional(Nat) /\ Credit(p) \in Int
        /\ wallet[owner] \in Int /\ wallet[owner] + Credit(p) \in Int
    BY <1>1, <1>2 DEF Optional
  <2>2. RecordTransaction(owner, "refund_credit", p, id, Credit(p),
                          wallet[owner], wallet[owner] + Credit(p))
    BY DEF RequestRefund
  <2> QED BY <1>1, <2>1, <2>2, RecordTransactionType
<1> QED
  BY <1>3, <1>4, <1>5, <1>6, <1>7, <1>8, <1>9 DEF TypeOK, RequestRefund

LEMMA TickType == ASSUME TypeOK, Tick PROVE TypeOK'
BY StoreAssumption DEF TypeOK, Tick, Time, walletVars, orderVars, refundVars

LEMMA NextType == TypeOK /\ [Next]_vars => TypeOK'
<1> SUFFICES ASSUME TypeOK, [Next]_vars PROVE TypeOK'
  OBVIOUS
<1>1. CASE UNCHANGED vars
  BY <1>1 DEF TypeOK, vars, walletVars, orderVars, refundVars
<1>2. CASE Next
  BY <1>2, RegisterType, GrantAdminType, TopupType, CreateItemType,
     UpdateItemType, DeleteItemType, ToggleActiveType, BuyNewType,
     BuyReplayType, BuyRefusedType, RequestRefundType, TickType
  DEF Next, Elsewhere, TopupRequest, AdminRequest, RefundRequest, PurchaseRequest
<1> QED BY <1>1, <1>2

\* The store keeps its shape, and no sequence of requests makes a balance or
\* a finite stock negative.
THEOREM TypeCorrect == Spec => []TypeOK
BY InitType, NextType, PTL DEF Spec

-----------------------------------------------------------------------------
(* Orders: keys, purchases and refunds *)

\* Only a purchase and a refund touch the tables of orders.
LEMMA OrderSteps ==
  ASSUME [Next]_vars
  PROVE  \/ /\ UNCHANGED <<purchases, idempotency, refunds, refundByPurchase>>
            /\ UNCHANGED now \/ Tick
         \/ \E u \in Users, i \in ItemIds, q \in Quantities, k \in Keys :
              BuyNew(u, i, q, k)
         \/ \E actor \in Users, p \in PurchaseIds : RequestRefund(actor, p)
BY DEF Next, Elsewhere, TopupRequest, AdminRequest, RefundRequest,
   PurchaseRequest, vars, walletVars, orderVars, refundVars, Register,
   GrantAdmin, Topup, CreateItem, EditItem, UpdateItem, DeleteItem, ToggleActive,
   BuyReplay, BuyRefused, Restored, Tick

\* The row a purchase adds, under the next id.
BoughtRow(u, i, q, k) ==
  [user |-> u, item |-> i, quantity |-> q, unitPrice |-> items[i].price,
   total |-> Total(i, q), status |-> "completed", key |-> k, createdAt |-> now]

LEMMA BuyNewRows ==
  ASSUME TypeOK, NEW u \in Users, NEW i \in ItemIds, NEW q \in Quantities,
         NEW k \in Keys, BuyNew(u, i, q, k)
  PROVE  /\ Len(purchases) \in Nat
         /\ DOMAIN purchases = 1 .. Len(purchases)
         /\ DOMAIN purchases' = 1 .. Len(purchases) + 1
         /\ \A p \in DOMAIN purchases : purchases'[p] = purchases[p]
         /\ purchases'[Len(purchases) + 1] = BoughtRow(u, i, q, k)
         /\ Len(purchases) + 1 \in PurchaseIds
<1> DEFINE row == BoughtRow(u, i, q, k)
<1>1. row \in PurchaseRecord
  BY CreatedVerdict, StoreAssumption
  DEF BuyNew, BoughtRow, PurchaseRecord, TypeOK, ItemRecord
<1>2. purchases' = Append(purchases, row)
  BY DEF BuyNew, BoughtRow
<1>3. Len(purchases) + 1 <= MaxPurchases
  BY DEF BuyNew
<1> HIDE DEF row
<1>4. Len(purchases) \in Nat /\ DOMAIN purchases = 1 .. Len(purchases)
  BY LenProperties DEF TypeOK
<1>5. /\ DOMAIN purchases' = 1 .. Len(purchases) + 1
      /\ \A p \in DOMAIN purchases : purchases'[p] = purchases[p]
      /\ purchases'[Len(purchases) + 1] = row
  BY <1>1, <1>2, RowAppended DEF TypeOK
<1>6. Len(purchases) + 1 \in PurchaseIds
  BY <1>3, <1>4, StoreAssumption DEF PurchaseIds
<1> QED BY <1>4, <1>5, <1>6 DEF row

\* A refund changes the status of one purchase and adds one refund row.
LEMMA RefundRows ==
  ASSUME TypeOK, NEW actor \in Users, NEW p \in PurchaseIds,
         RequestRefund(actor, p)
  PROVE  /\ p \in DOMAIN purchases
         /\ DOMAIN purchases' = DOMAIN purchases
         /\ \A x \in DOMAIN purchases : x # p => purchases'[x] = purchases[x]
         /\ purchases'[p] = [purchases[p] EXCEPT !.status = "refunded"]
         /\ purchases[p].status = "completed" /\ refundByPurchase[p] = None
         /\ Len(refunds) \in Nat
         /\ DOMAIN refunds = 1 .. Len(refunds)
         /\ DOMAIN refunds' = 1 .. Len(refunds) + 1
         /\ \A r \in DOMAIN refunds : refunds'[r] = refunds[r]
         /\ refunds'[Len(refunds) + 1] =
              [purchase |-> p, user |-> purchases[p].user,
               amount |-> purchases[p].total, createdAt |-> now]
<1>1. /\ p \in DOMAIN purchases /\ purchases[p] \in PurchaseRecord
      /\ purchases[p].status = "completed" /\ refundByPurchase[p] = None
  BY RefundableVerdict DEF RequestRefund
<1>2. purchases' = [purchases EXCEPT ![p] =
                      [purchases[p] EXCEPT !.status = "refunded"]]
  BY DEF RequestRefund, Settled
<1>3. DOMAIN purchases' = DOMAIN purchases
  BY <1>2
<1> DEFINE row == [purchase |-> p, user |-> purchases[p].user,
                   amount |-> purchases[p].total, createdAt |-> now]
<1>4. row \in RefundRecord
  BY <1>1, StoreAssumption DEF RefundRecord, PurchaseRecord, TypeOK, PurchaseIds
<1>5. refunds' = Append(refunds, row)
  BY DEF RequestRefund, Credit
<1>6. Len(refunds) \in Nat /\ DOMAIN refunds = 1 .. Len(refunds)
  BY LenProperties DEF TypeOK
<1> HIDE DEF row
<1>7. /\ DOMAIN refunds' = 1 .. Len(refunds) + 1
      /\ \A r \in DOMAIN refunds : refunds'[r] = refunds[r]
      /\ refunds'[Len(refunds) + 1] = row
  BY <1>4, <1>5, RowAppended DEF TypeOK
<1>8. /\ \A x \in DOMAIN purchases : x # p => purchases'[x] = purchases[x]
      /\ purchases'[p] = [purchases[p] EXCEPT !.status = "refunded"]
  BY <1>1, <1>2
<1> QED BY <1>1, <1>3, <1>6, <1>7, <1>8 DEF row

\* Under the invariant a key is free only while it has no record: the branch of
\* the code that would open a failed record again is never taken.
LEMMA FreeKeyIsNew ==
  ASSUME TypeOK, IdempotencyExact, NEW u \in Users, NEW i \in ItemIds,
         NEW q \in Quantities, NEW k \in Keys, BuyNew(u, i, q, k)
  PROVE  idempotency[k] = None
<1>1. KeyVerdict(u, i, q, k) = "free"
  BY CreatedVerdict DEF BuyNew
<1>2. None \notin DOMAIN purchases
  BY LenProperties, NoneAssumption DEF TypeOK
<1> QED BY <1>1, <1>2 DEF KeyVerdict, IdempotencyExact

LEMMA BuyNewKeepsIdempotency ==
  ASSUME TypeOK, IdempotencyExact, NEW u \in Users, NEW i \in ItemIds,
         NEW q \in Quantities, NEW k \in Keys, BuyNew(u, i, q, k)
  PROVE  IdempotencyExact'
<1> DEFINE id == Len(purchases) + 1
           record == [payload |-> PayloadOf(u, i, q), status |-> "completed",
                      result |-> id]
<1>1. idempotency[k] = None
  BY FreeKeyIsNew
<1>2. /\ idempotency'[k] = record
      /\ \A x \in Keys : x # k => idempotency'[x] = idempotency[x]
  BY DEF BuyNew, InProgress, TypeOK
<1>3. record # None
  <2>1. q \in Nat /\ id \in Nat
    BY BuyNewRows, StoreAssumption
  <2>2. record \in IdempotencyRecord
    BY <2>1 DEF PayloadOf, Payload, IdempotencyRecord, Optional
  <2> QED BY <2>2, NoRecordAssumption
<1>4. /\ id \notin DOMAIN purchases /\ DOMAIN purchases' = DOMAIN purchases \cup {id}
      /\ \A p \in DOMAIN purchases : purchases'[p] = purchases[p]
      /\ purchases'[id] = BoughtRow(u, i, q, k)
  <2>1. /\ Len(purchases) \in Nat /\ DOMAIN purchases = 1 .. Len(purchases)
        /\ DOMAIN purchases' = 1 .. id
        /\ \A p \in DOMAIN purchases : purchases'[p] = purchases[p]
        /\ purchases'[id] = BoughtRow(u, i, q, k)
    BY BuyNewRows
  <2> QED BY <2>1
<1>5. ASSUME NEW x \in Keys, idempotency'[x] # None
      PROVE  /\ idempotency'[x].status = "completed"
             /\ idempotency'[x].result \in DOMAIN purchases'
             /\ purchases'[idempotency'[x].result].key = x
  <2>1. CASE x = k
    BY <1>2, <1>4, <2>1 DEF BoughtRow
  <2>2. CASE x # k
    BY <1>2, <1>4, <1>5, <2>2 DEF IdempotencyExact
  <2> QED BY <2>1, <2>2
<1>6. ASSUME NEW p \in DOMAIN purchases'
      PROVE  /\ idempotency'[purchases'[p].key] # None
             /\ idempotency'[purchases'[p].key].result = p
             /\ idempotency'[purchases'[p].key].payload =
                  PayloadOf(purchases'[p].user, purchases'[p].item,
                            purchases'[p].quantity)
  <2>1. CASE p = id
    BY <1>2, <1>3, <1>4, <2>1 DEF BoughtRow
  <2>2. CASE p \in DOMAIN purchases
    <3>1. purchases[p].key # k /\ purchases[p].key \in Keys
      BY <1>1, <2>2, PurchaseType DEF IdempotencyExact, PurchaseRecord
    <3> QED BY <1>2, <1>4, <2>2, <3>1 DEF IdempotencyExact
  <2> QED BY <1>4, <2>1, <2>2
<1> QED BY <1>5, <1>6 DEF IdempotencyExact, PayloadOf

LEMMA RefundKeepsIdempotency ==
  ASSUME TypeOK, IdempotencyExact, NEW actor \in Users, NEW p \in PurchaseIds,
         RequestRefund(actor, p)
  PROVE  IdempotencyExact'
<1>1. idempotency' = idempotency
  BY DEF RequestRefund
<1>2. DOMAIN purchases' = DOMAIN purchases
  BY RefundRows
<1>3. \A x \in DOMAIN purchases :
        /\ purchases'[x].key = purchases[x].key
        /\ purchases'[x].user = purchases[x].user
        /\ purchases'[x].item = purchases[x].item
        /\ purchases'[x].quantity = purchases[x].quantity
  <2>1. purchases'[p] = [purchases[p] EXCEPT !.status = "refunded"]
        /\ p \in DOMAIN purchases
    BY RefundRows
  <2>2. purchases[p] \in PurchaseRecord
    BY <2>1, PurchaseType
  <2>3. \A x \in DOMAIN purchases : x # p => purchases'[x] = purchases[x]
    BY RefundRows
  <2> QED BY <2>1, <2>2, <2>3 DEF PurchaseRecord
<1> QED BY <1>1, <1>2, <1>3 DEF IdempotencyExact, PayloadOf

LEMMA IdempotencyFresh == Fresh => IdempotencyExact
BY DEF Fresh, IdempotencyExact

LEMMA IdempotencyNext ==
  TypeOK /\ IdempotencyExact /\ [Next]_vars => IdempotencyExact'
<1> SUFFICES ASSUME TypeOK, IdempotencyExact, [Next]_vars PROVE IdempotencyExact'
  OBVIOUS
<1>1. CASE UNCHANGED <<purchases, idempotency>>
  BY <1>1 DEF IdempotencyExact, PayloadOf
<1> QED BY <1>1, OrderSteps, BuyNewKeepsIdempotency, RefundKeepsIdempotency

\* Keys and purchases correspond one to one, for any number of users, keys,
\* items and requests.
THEOREM IdempotencyCorrect == Spec => []IdempotencyExact
<1> QED BY InitFresh, IdempotencyFresh, IdempotencyNext, TypeCorrect, PTL DEF Spec

LEMMA ReplayMeaning ==
  TypeOK /\ IdempotencyExact => ReplayNeverRefused
<1> SUFFICES ASSUME TypeOK, IdempotencyExact, NEW p \in DOMAIN purchases
             PROVE  BuyVerdict(purchases[p].user, purchases[p].item,
                               purchases[p].quantity, purchases[p].key)
                      = "replayed"
  BY DEF ReplayNeverRefused
<1>1. purchases[p].key \in Keys
  BY PurchaseType DEF PurchaseRecord
<1>2. p # None
  BY LenProperties, NoneAssumption DEF TypeOK
<1>3. KeyVerdict(purchases[p].user, purchases[p].item, purchases[p].quantity,
                 purchases[p].key) = "replayed"
  BY <1>1, <1>2 DEF KeyVerdict, IdempotencyExact
<1> QED BY <1>3 DEF BuyVerdict

\* The retry of a purchase that went through is always a replay: it follows
\* from the correspondence of keys and purchases alone.
THEOREM ReplayCorrect == Spec => []ReplayNeverRefused
<1> QED BY ReplayMeaning, TypeCorrect, IdempotencyCorrect, PTL

\* After the window only an administrator who may refund late gets a refund.
LEMMA RefundInTime ==
  ASSUME TypeOK, NEW actor \in Users, NEW p \in PurchaseIds,
         RequestRefund(actor, p)
  PROVE  Age(p) <= RefundWindow \/ MayRefundLate(actor)
<1>1. p \in DOMAIN purchases /\ RefundVerdict(actor, p) = "created"
  BY RefundRows DEF RequestRefund
<1>2. ~Expired(p) \/ MayRefundLate(actor)
  BY <1>1 DEF RefundVerdict
<1>3. now \in Int /\ purchases[p].createdAt \in Int /\ RefundWindow \in Int
  <2>1. purchases[p] \in PurchaseRecord
    BY <1>1, PurchaseType
  <2>2. MaxTime \in Nat /\ RefundWindow \in Nat
    BY StoreAssumption
  <2>3. now \in Time
    BY DEF TypeOK
  <2> QED BY <2>1, <2>2, <2>3 DEF PurchaseRecord, Time
<1> QED BY <1>2, <1>3 DEF Expired, Age

\* A purchase is immutable but for its refund, which nobody but an administrator
\* with the permission gets after the window, and the history only grows.
THEOREM HistoryCorrect == Spec => PurchasesFrozen
<1>1. TypeOK /\ [Next]_vars =>
        [\A p \in DOMAIN purchases :
           /\ p \in DOMAIN purchases'
           /\ \/ purchases'[p] = purchases[p]
              \/ /\ purchases[p].status = "completed"
                 /\ purchases'[p] = [purchases[p] EXCEPT !.status = "refunded"]
                 /\ \/ Age(p) <= RefundWindow
                    \/ \E a \in Users : MayRefundLate(a) /\ RequestRefund(a, p)]_vars
  <2> SUFFICES ASSUME TypeOK, [Next]_vars, NEW p \in DOMAIN purchases
               PROVE  /\ p \in DOMAIN purchases'
                      /\ \/ purchases'[p] = purchases[p]
                         \/ /\ purchases[p].status = "completed"
                            /\ purchases'[p] =
                                 [purchases[p] EXCEPT !.status = "refunded"]
                            /\ \/ Age(p) <= RefundWindow
                               \/ \E a \in Users :
                                    MayRefundLate(a) /\ RequestRefund(a, p)
    OBVIOUS
  <2>1. CASE UNCHANGED purchases
    BY <2>1
  <2>2. ASSUME NEW u \in Users, NEW i \in ItemIds, NEW q \in Quantities,
               NEW k \in Keys, BuyNew(u, i, q, k)
        PROVE  p \in DOMAIN purchases' /\ purchases'[p] = purchases[p]
    BY <2>2, BuyNewRows
  <2>3. ASSUME NEW actor \in Users, NEW x \in PurchaseIds, RequestRefund(actor, x)
        PROVE  /\ p \in DOMAIN purchases'
               /\ \/ purchases'[p] = purchases[p]
                  \/ /\ purchases[p].status = "completed"
                     /\ purchases'[p] = [purchases[p] EXCEPT !.status = "refunded"]
                     /\ \/ Age(p) <= RefundWindow
                        \/ \E a \in Users : MayRefundLate(a) /\ RequestRefund(a, p)
    <3>1. CASE p = x
      <4>1. Age(p) <= RefundWindow \/ MayRefundLate(actor)
        BY <2>3, <3>1, RefundInTime
      <4>2. RequestRefund(actor, p)
        BY <2>3, <3>1
      <4>3. /\ p \in DOMAIN purchases'
            /\ purchases[p].status = "completed"
            /\ purchases'[p] = [purchases[p] EXCEPT !.status = "refunded"]
        BY <2>3, <3>1, RefundRows
      <4> QED BY <4>1, <4>2, <4>3
    <3>2. CASE p # x
      BY <2>3, <3>2, RefundRows
    <3> QED BY <3>1, <3>2
  <2> QED BY <2>1, <2>2, <2>3, OrderSteps
<1> QED BY <1>1, TypeCorrect, PTL DEF Spec, PurchasesFrozen

\* A key that was answered with a purchase keeps its record for ever.
THEOREM KeysCorrect == Spec => KeysFrozen
<1>1. TypeOK /\ IdempotencyExact /\ [Next]_vars =>
        [\A k \in Keys : idempotency[k] # None => idempotency'[k] = idempotency[k]]_vars
  <2> SUFFICES ASSUME TypeOK, IdempotencyExact, [Next]_vars, NEW x \in Keys,
                      idempotency[x] # None
               PROVE  idempotency'[x] = idempotency[x]
    OBVIOUS
  <2>1. ASSUME NEW u \in Users, NEW i \in ItemIds, NEW q \in Quantities,
               NEW k \in Keys, BuyNew(u, i, q, k)
        PROVE  idempotency'[x] = idempotency[x]
    <3>1. x # k
      BY <2>1, FreeKeyIsNew
    <3> QED BY <2>1, <3>1 DEF BuyNew, TypeOK
  <2>2. ASSUME NEW actor \in Users, NEW p \in PurchaseIds, RequestRefund(actor, p)
        PROVE  idempotency'[x] = idempotency[x]
    BY <2>2 DEF RequestRefund
  <2> QED BY <2>1, <2>2, OrderSteps
<1> QED BY <1>1, TypeCorrect, IdempotencyCorrect, PTL DEF Spec, KeysFrozen

LEMMA BuyNewKeepsRefunds ==
  ASSUME TypeOK, RefundExact, NEW u \in Users, NEW i \in ItemIds,
         NEW q \in Quantities, NEW k \in Keys, BuyNew(u, i, q, k)
  PROVE  RefundExact'
<1> DEFINE id == Len(purchases) + 1
<1>1. /\ Len(purchases) \in Nat /\ DOMAIN purchases = 1 .. Len(purchases)
      /\ DOMAIN purchases' = 1 .. id
      /\ \A p \in DOMAIN purchases : purchases'[p] = purchases[p]
      /\ purchases'[id] = BoughtRow(u, i, q, k) /\ id \in PurchaseIds
  BY BuyNewRows
<1>2. refunds' = refunds /\ refundByPurchase' = refundByPurchase
  BY DEF BuyNew, refundVars
<1>3. refundByPurchase[id] = None
  BY <1>1 DEF RefundExact
<1>4. ASSUME NEW p \in DOMAIN purchases'
      PROVE  purchases'[p].status = "refunded" <=> refundByPurchase[p] # None
  <2>1. CASE p = id
    BY <1>1, <1>3, <2>1 DEF BoughtRow
  <2>2. CASE p \in DOMAIN purchases
    BY <1>1, <2>2 DEF RefundExact
  <2> QED BY <1>1, <2>1, <2>2
<1>5. \A r \in DOMAIN refunds :
        /\ refunds[r].purchase \in DOMAIN purchases'
        /\ refunds[r].amount = purchases'[refunds[r].purchase].total
        /\ refunds[r].user = purchases'[refunds[r].purchase].user
  BY <1>1 DEF RefundExact
<1> QED BY <1>2, <1>4, <1>5 DEF RefundExact

LEMMA RefundKeepsRefunds ==
  ASSUME TypeOK, RefundExact, NEW actor \in Users, NEW p \in PurchaseIds,
         RequestRefund(actor, p)
  PROVE  RefundExact'
<1> DEFINE id == Len(refunds) + 1
<1>1. /\ p \in DOMAIN purchases /\ DOMAIN purchases' = DOMAIN purchases
      /\ \A x \in DOMAIN purchases : x # p => purchases'[x] = purchases[x]
      /\ purchases'[p] = [purchases[p] EXCEPT !.status = "refunded"]
      /\ refundByPurchase[p] = None
  BY RefundRows
<1>2. /\ Len(refunds) \in Nat /\ DOMAIN refunds = 1 .. Len(refunds)
      /\ DOMAIN refunds' = 1 .. id
      /\ \A r \in DOMAIN refunds : refunds'[r] = refunds[r]
      /\ refunds'[id] = [purchase |-> p, user |-> purchases[p].user,
                         amount |-> purchases[p].total, createdAt |-> now]
  BY RefundRows
<1>3. /\ refundByPurchase'[p] = id
      /\ \A x \in PurchaseIds : x # p => refundByPurchase'[x] = refundByPurchase[x]
  BY DEF RequestRefund, TypeOK
<1>4. DOMAIN purchases \subseteq PurchaseIds
  BY LenProperties, StoreAssumption DEF TypeOK, PurchaseIds
<1>5. purchases[p] \in PurchaseRecord
  BY <1>1, PurchaseType
<1>6. /\ purchases'[p].status = "refunded"
      /\ purchases'[p].total = purchases[p].total
      /\ purchases'[p].user = purchases[p].user
  BY <1>1, <1>5 DEF PurchaseRecord
<1>7. id # None
  BY <1>2, NoneAssumption
<1>7a. DOMAIN refunds' = DOMAIN refunds \cup {id} /\ \A r \in DOMAIN refunds : r \in Int
  BY <1>2
<1>7b. refunds'[id].purchase = p
  BY <1>2
<1> HIDE DEF id
<1>8. ASSUME NEW x \in DOMAIN purchases'
      PROVE  purchases'[x].status = "refunded" <=> refundByPurchase'[x] # None
  <2>1. CASE x = p
    BY <1>3, <1>6, <1>7, <2>1
  <2>2. CASE x # p
    BY <1>1, <1>3, <1>4, <2>2 DEF RefundExact
  <2> QED BY <2>1, <2>2
<1>9. \A x \in PurchaseIds : refundByPurchase'[x] # None =>
        /\ refundByPurchase'[x] \in DOMAIN refunds'
        /\ refunds'[refundByPurchase'[x]].purchase = x
  <2> TAKE x \in PurchaseIds
  <2>1. CASE x = p
    BY <1>3, <1>7a, <1>7b, <2>1
  <2>2. CASE x # p
    <3>1. /\ refundByPurchase'[x] = refundByPurchase[x]
          /\ refundByPurchase[x] # None =>
               /\ refundByPurchase[x] \in DOMAIN refunds
               /\ refunds[refundByPurchase[x]].purchase = x
      BY <1>3, <2>2 DEF RefundExact
    <3> QED BY <1>2, <1>7a, <3>1
  <2> QED BY <2>1, <2>2
<1>10. ASSUME NEW r \in DOMAIN refunds'
       PROVE  /\ refunds'[r].purchase \in DOMAIN purchases'
              /\ refundByPurchase'[refunds'[r].purchase] = r
              /\ refunds'[r].amount = purchases'[refunds'[r].purchase].total
              /\ refunds'[r].user = purchases'[refunds'[r].purchase].user
  <2>1. CASE r = id
    <3>1. /\ refunds'[r].purchase = p
          /\ refunds'[r].user = purchases[p].user
          /\ refunds'[r].amount = purchases[p].total
      BY <1>2, <2>1
    <3> QED BY <1>1, <1>3, <1>6, <2>1, <3>1
  <2>2. CASE r \in DOMAIN refunds
    <3>1. /\ refunds[r].purchase \in DOMAIN purchases
          /\ refundByPurchase[refunds[r].purchase] = r
          /\ refunds[r].amount = purchases[refunds[r].purchase].total
          /\ refunds[r].user = purchases[refunds[r].purchase].user
      BY <2>2 DEF RefundExact
    <3>2. r # None
      BY <1>7a, <2>2, NoneAssumption
    <3>3. refunds[r].purchase # p
      BY <1>1, <3>1, <3>2
    <3>4. refunds[r].purchase \in PurchaseIds
      BY <1>4, <3>1
    <3> QED BY <1>1, <1>2, <1>3, <2>2, <3>1, <3>3, <3>4
  <2> QED BY <1>7a, <2>1, <2>2
<1> QED BY <1>8, <1>9, <1>10 DEF RefundExact

LEMMA RefundFresh == Fresh => RefundExact
BY DEF Fresh, RefundExact

LEMMA RefundNext ==
  TypeOK /\ RefundExact /\ [Next]_vars => RefundExact'
<1> SUFFICES ASSUME TypeOK, RefundExact, [Next]_vars PROVE RefundExact'
  OBVIOUS
<1>1. CASE UNCHANGED <<purchases, refunds, refundByPurchase>>
  BY <1>1 DEF RefundExact
<1> QED BY <1>1, OrderSteps, BuyNewKeepsRefunds, RefundKeepsRefunds

\* One refund at most for each purchase, of its whole amount and to its buyer.
THEOREM RefundCorrect == Spec => []RefundExact
<1> QED BY InitFresh, RefundFresh, RefundNext, TypeCorrect, PTL DEF Spec

-----------------------------------------------------------------------------
(* Money *)

\* The rows of L chain, and their last ones hold the balances W.
Chain(L, W) ==
  /\ \A e \in DOMAIN L : L[e].after = L[e].before + L[e].amount
  /\ \A d, e \in DOMAIN L :
       /\ d < e /\ L[d].user = L[e].user
       /\ \A x \in DOMAIN L : L[x].user = L[e].user => ~(d < x /\ x < e)
       => L[e].before = L[d].after
  /\ \A e \in DOMAIN L :
       (\A d \in DOMAIN L : L[d].user = L[e].user => d >= e) => L[e].before = 0
  /\ \A e \in DOMAIN L :
       (\A d \in DOMAIN L : L[d].user = L[e].user => d <= e)
         => W[L[e].user] = L[e].after

\* The wallets with a row in L exist, the others are at zero, and those of
\* registered users exist.
Opened(L, W, registered) ==
  \A u \in Users :
    /\ (\E e \in DOMAIN L : L[e].user = u) => W[u] # None
    /\ (\A e \in DOMAIN L : L[e].user # u) => W[u] \in {None, 0}
    /\ u \in registered => W[u] # None

\* LedgerChain is not inductive: that a wallet with rows exists, so that
\* get_or_create_wallet does not start it again at zero, has to be carried along.
LedgerInv == Chain(ledger, wallet) /\ Opened(ledger, wallet, Registered)

LEMMA LedgerInvMeaning == LedgerInv => LedgerChain
<1> SUFFICES ASSUME LedgerInv PROVE LedgerChain
  OBVIOUS
<1>1. \A u \in Users :
        /\ EntriesOf(u) = {} => OpenedBalance(u) = 0
        /\ u \in Registered => wallet[u] # None
  BY DEF LedgerInv, Opened, EntriesOf, OpenedBalance
<1>2. Chain(ledger, wallet)
  BY DEF LedgerInv
<1>3. \A d, e \in DOMAIN ledger :
        Consecutive(d, e) => ledger[e].before = ledger[d].after
  BY <1>2 DEF Chain, Consecutive, EntriesOf
<1>4. \A e \in DOMAIN ledger :
        (\A d \in EntriesOf(ledger[e].user) : d >= e) => ledger[e].before = 0
  BY <1>2 DEF Chain, EntriesOf
<1>5. \A e \in DOMAIN ledger :
        (\A d \in EntriesOf(ledger[e].user) : d <= e)
          => wallet[ledger[e].user] = ledger[e].after
  BY <1>2 DEF Chain, EntriesOf
<1>6. \A e \in DOMAIN ledger :
        ledger[e].after = ledger[e].before + ledger[e].amount
  BY <1>2 DEF Chain
<1> QED BY <1>1, <1>3, <1>4, <1>5, <1>6 DEF LedgerChain

\* Appending a row that starts from the balance of its wallet, and writing its
\* `after` to that balance, extends the chains.
LEMMA ChainAppended ==
  ASSUME NEW L \in Seq(LedgerRecord), NEW W, NEW V, NEW row \in LedgerRecord,
         Chain(L, W),
         row.after = row.before + row.amount,
         (\A e \in DOMAIN L : L[e].user # row.user) => row.before = 0,
         (\E e \in DOMAIN L : L[e].user = row.user) => row.before = W[row.user],
         V[row.user] = row.after,
         \A v \in Users : v # row.user => V[v] = W[v]
  PROVE  Chain(Append(L, row), V)
<1> DEFINE n == Len(L) + 1
           M == Append(L, row)
<1>1. /\ n \in Nat /\ DOMAIN M = DOMAIN L \cup {n}
      /\ \A e \in DOMAIN L : e \in Nat /\ e < n /\ M[e] = L[e]
      /\ M[n] = row
  BY RowAppended, LenProperties
<1>2. \A e \in DOMAIN L : L[e].user \in Users
  <2> TAKE e \in DOMAIN L
  <2>1. L[e] \in LedgerRecord
    BY ElementOfSeq, LenProperties
  <2> QED BY <2>1 DEF LedgerRecord
<1> HIDE DEF n, M
<1>3. \A e \in DOMAIN M : M[e].after = M[e].before + M[e].amount
  BY <1>1 DEF Chain
<1>4. ASSUME NEW d \in DOMAIN M, NEW e \in DOMAIN M,
             d < e, M[d].user = M[e].user,
             \A x \in DOMAIN M : M[x].user = M[e].user => ~(d < x /\ x < e)
      PROVE  M[e].before = M[d].after
  <2>1. d \in DOMAIN L
    BY <1>1, <1>4
  <2>2. CASE e \in DOMAIN L
    BY <1>1, <1>4, <2>1, <2>2 DEF Chain
  <2>3. CASE e = n
    <3>1. L[d].user = row.user
      BY <1>1, <1>4, <2>1, <2>3
    <3>2. \A x \in DOMAIN L : L[x].user = L[d].user => x <= d
      BY <1>1, <1>4, <2>1, <2>3, <3>1
    <3>3. W[row.user] = L[d].after
      BY <2>1, <3>1, <3>2 DEF Chain
    <3> QED BY <1>1, <2>1, <2>3, <3>1, <3>3
  <2> QED BY <1>1, <2>2, <2>3
<1>5. ASSUME NEW e \in DOMAIN M,
             \A d \in DOMAIN M : M[d].user = M[e].user => d >= e
      PROVE  M[e].before = 0
  <2>1. CASE e \in DOMAIN L
    BY <1>1, <1>5, <2>1 DEF Chain
  <2>2. CASE e = n
    BY <1>1, <1>5, <2>2
  <2> QED BY <1>1, <2>1, <2>2
<1>6. ASSUME NEW e \in DOMAIN M,
             \A d \in DOMAIN M : M[d].user = M[e].user => d <= e
      PROVE  V[M[e].user] = M[e].after
  <2>1. CASE e \in DOMAIN L
    <3>1. L[e].user # row.user
      BY <1>1, <1>6, <2>1
    <3>2. W[L[e].user] = L[e].after
      BY <1>1, <1>6, <2>1 DEF Chain
    <3> QED BY <1>1, <1>2, <2>1, <3>1, <3>2
  <2>2. CASE e = n
    BY <1>1, <2>2
  <2> QED BY <1>1, <2>1, <2>2
<1>7. Chain(M, V)
  BY <1>3, <1>4, <1>5, <1>6 DEF Chain
<1> QED BY <1>7 DEF M

\* A step that credits or debits u and leaves the row that tells so.
LEMMA ChainExtended ==
  ASSUME TypeOK, LedgerInv, NEW u \in Users, NEW row \in LedgerRecord,
         row.user = u, row.before = OpenedBalance(u),
         row.after = row.before + row.amount,
         ledger' = Append(ledger, row),
         wallet' = [wallet EXCEPT ![u] = row.after],
         row.after \in Nat, role' = role
  PROVE  LedgerInv'
<1>1. Chain(ledger, wallet) /\ Opened(ledger, wallet, Registered)
  BY DEF LedgerInv
<1>2. /\ wallet'[u] = row.after /\ row.after # None
      /\ \A v \in Users : v # u => wallet'[v] = wallet[v]
  BY NoneAssumption DEF TypeOK
<1>3. ledger \in Seq(LedgerRecord)
  BY DEF TypeOK
<1>4. (\A e \in DOMAIN ledger : ledger[e].user # u) => row.before = 0
  BY <1>1 DEF Opened, OpenedBalance
<1>5. (\E e \in DOMAIN ledger : ledger[e].user = u) => row.before = wallet[u]
  BY <1>1 DEF Opened, OpenedBalance
<1>6. Chain(ledger', wallet')
  <2>1. /\ (\A e \in DOMAIN ledger : ledger[e].user # row.user) => row.before = 0
        /\ (\E e \in DOMAIN ledger : ledger[e].user = row.user)
             => row.before = wallet[row.user]
    BY <1>4, <1>5
  <2>2. /\ wallet'[row.user] = row.after
        /\ \A v \in Users : v # row.user => wallet'[v] = wallet[v]
    BY <1>2
  <2> DEFINE V == wallet'
  <2>3. /\ V[row.user] = row.after
        /\ \A v \in Users : v # row.user => V[v] = wallet[v]
    BY <2>2
  <2> HIDE DEF V
  <2>4. Chain(Append(ledger, row), V)
    BY <1>1, <1>3, <2>1, <2>3, ChainAppended, Zenon
  <2> QED BY <2>4 DEF V
<1>7. /\ \A e \in DOMAIN ledger : e \in DOMAIN ledger' /\ ledger'[e] = ledger[e]
      /\ Len(ledger) + 1 \in DOMAIN ledger' /\ ledger'[Len(ledger) + 1] = row
  BY <1>3, RowAppended, LenProperties
<1>8. Registered' = Registered
  BY DEF Registered
<1>9. Opened(ledger', wallet', Registered')
  BY <1>1, <1>2, <1>7, <1>8 DEF Opened
<1> QED BY <1>6, <1>9 DEF LedgerInv

LEMMA RegisterKeepsChain ==
  ASSUME TypeOK, LedgerInv, NEW u \in Users, Register(u) PROVE LedgerInv'
<1>1. Chain(ledger, wallet) /\ Opened(ledger, wallet, Registered)
  BY DEF LedgerInv
<1>2. /\ ledger' = ledger /\ wallet'[u] = OpenedBalance(u)
      /\ \A v \in Users : v # u => wallet'[v] = wallet[v]
      /\ \A v \in Users : v # u => (v \in Registered' <=> v \in Registered)
  BY DEF Register, TypeOK, Registered
<1>3. \A v \in Users : wallet[v] # None => wallet'[v] = wallet[v]
  BY <1>2 DEF OpenedBalance
<1>4. \A e \in DOMAIN ledger :
        ledger[e].user \in Users /\ wallet[ledger[e].user] # None
  <2> TAKE e \in DOMAIN ledger
  <2>1. ledger[e] \in LedgerRecord
    BY ElementOfSeq, LenProperties DEF TypeOK
  <2> QED BY <1>1, <2>1 DEF Opened, LedgerRecord
<1>5. Chain(ledger', wallet')
  BY <1>1, <1>2, <1>3, <1>4 DEF Chain
<1>6. wallet'[u] # None /\ (wallet[u] \in {None, 0} => wallet'[u] = 0)
  BY <1>2, NoneAssumption DEF OpenedBalance
<1>7. Opened(ledger', wallet', Registered')
  BY <1>1, <1>2, <1>6 DEF Opened
<1> QED BY <1>5, <1>7 DEF LedgerInv

\* A step leaves wallets and ledger alone, registers a user, or changes one
\* balance; GrantAdmin is told apart because it changes a role.
LEMMA MoneySteps ==
  ASSUME [Next]_vars
  PROVE  \/ UNCHANGED <<wallet, ledger, role>>
         \/ \E u \in Users : Register(u) \/ GrantAdmin(u)
         \/ \E u \in Users, amount \in Amounts, ref \in ExternalRefs :
              Topup(u, amount, ref)
         \/ \E u \in Users, i \in ItemIds, q \in Quantities, k \in Keys :
              BuyNew(u, i, q, k)
         \/ \E actor \in Users, p \in PurchaseIds : RequestRefund(actor, p)
BY DEF Next, Elsewhere, TopupRequest, AdminRequest, RefundRequest,
   PurchaseRequest, vars, walletVars, CreateItem, EditItem, UpdateItem,
   DeleteItem, ToggleActive, BuyReplay, BuyRefused, Tick

LEMMA TopupKeepsChain ==
  ASSUME TypeOK, LedgerInv, NEW u \in Users, NEW amount \in Amounts,
         NEW ref \in ExternalRefs, Topup(u, amount, ref)
  PROVE  LedgerInv'
<1> DEFINE row == [user |-> u, purchase |-> None, refund |-> None,
                   operation |-> "topup_credit", amount |-> amount,
                   before |-> OpenedBalance(u), after |-> OpenedBalance(u) + amount]
<1>1. OpenedBalance(u) \in Nat /\ amount \in Nat
  BY StoreAssumption DEF TypeOK, OpenedBalance, Optional
<1>2. row \in LedgerRecord /\ row.after \in Nat
  BY <1>1 DEF LedgerRecord, Optional
<1>3. /\ ledger' = Append(ledger, row) /\ role' = role
      /\ wallet' = [wallet EXCEPT ![u] = row.after]
  BY DEF Topup, RecordTransaction
<1> QED BY <1>2, <1>3, ChainExtended

LEMMA BuyNewKeepsChain ==
  ASSUME TypeOK, LedgerInv, NEW u \in Users, NEW i \in ItemIds,
         NEW q \in Quantities, NEW k \in Keys, BuyNew(u, i, q, k)
  PROVE  LedgerInv'
<1> DEFINE total == Total(i, q)
           row == [user |-> u, purchase |-> Len(purchases) + 1, refund |-> None,
                   operation |-> "purchase_debit", amount |-> -total,
                   before |-> wallet[u], after |-> wallet[u] - total]
<1>1. wallet[u] \in Nat /\ total \in Nat /\ wallet[u] >= total
  BY CreatedVerdict DEF BuyNew
<1>2. Len(purchases) + 1 \in Nat
  BY LenProperties DEF TypeOK
<1>3. OpenedBalance(u) = wallet[u]
  BY <1>1, NoneAssumption DEF OpenedBalance
<1>4. /\ ledger' = Append(ledger, row) /\ role' = role
      /\ wallet' = [wallet EXCEPT ![u] = row.after]
  BY DEF BuyNew, RecordTransaction
<1> HIDE DEF total
<1>5. row \in LedgerRecord /\ row.after \in Nat /\ row.after = row.before + row.amount
  BY <1>1, <1>2 DEF LedgerRecord, Optional
<1> QED BY <1>3, <1>4, <1>5, ChainExtended

LEMMA RefundKeepsChain ==
  ASSUME TypeOK, LedgerInv, NEW actor \in Users, NEW p \in PurchaseIds,
         RequestRefund(actor, p)
  PROVE  LedgerInv'
<1> DEFINE owner == purchases[p].user
           row == [user |-> owner, purchase |-> p, refund |-> Len(refunds) + 1,
                   operation |-> "refund_credit", amount |-> Credit(p),
                   before |-> wallet[owner], after |-> wallet[owner] + Credit(p)]
<1>1. owner \in Users /\ wallet[owner] \in Nat /\ Credit(p) \in Nat
  BY RefundableVerdict DEF RequestRefund, Credit
<1>2. Len(refunds) + 1 \in Nat /\ p \in Nat
  BY LenProperties, StoreAssumption DEF TypeOK, PurchaseIds
<1>3. OpenedBalance(owner) = wallet[owner]
  BY <1>1, NoneAssumption DEF OpenedBalance
<1>4. /\ ledger' = Append(ledger, row) /\ role' = role
      /\ wallet' = [wallet EXCEPT ![owner] = row.after]
  BY DEF RequestRefund, RecordTransaction
<1> HIDE DEF owner
<1>5. row \in LedgerRecord /\ row.after \in Nat /\ row.after = row.before + row.amount
  BY <1>1, <1>2 DEF LedgerRecord, Optional
<1> QED BY <1>1, <1>3, <1>4, <1>5, ChainExtended

LEMMA LedgerFresh == Fresh => LedgerInv
BY DEF Fresh, LedgerInv, Chain, Opened, Registered

LEMMA LedgerNext ==
  TypeOK /\ LedgerInv /\ [Next]_vars => LedgerInv'
<1> SUFFICES ASSUME TypeOK, LedgerInv, [Next]_vars PROVE LedgerInv'
  OBVIOUS
<1>1. ASSUME UNCHANGED <<wallet, ledger>>, Registered' = Registered
      PROVE  LedgerInv'
  BY <1>1 DEF LedgerInv
<1>2. CASE UNCHANGED <<wallet, ledger, role>>
  <2>1. Registered' = Registered
    BY <1>2 DEF Registered
  <2> QED BY <1>1, <1>2, <2>1
<1>3. ASSUME NEW u \in Users, GrantAdmin(u) PROVE LedgerInv'
  <2>1. Registered' = Registered
    BY <1>3 DEF GrantAdmin, Registered, TypeOK
  <2> QED BY <1>1, <1>3, <2>1 DEF GrantAdmin, walletVars
<1> QED
  BY <1>2, <1>3, MoneySteps, RegisterKeepsChain, TopupKeepsChain,
     BuyNewKeepsChain, RefundKeepsChain

\* The rows of wallet_transactions chain to the balances, for any number of
\* users, prices and requests.
THEOREM LedgerCorrect == Spec => []LedgerChain
<1> QED BY InitFresh, LedgerFresh, LedgerNext, LedgerInvMeaning, TypeCorrect, PTL
        DEF Spec
=============================================================================
