---------------------------- MODULE SchemaProofs ----------------------------
(***************************************************************************)
(* The data of the store satisfies the rules of the SQL schema, and the    *)
(* ledger covers every top-up, purchase and refund, for every value of the *)
(* constants.                                                              *)
(***************************************************************************)
EXTENDS Schema, ShopProofs

\* What the rules need beside what is proved of Shop: rows refer to rows, and
\* carry the quantities and amounts the request schemas admit.
Owned(u) == u \in Registered /\ Wallet(u)

TopupsSound ==
  \A t \in DOMAIN topups :
    /\ topups[t].amount > 0 /\ Owned(topups[t].user)
    /\ topups[t].ref \in Refs => topupByRef[topups[t].ref] = t

PurchasesSound ==
  \A p \in DOMAIN purchases :
    /\ purchases[p].quantity > 0
    /\ purchases[p].total = purchases[p].quantity * purchases[p].unitPrice
    /\ Owned(purchases[p].user) /\ Item(purchases[p].item)

InventorySound ==
  \A u \in Users, i \in ItemIds : inventory[u][i] # 0 => Owned(u) /\ Item(i)

WalletsOwned == \A u \in Users : Wallet(u) => u \in Registered

RowsSound == TopupsSound /\ PurchasesSound /\ InventorySound /\ WalletsOwned

-----------------------------------------------------------------------------
(* Each step keeps them *)

\* Users, wallets and items that rows refer to never go away.
Stays ==
  /\ \A u \in Users : u \in Registered /\ wallet[u] # None
                        => u \in Registered' /\ wallet'[u] # None
  /\ DOMAIN items \subseteq DOMAIN items'

LEMMA StaysKeeps ==
  ASSUME TypeOK, RowsSound, Stays
  PROVE  /\ UNCHANGED <<topups, topupByRef>> => TopupsSound'
         /\ UNCHANGED purchases => PurchasesSound'
         /\ UNCHANGED inventory => InventorySound'
<1>1. ASSUME UNCHANGED <<topups, topupByRef>> PROVE TopupsSound'
  <2>1. \A t \in DOMAIN topups : topups[t].user \in Users
    <3>1. \A t \in DOMAIN topups : topups[t] \in TopupRecord
      BY <1>1, ElementOfSeq, LenProperties DEF TypeOK
    <3> QED BY <3>1 DEF TopupRecord
  <2> QED BY <1>1, <2>1 DEF RowsSound, TopupsSound, Stays, Owned, Wallet
<1>2. ASSUME UNCHANGED purchases PROVE PurchasesSound'
  <2>1. \A p \in DOMAIN purchases : purchases[p].user \in Users
    BY PurchaseType DEF PurchaseRecord
  <2> QED BY <1>2, <2>1 DEF RowsSound, PurchasesSound, Stays, Item, Owned, Wallet
<1>3. ASSUME UNCHANGED inventory PROVE InventorySound'
  BY <1>3 DEF RowsSound, InventorySound, Stays, Item, Owned, Wallet
<1> QED BY <1>1, <1>2, <1>3

LEMMA TopupKeepsRows ==
  ASSUME TypeOK, RowsSound, NEW u \in Users, NEW amount \in Amounts,
         NEW ref \in ExternalRefs, Topup(u, amount, ref)
  PROVE  RowsSound'
<1> DEFINE row == [user |-> u, amount |-> amount, ref |-> ref]
           id == Len(topups) + 1
<1>1. row \in TopupRecord /\ amount > 0
  BY StoreAssumption DEF TopupRecord
<1>2. OpenedBalance(u) + amount \in Nat
  BY StoreAssumption DEF TypeOK, OpenedBalance, Optional
<1>3. Stays /\ u \in Registered' /\ wallet'[u] # None /\ WalletsOwned'
  BY <1>2, NoneAssumption
  DEF Topup, TypeOK, Stays, Owned, Wallet, Registered, RowsSound, WalletsOwned
<1>4. /\ Len(topups) \in Nat /\ DOMAIN topups = 1 .. Len(topups)
      /\ DOMAIN topups' = 1 .. id /\ topups'[id] = row
      /\ \A t \in DOMAIN topups : topups'[t] = topups[t]
  <2>1. topups' = Append(topups, row)
    BY DEF Topup
  <2> HIDE DEF row
  <2> QED BY <1>1, <2>1, RowAppended, LenProperties DEF TypeOK
<1>5. \A t \in DOMAIN topups : topups[t] \in TopupRecord
  BY ElementOfSeq, LenProperties DEF TypeOK
<1>6. TopupsSound'
  <2> SUFFICES ASSUME NEW t \in DOMAIN topups'
               PROVE  /\ topups'[t].amount > 0
                      /\ topups'[t].user \in Registered'
                      /\ wallet'[topups'[t].user] # None
                      /\ topups'[t].ref \in Refs => topupByRef'[topups'[t].ref] = t
    BY DEF TopupsSound, Owned, Wallet
  <2>1. CASE t = id
    <3>1. topups'[t].amount = amount /\ topups'[t].user = u /\ topups'[t].ref = ref
      BY <1>4, <2>1
    <3>2. ref \in Refs => topupByRef'[ref] = t
      BY <2>1 DEF Topup
    <3> QED BY <1>1, <1>3, <3>1, <3>2
  <2>2. CASE t # id
    <3>1. t \in DOMAIN topups /\ topups'[t] = topups[t] /\ topups[t] \in TopupRecord
      BY <1>4, <1>5, <2>2
    <3>2. /\ topups[t].amount > 0 /\ topups[t].user \in Registered'
          /\ wallet'[topups[t].user] # None
      BY <1>3, <3>1 DEF RowsSound, TopupsSound, Stays, TopupRecord, Owned, Wallet
    <3>3. topups[t].ref \in Refs => topups[t].ref # ref
      BY <3>1, NoneAssumption, <1>4
      DEF RowsSound, TopupsSound, Topup, RefTaken
    <3>4. topups[t].ref \in Refs => topupByRef'[topups[t].ref] = t
      BY <3>1, <3>3 DEF RowsSound, TopupsSound, Topup, TopupRecord
    <3> QED BY <3>1, <3>2, <3>4
  <2> QED BY <2>1, <2>2
<1> QED BY <1>3, <1>6, StaysKeeps DEF Topup, orderVars, RowsSound

LEMMA BuyNewKeepsRows ==
  ASSUME TypeOK, RowsSound, NEW u \in Users, NEW i \in ItemIds,
         NEW q \in Quantities, NEW k \in Keys, BuyNew(u, i, q, k)
  PROVE  RowsSound'
<1>1. /\ i \in DOMAIN items /\ items[i] \in ItemRecord
      /\ wallet[u] \in Nat /\ Total(i, q) \in Nat /\ wallet[u] >= Total(i, q)
  BY CreatedVerdict DEF BuyNew
<1>2. items[i].price \in Nat /\ q \in Nat /\ q > 0
  BY <1>1, StoreAssumption DEF ItemRecord
<1>3. Owned(u) /\ Stays /\ WalletsOwned'
  BY <1>1, NoneAssumption
  DEF BuyNew, TypeOK, Stays, Owned, Wallet, Registered, RowsSound, WalletsOwned
<1>4. PurchasesSound'
  <2> SUFFICES ASSUME NEW p \in DOMAIN purchases'
               PROVE  /\ purchases'[p].quantity > 0
                      /\ purchases'[p].total =
                           purchases'[p].quantity * purchases'[p].unitPrice
                      /\ purchases'[p].user \in Registered'
                      /\ wallet'[purchases'[p].user] # None
                      /\ purchases'[p].item \in DOMAIN items'
    BY DEF PurchasesSound, Owned, Wallet, Item
  <2>1. CASE p = Len(purchases) + 1
    <3>1. purchases'[p] = BoughtRow(u, i, q, k)
      BY <2>1, BuyNewRows
    <3>2. Total(i, q) = q * items[i].price
      BY <1>2 DEF Total
    <3> QED BY <1>1, <1>2, <1>3, <3>1, <3>2 DEF BoughtRow, Stays, Owned, Wallet
  <2>2. CASE p # Len(purchases) + 1
    <3>1. p \in DOMAIN purchases /\ purchases'[p] = purchases[p]
      BY <2>2, BuyNewRows
    <3>2. purchases[p].user \in Users
      BY <3>1, PurchaseType DEF PurchaseRecord
    <3> QED BY <1>3, <3>1, <3>2 DEF RowsSound, PurchasesSound, Stays, Item, Owned, Wallet
  <2> QED BY <2>1, <2>2
<1>5. InventorySound'
  BY <1>1, <1>3 DEF BuyNew, TypeOK, RowsSound, InventorySound, Stays, Item, Owned, Wallet
<1> QED BY <1>3, <1>4, <1>5, StaysKeeps DEF BuyNew, RowsSound

LEMMA RefundKeepsRows ==
  ASSUME TypeOK, RowsSound, NEW actor \in Users, NEW p \in PurchaseIds,
         RequestRefund(actor, p)
  PROVE  RowsSound'
<1> DEFINE u == purchases[p].user
           i == purchases[p].item
<1>1. /\ p \in DOMAIN purchases /\ purchases[p] \in PurchaseRecord
      /\ u \in Users /\ wallet[u] \in Nat /\ purchases[p].total \in Nat
      /\ purchases[p].quantity \in Nat /\ i \in ItemIds
  BY RefundableVerdict DEF RequestRefund, PurchaseRecord
<1>2. Stays /\ WalletsOwned'
  BY <1>1, NoneAssumption
  DEF RequestRefund, Credit, TypeOK, Stays, Owned, Wallet, Registered, RowsSound,
      WalletsOwned
<1>3. PurchasesSound'
  <2> SUFFICES ASSUME NEW x \in DOMAIN purchases'
               PROVE  /\ purchases'[x].quantity > 0
                      /\ purchases'[x].total =
                           purchases'[x].quantity * purchases'[x].unitPrice
                      /\ purchases'[x].user \in Registered'
                      /\ wallet'[purchases'[x].user] # None
                      /\ purchases'[x].item \in DOMAIN items'
    BY DEF PurchasesSound, Owned, Wallet, Item
  <2>1. /\ x \in DOMAIN purchases /\ purchases[x] \in PurchaseRecord
        /\ purchases'[x].quantity = purchases[x].quantity
        /\ purchases'[x].total = purchases[x].total
        /\ purchases'[x].unitPrice = purchases[x].unitPrice
        /\ purchases'[x].user = purchases[x].user
        /\ purchases'[x].item = purchases[x].item
    <3>1. /\ x \in DOMAIN purchases
          /\ purchases'[x] \in {purchases[x],
                                [purchases[x] EXCEPT !.status = "refunded"]}
      BY RefundRows
    <3>2. purchases[x] \in PurchaseRecord
      BY <3>1, PurchaseType
    <3> QED BY <3>1, <3>2 DEF PurchaseRecord
  <2>2. purchases[x].user \in Users
    BY <2>1 DEF PurchaseRecord
  <2> QED BY <1>2, <2>1, <2>2 DEF RowsSound, PurchasesSound, Stays, Item, Owned, Wallet
<1>4. InventorySound'
  <2>1. Owned(u) /\ Item(i)
    BY <1>1 DEF RowsSound, PurchasesSound
  <2>2. PICK n : inventory' = [inventory EXCEPT ![u][i] = n]
    BY DEF RequestRefund
  <2> QED BY <1>1, <1>2, <2>1, <2>2
      DEF TypeOK, RowsSound, InventorySound, Stays, Item, Owned, Wallet
<1> QED BY <1>2, <1>3, <1>4, StaysKeeps DEF RequestRefund, RowsSound

\* Every other step leaves the rows alone, and what they refer to.
LEMMA OthersKeepRows ==
  ASSUME TypeOK, RowsSound,
         \/ \E u \in Users : Register(u) \/ GrantAdmin(u)
         \/ AdminRequest \/ Tick \/ UNCHANGED vars
         \/ \E u \in Users, i \in ItemIds, q \in Quantities, k \in Keys :
              BuyReplay(u, i, q, k) \/ BuyRefused(u, i, q, k)
  PROVE  RowsSound'
<1>1. CASE \E u \in Users : Register(u) \/ GrantAdmin(u)
  <2>1. PICK u \in Users : Register(u) \/ GrantAdmin(u)
    BY <1>1
  <2>2. OpenedBalance(u) \in Nat
    BY DEF TypeOK, OpenedBalance, Optional
  <2>3. Stays /\ WalletsOwned'
    BY <2>1, <2>2, NoneAssumption
    DEF Register, GrantAdmin, walletVars, TypeOK, Stays, Owned, Wallet, Registered,
        RowsSound, WalletsOwned
  <2> QED BY <2>1, <2>3, StaysKeeps
      DEF Register, GrantAdmin, walletVars, orderVars, RowsSound
<1>2. CASE AdminRequest
  <2>1. /\ UNCHANGED <<role, walletVars, orderVars>>
        /\ DOMAIN items \subseteq DOMAIN items'
    <3>1. \A a, i, edited : EditItem(a, i, edited) =>
            UNCHANGED <<role, walletVars, orderVars>> /\ DOMAIN items' = DOMAIN items
      BY DEF EditItem
    <3>2. ASSUME NEW a \in Users, NEW sku \in Skus, NEW price \in Prices,
                 NEW stock \in Optional(Stocks), CreateItem(a, sku, price, stock)
          PROVE  /\ UNCHANGED <<role, walletVars, orderVars>>
                 /\ DOMAIN items \subseteq DOMAIN items'
      <4>1. NewItem(sku, price, stock) \in ItemRecord
        BY StoreAssumption DEF NewItem, ItemRecord, Optional
      <4>2. /\ DOMAIN items = 1 .. Len(items) /\ Len(items) \in Nat
            /\ DOMAIN items' = 1 .. Len(items) + 1
        BY <3>2, <4>1, RowAppended, LenProperties DEF TypeOK, CreateItem
      <4> QED BY <3>2, <4>2 DEF CreateItem
    <3> QED BY <1>2, <3>1, <3>2
        DEF AdminRequest, UpdateItem, DeleteItem, ToggleActive
  <2>2. Stays /\ WalletsOwned'
    BY <2>1 DEF walletVars, Stays, Owned, Wallet, Registered, RowsSound, WalletsOwned
  <2> QED BY <2>1, <2>2, StaysKeeps DEF walletVars, orderVars, RowsSound
<1>3. ASSUME UNCHANGED <<role, walletVars, purchases, inventory, items>>
      PROVE  RowsSound'
  <2>1. Stays /\ WalletsOwned'
    BY <1>3 DEF walletVars, Stays, Owned, Wallet, Registered, RowsSound, WalletsOwned
  <2> QED BY <1>3, <2>1, StaysKeeps DEF walletVars, RowsSound
<1>4. CASE \/ Tick \/ UNCHANGED vars
           \/ \E u \in Users, i \in ItemIds, q \in Quantities, k \in Keys :
                BuyReplay(u, i, q, k) \/ BuyRefused(u, i, q, k)
  <2>1. UNCHANGED <<role, walletVars, purchases, inventory, items>>
    BY <1>4 DEF Tick, BuyReplay, BuyRefused, vars, orderVars
  <2> QED BY <1>3, <2>1
<1> QED BY <1>1, <1>2, <1>4

LEMMA RowsFresh == Fresh => RowsSound
BY DEF Fresh, RowsSound, TopupsSound, PurchasesSound, InventorySound, WalletsOwned,
       Wallet

LEMMA RowsNext ==
  TypeOK /\ RowsSound /\ [Next]_vars => RowsSound'
BY TopupKeepsRows, BuyNewKeepsRows, RefundKeepsRows, OthersKeepRows
DEF Next, Elsewhere, TopupRequest, RefundRequest, PurchaseRequest

LEMMA RowsCorrect == Spec => []RowsSound
<1> QED BY InitFresh, RowsFresh, RowsNext, TypeCorrect, PTL DEF Spec

-----------------------------------------------------------------------------
LEMMA SchemaMeaning ==
  ASSUME TypeOK, RowsSound, IdempotencyExact, RefundExact PROVE SchemaKept
<1>1. WalletRules
  BY DEF TypeOK, RowsSound, WalletsOwned, WalletRules, Wallet, Optional
<1>2. ItemRules
  <2>1. \A i \in DOMAIN items : items[i].price \in Nat
                                /\ items[i].stock \in Optional(Nat)
    BY ItemType DEF ItemRecord
  <2> QED BY <2>1 DEF ItemRules, Optional
<1>3. PurchaseRules
  <2>1. \A p \in DOMAIN purchases : purchases[p].unitPrice \in Nat
    BY PurchaseType DEF PurchaseRecord
  <2>2. Distinct(purchases, LAMBDA row : row.key)
    BY DEF Distinct, IdempotencyExact
  <2> QED BY <2>1, <2>2 DEF RowsSound, PurchasesSound, Owned, PurchaseRules
<1>4. InventoryRules
  BY DEF TypeOK, RowsSound, InventorySound, Owned, InventoryRules
<1>5. TopupRules
  BY DEF RowsSound, TopupsSound, Owned, TopupRules
<1>6. RefundRules
  <2>1. \A r \in DOMAIN refunds : ValidRefund(refunds[r]) /\ Wallet(refunds[r].user)
    BY DEF RefundExact, ValidRefund, RowsSound, PurchasesSound, Owned
  <2>2. Distinct(refunds, LAMBDA row : row.purchase)
    BY DEF Distinct, RefundExact
  <2> QED BY <2>1, <2>2 DEF RefundRules
<1> QED BY <1>1, <1>2, <1>3, <1>4, <1>5, <1>6 DEF SchemaKept

\* The rules of the schema hold after any history of requests: those about one
\* table by TypeOK and RowsSound, those about keys by IdempotencyExact, those
\* about refunds by RefundExact.
THEOREM SchemaCorrect == Spec => []SchemaKept
<1> QED BY SchemaMeaning, TypeCorrect, RowsCorrect, IdempotencyCorrect, RefundCorrect,
           PTL

-----------------------------------------------------------------------------
(* The ledger *)

\* What LedgerCovers asks of the row of a purchase, and of a refund.
PurchaseEntry(row, p, purchase) ==
  /\ row.operation = "purchase_debit" /\ row.purchase = p
  /\ row.user = purchase.user /\ row.amount = -purchase.total

RefundEntry(row, r, refund) ==
  /\ row.operation = "refund_credit" /\ row.refund = r
  /\ row.user = refund.user /\ row.amount = refund.amount

\* The indices of a sequence determine its length.
LEMMA LenOfDomain ==
  ASSUME NEW S, NEW s \in Seq(S), NEW n \in Nat, DOMAIN s = 1 .. n
  PROVE  Len(s) = n
<1>1. \A m \in Nat : 1 .. m = 1 .. n => m = n
  <2> SUFFICES ASSUME NEW m \in Nat, 1 .. m = 1 .. n PROVE m = n
    OBVIOUS
  <2>1. m > 0 => m \in 1 .. n
    BY SMT
  <2>2. n > 0 => n \in 1 .. m
    BY SMT
  <2> QED BY <2>1, <2>2, SMT
<1>2. Len(s) \in Nat /\ 1 .. Len(s) = 1 .. n
  BY LenProperties
<1> QED BY <1>1, <1>2

\* A ledger row is added under the next id.
LEMMA EntryAdded ==
  ASSUME TypeOK, NEW row \in LedgerRecord, ledger' = Append(ledger, row)
  PROVE  /\ Len(ledger) \in Nat /\ Len(ledger') = Len(ledger) + 1
         /\ DOMAIN ledger' = DOMAIN ledger \cup {Len(ledger) + 1}
         /\ \A e \in DOMAIN ledger : ledger'[e] = ledger[e]
         /\ ledger'[Len(ledger) + 1] = row
<1>1. /\ Len(ledger) \in Nat /\ DOMAIN ledger = 1 .. Len(ledger)
      /\ Len(ledger') = Len(ledger) + 1 /\ DOMAIN ledger' = 1 .. Len(ledger) + 1
      /\ \A e \in DOMAIN ledger : ledger'[e] = ledger[e]
      /\ ledger'[Len(ledger) + 1] = row
  BY RowAppended, LenProperties DEF TypeOK
<1> QED BY <1>1

\* Rows that stay what they were are covered by the entries they had.
LEMMA CoverStays ==
  ASSUME TypeOK, LedgerCovers, DOMAIN ledger \subseteq DOMAIN ledger',
         \A e \in DOMAIN ledger : ledger'[e] = ledger[e]
  PROVE  /\ \A p \in DOMAIN purchases :
              purchases'[p].user = purchases[p].user
              /\ purchases'[p].total = purchases[p].total
                => \E e \in DOMAIN ledger' : PurchaseEntry(ledger'[e], p, purchases'[p])
         /\ \A r \in DOMAIN refunds :
              refunds'[r] = refunds[r] =>
                \E e \in DOMAIN ledger' : RefundEntry(ledger'[e], r, refunds'[r])
BY DEF LedgerCovers, PurchaseEntry, RefundEntry

LEMMA TopupCovered ==
  ASSUME TypeOK, LedgerCovers, NEW u \in Users, NEW amount \in Amounts,
         NEW ref \in ExternalRefs, Topup(u, amount, ref)
  PROVE  LedgerCovers'
<1> DEFINE row == [user |-> u, purchase |-> None, refund |-> None,
                   operation |-> "topup_credit", amount |-> amount,
                   before |-> OpenedBalance(u), after |-> OpenedBalance(u) + amount]
           top == [user |-> u, amount |-> amount, ref |-> ref]
<1>1. row \in LedgerRecord /\ top \in TopupRecord
  <2>1. OpenedBalance(u) \in Nat /\ amount \in Nat
    BY StoreAssumption DEF TypeOK, OpenedBalance, Optional
  <2> QED BY <2>1 DEF LedgerRecord, TopupRecord, Optional
<1>2. ledger' = Append(ledger, row) /\ topups' = Append(topups, top)
      /\ purchases' = purchases /\ refunds' = refunds
  BY DEF Topup, RecordTransaction, orderVars, refundVars
<1> HIDE DEF row, top
<1>3. Len(topups') = Len(topups) + 1 /\ Len(topups) \in Nat
  BY <1>1, <1>2, RowAppended, LenProperties DEF TypeOK
<1>4. Len(purchases) \in Nat /\ Len(refunds) \in Nat
  BY LenProperties DEF TypeOK
<1>5. Len(ledger') = Len(topups') + Len(purchases') + Len(refunds')
  BY <1>1, <1>2, <1>3, <1>4, EntryAdded DEF LedgerCovers
<1>6. /\ \A p \in DOMAIN purchases' : \E e \in DOMAIN ledger' :
           PurchaseEntry(ledger'[e], p, purchases'[p])
      /\ \A r \in DOMAIN refunds' : \E e \in DOMAIN ledger' :
           RefundEntry(ledger'[e], r, refunds'[r])
  BY <1>1, <1>2, EntryAdded, CoverStays
<1> QED BY <1>5, <1>6 DEF LedgerCovers, PurchaseEntry, RefundEntry

LEMMA BuyNewCovered ==
  ASSUME TypeOK, LedgerCovers, NEW u \in Users, NEW i \in ItemIds,
         NEW q \in Quantities, NEW k \in Keys, BuyNew(u, i, q, k)
  PROVE  LedgerCovers'
<1> DEFINE id == Len(purchases) + 1
           row == [user |-> u, purchase |-> id, refund |-> None,
                   operation |-> "purchase_debit", amount |-> -Total(i, q),
                   before |-> wallet[u], after |-> wallet[u] - Total(i, q)]
<1>1. row \in LedgerRecord
  <2>1. wallet[u] \in Nat /\ Total(i, q) \in Nat
    BY CreatedVerdict DEF BuyNew
  <2>2. id \in Nat
    BY LenProperties DEF TypeOK
  <2> HIDE DEF id
  <2> QED BY <2>1, <2>2 DEF LedgerRecord, Optional
<1>2. ledger' = Append(ledger, row) /\ topups' = topups /\ refunds' = refunds
  BY DEF BuyNew, RecordTransaction, refundVars
<1>3. /\ row.operation = "purchase_debit" /\ row.purchase = id /\ row.user = u
      /\ row.amount = -Total(i, q)
  OBVIOUS
<1> HIDE DEF row
<1>4. /\ DOMAIN purchases' = DOMAIN purchases \cup {id}
      /\ \A p \in DOMAIN purchases : purchases'[p] = purchases[p]
      /\ purchases'[id].user = u /\ purchases'[id].total = Total(i, q)
      /\ Len(purchases) \in Nat
  <2>1. /\ DOMAIN purchases = 1 .. Len(purchases) /\ Len(purchases) \in Nat
        /\ DOMAIN purchases' = 1 .. id
        /\ \A p \in DOMAIN purchases : purchases'[p] = purchases[p]
        /\ purchases'[id] = BoughtRow(u, i, q, k)
    BY BuyNewRows
  <2> QED BY <2>1 DEF BoughtRow
<1>5. Len(purchases') = Len(purchases) + 1
  <2>1. purchases' \in Seq(PurchaseRecord)
    BY BuyNewType DEF TypeOK
  <2>2. DOMAIN purchases' = 1 .. Len(purchases) + 1 /\ Len(purchases) + 1 \in Nat
    BY BuyNewRows
  <2> QED BY <2>1, <2>2, LenOfDomain
<1>6. Len(topups) \in Nat /\ Len(refunds) \in Nat
  BY LenProperties DEF TypeOK
<1>7. Len(ledger') = Len(topups') + Len(purchases') + Len(refunds')
  BY <1>1, <1>2, <1>4, <1>5, <1>6, EntryAdded DEF LedgerCovers
<1>8. \E e \in DOMAIN ledger' : PurchaseEntry(ledger'[e], id, purchases'[id])
  <2>1. Len(ledger) + 1 \in DOMAIN ledger' /\ ledger'[Len(ledger) + 1] = row
    BY <1>1, <1>2, EntryAdded
  <2> HIDE DEF id
  <2> QED BY <1>3, <1>4, <2>1 DEF PurchaseEntry
<1> HIDE DEF id
<1>9. /\ \A p \in DOMAIN purchases' : \E e \in DOMAIN ledger' :
           PurchaseEntry(ledger'[e], p, purchases'[p])
      /\ \A r \in DOMAIN refunds' : \E e \in DOMAIN ledger' :
           RefundEntry(ledger'[e], r, refunds'[r])
  BY <1>1, <1>2, <1>4, <1>8, EntryAdded, CoverStays
<1> QED BY <1>7, <1>9 DEF LedgerCovers, PurchaseEntry, RefundEntry

LEMMA RefundCovered ==
  ASSUME TypeOK, LedgerCovers, NEW actor \in Users, NEW p \in PurchaseIds,
         RequestRefund(actor, p)
  PROVE  LedgerCovers'
<1> DEFINE id == Len(refunds) + 1
           u == purchases[p].user
           row == [user |-> u, purchase |-> p, refund |-> id,
                   operation |-> "refund_credit", amount |-> Credit(p),
                   before |-> wallet[u], after |-> wallet[u] + Credit(p)]
<1>1. row \in LedgerRecord
  <2>1. u \in Users /\ wallet[u] \in Nat /\ Credit(p) \in Nat
    BY RefundableVerdict DEF RequestRefund, Credit
  <2>2. id \in Nat /\ p \in Nat
    BY LenProperties, StoreAssumption DEF TypeOK, PurchaseIds
  <2> HIDE DEF id, u
  <2> QED BY <2>1, <2>2 DEF LedgerRecord, Optional
<1>2. ledger' = Append(ledger, row) /\ topups' = topups
  BY DEF RequestRefund, RecordTransaction
<1>3. /\ row.operation = "refund_credit" /\ row.refund = id /\ row.user = u
      /\ row.amount = purchases[p].total
  BY DEF Credit
<1> HIDE DEF row
<1>4. /\ DOMAIN refunds' = DOMAIN refunds \cup {id}
      /\ \A r \in DOMAIN refunds : refunds'[r] = refunds[r]
      /\ refunds'[id].user = u /\ refunds'[id].amount = purchases[p].total
      /\ Len(refunds) \in Nat
  <2>1. /\ DOMAIN refunds = 1 .. Len(refunds) /\ Len(refunds) \in Nat
        /\ DOMAIN refunds' = 1 .. id
        /\ \A r \in DOMAIN refunds : refunds'[r] = refunds[r]
    BY RefundRows
  <2>2. refunds'[id].user = u /\ refunds'[id].amount = purchases[p].total
    <3>1. refunds'[Len(refunds) + 1] =
            [purchase |-> p, user |-> purchases[p].user,
             amount |-> purchases[p].total, createdAt |-> now]
      BY RefundRows, Zenon
    <3> QED BY <3>1
  <2>3. DOMAIN refunds' = DOMAIN refunds \cup {id}
    BY <2>1
  <2> QED BY <2>1, <2>2, <2>3
<1>5. Len(refunds') = Len(refunds) + 1 /\ Len(purchases') = Len(purchases)
  <2>1. refunds' \in Seq(RefundRecord) /\ purchases' \in Seq(PurchaseRecord)
    BY RequestRefundType DEF TypeOK
  <2>2. DOMAIN refunds' = 1 .. Len(refunds) + 1 /\ Len(refunds) + 1 \in Nat
    <3>1. DOMAIN refunds' = 1 .. Len(refunds) + 1
      BY RefundRows, Zenon
    <3>2. Len(refunds) + 1 \in Nat
      BY <1>4
    <3> QED BY <3>1, <3>2
  <2>3. DOMAIN purchases' = 1 .. Len(purchases) /\ Len(purchases) \in Nat
    BY RefundRows, LenProperties DEF TypeOK
  <2>4. Len(refunds') = Len(refunds) + 1
    BY <2>1, <2>2, LenOfDomain
  <2>5. Len(purchases') = Len(purchases)
    BY <2>1, <2>3, LenOfDomain
  <2> QED BY <2>4, <2>5
<1>6. Len(topups) \in Nat /\ Len(purchases) \in Nat
  BY LenProperties DEF TypeOK
<1>7. Len(ledger') = Len(topups') + Len(purchases') + Len(refunds')
  BY <1>1, <1>2, <1>4, <1>5, <1>6, EntryAdded DEF LedgerCovers
<1>8. \E e \in DOMAIN ledger' : RefundEntry(ledger'[e], id, refunds'[id])
  <2>1. Len(ledger) + 1 \in DOMAIN ledger' /\ ledger'[Len(ledger) + 1] = row
    BY <1>1, <1>2, EntryAdded
  <2> HIDE DEF id, u
  <2> QED BY <1>3, <1>4, <2>1 DEF RefundEntry
<1>9. /\ DOMAIN purchases' = DOMAIN purchases
      /\ \A x \in DOMAIN purchases : /\ purchases'[x].user = purchases[x].user
                                      /\ purchases'[x].total = purchases[x].total
  <2>1. /\ DOMAIN purchases' = DOMAIN purchases
        /\ \A x \in DOMAIN purchases :
             purchases'[x] \in {purchases[x],
                                [purchases[x] EXCEPT !.status = "refunded"]}
    BY RefundRows
  <2>2. \A x \in DOMAIN purchases : purchases[x] \in PurchaseRecord
    BY PurchaseType
  <2> QED BY <2>1, <2>2 DEF PurchaseRecord
<1> HIDE DEF id, u
<1>10. /\ \A x \in DOMAIN purchases' : \E e \in DOMAIN ledger' :
            PurchaseEntry(ledger'[e], x, purchases'[x])
       /\ \A r \in DOMAIN refunds' : \E e \in DOMAIN ledger' :
            RefundEntry(ledger'[e], r, refunds'[r])
  BY <1>1, <1>2, <1>4, <1>8, <1>9, EntryAdded, CoverStays
<1> QED BY <1>7, <1>10 DEF LedgerCovers, PurchaseEntry, RefundEntry

LEMMA CoverFresh == Fresh => LedgerCovers
BY DEF Fresh, LedgerCovers

LEMMA CoverNext ==
  TypeOK /\ LedgerCovers /\ [Next]_vars => LedgerCovers'
<1> SUFFICES ASSUME TypeOK, LedgerCovers, [Next]_vars PROVE LedgerCovers'
  OBVIOUS
<1>1. CASE UNCHANGED <<ledger, topups, purchases, refunds>>
  BY <1>1 DEF LedgerCovers
<1>2. CASE Next
  <2>1. \A a, i, edited : EditItem(a, i, edited) =>
          UNCHANGED <<ledger, topups, purchases, refunds>>
    BY DEF EditItem, walletVars, orderVars, refundVars
  <2>2. \A a \in Users, sku \in Skus, price \in Prices, stock \in Optional(Stocks) :
          CreateItem(a, sku, price, stock) =>
            UNCHANGED <<ledger, topups, purchases, refunds>>
    BY DEF CreateItem, walletVars, orderVars, refundVars
  <2>3. AdminRequest => UNCHANGED <<ledger, topups, purchases, refunds>>
    BY <2>1, <2>2, Zenon DEF AdminRequest, UpdateItem, DeleteItem, ToggleActive
  <2>4. \A u \in Users : Register(u) \/ GrantAdmin(u) =>
          UNCHANGED <<ledger, topups, purchases, refunds>>
    BY DEF Register, GrantAdmin, walletVars, orderVars, refundVars
  <2>5. \A u \in Users, i \in ItemIds, q \in Quantities, k \in Keys :
          BuyReplay(u, i, q, k) \/ BuyRefused(u, i, q, k) =>
            UNCHANGED <<ledger, topups, purchases, refunds>>
    BY DEF BuyReplay, BuyRefused, Restored, vars, walletVars, orderVars, refundVars
  <2>6. Tick => UNCHANGED <<ledger, topups, purchases, refunds>>
    BY DEF Tick, walletVars, orderVars, refundVars
  <2> QED BY <1>1, <1>2, <2>3, <2>4, <2>5, <2>6, TopupCovered, BuyNewCovered,
             RefundCovered
      DEF Next, Elsewhere, PurchaseRequest, TopupRequest, RefundRequest
<1>3. CASE UNCHANGED vars
  BY <1>1, <1>3 DEF vars, walletVars, orderVars, refundVars
<1> QED BY <1>2, <1>3

\* Every purchase and every refund has its row in the ledger, and the only
\* others are the top-ups'.
THEOREM CoverCorrect == Spec => []LedgerCovers
<1> QED BY InitFresh, CoverFresh, CoverNext, TypeCorrect, PTL DEF Spec
=============================================================================
