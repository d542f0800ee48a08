-------------------------------- MODULE Shop --------------------------------
(***************************************************************************)
(* The shop: every operation of the API that changes the store, each one   *)
(* atomic because the repositories run on the event loop without an await, *)
(* in whatever order the requests arrive.                                  *)
(***************************************************************************)
EXTENDS Wallets, Catalog, Purchases, Refunds, FiniteSetsExt

Tick ==
  /\ now < MaxTime
  /\ now' = now + 1
  /\ UNCHANGED <<role, walletVars, orderVars, refundVars, items>>

\* Every operation but the purchase.
Elsewhere ==
  \/ \E u \in Users : Register(u) \/ GrantAdmin(u)
  \/ TopupRequest
  \/ AdminRequest
  \/ RefundRequest
  \/ Tick

Next == Elsewhere \/ PurchaseRequest

Spec == Init /\ [][Next]_vars

-----------------------------------------------------------------------------
\* Every table holds rows of its shape.  A balance and a finite stock are
\* never negative, which no check of the code states in one place.
TypeOK ==
  /\ role \in [Users -> {"absent", "player", "admin"}]
  /\ wallet \in [Users -> Optional(Nat)]
  /\ items \in Seq(ItemRecord) /\ Len(items) <= MaxItems
  /\ topups \in Seq(TopupRecord)
  /\ topupByRef \in [Refs -> Optional(Nat)]
  /\ purchases \in Seq(PurchaseRecord) /\ Len(purchases) <= MaxPurchases
  /\ inventory \in [Users -> [ItemIds -> Nat]]
  /\ refunds \in Seq(RefundRecord)
  /\ refundByPurchase \in [PurchaseIds -> Optional(Nat)]
  /\ ledger \in Seq(LedgerRecord)
  /\ idempotency \in [Keys -> Optional(IdempotencyRecord)]
  /\ now \in Time

-----------------------------------------------------------------------------
(* Money *)

EntriesOf(u) == {e \in DOMAIN ledger : ledger[e].user = u}

\* d and e are consecutive rows of one wallet.
Consecutive(d, e) ==
  /\ d < e /\ ledger[d].user = ledger[e].user
  /\ \A x \in EntriesOf(ledger[e].user) : ~(d < x /\ x < e)

\* The rows of each wallet chain: every row adds its amount to the balance the
\* wallet's previous row left (zero before the first), and the last row holds
\* the wallet's balance.  A wallet without a row is at zero, and everybody who
\* is registered has one.  An update of a balance that was lost, or that left
\* no row in wallet_transactions, breaks the chain.
LedgerChain ==
  /\ \A e \in DOMAIN ledger :
       ledger[e].after = ledger[e].before + ledger[e].amount
  /\ \A d, e \in DOMAIN ledger :
       Consecutive(d, e) => ledger[e].before = ledger[d].after
  /\ \A e \in DOMAIN ledger :
       (\A d \in EntriesOf(ledger[e].user) : d >= e) => ledger[e].before = 0
  /\ \A e \in DOMAIN ledger :
       (\A d \in EntriesOf(ledger[e].user) : d <= e)
         => wallet[ledger[e].user] = ledger[e].after
  /\ \A u \in Users :
       /\ EntriesOf(u) = {} => OpenedBalance(u) = 0
       /\ u \in Registered => wallet[u] # None

\* Every purchase and every refund has its own row in the ledger, with the
\* right wallet and amount, and there is no other row but the top-ups'.
LedgerCovers ==
  /\ \A p \in DOMAIN purchases : \E e \in DOMAIN ledger :
       /\ ledger[e].operation = "purchase_debit" /\ ledger[e].purchase = p
       /\ ledger[e].user = purchases[p].user
       /\ ledger[e].amount = -purchases[p].total
  /\ \A r \in DOMAIN refunds : \E e \in DOMAIN ledger :
       /\ ledger[e].operation = "refund_credit" /\ ledger[e].refund = r
       /\ ledger[e].user = refunds[r].user
       /\ ledger[e].amount = refunds[r].amount
  /\ Len(ledger) = Len(topups) + Len(purchases) + Len(refunds)

OpenPurchasesOf(u) ==
  {p \in DOMAIN purchases : purchases[p].user = u
                            /\ purchases[p].status = "completed"}

ToppedUp(u) ==
  SumFunctionOnSet([t \in DOMAIN topups |-> topups[t].amount],
                   {t \in DOMAIN topups : topups[t].user = u})

Spent(u) ==
  SumFunctionOnSet([p \in DOMAIN purchases |-> purchases[p].total],
                   OpenPurchasesOf(u))

\* A wallet holds what was topped up minus what its purchases that are not
\* refunded cost: no sequence of top-ups, purchases, replays and refunds makes
\* or loses money.
BalanceConservation ==
  \A u \in Registered : wallet[u] = ToppedUp(u) - Spent(u)

-----------------------------------------------------------------------------
(* Orders *)

\* A user owns of an item exactly what the purchases not refunded delivered.
InventoryExact ==
  \A u \in Users, i \in ItemIds :
    inventory[u][i] =
      SumFunctionOnSet([p \in DOMAIN purchases |-> purchases[p].quantity],
                       {p \in OpenPurchasesOf(u) : purchases[p].item = i})

\* Keys and purchases correspond one to one: the record of a used key is
\* completed and names the purchase made under it with that very payload, and
\* every purchase is named by the record of its key.  A key is never left
\* "in_progress", where the code would refuse it for ever.
IdempotencyExact ==
  /\ \A k \in Keys : idempotency[k] # None =>
       /\ idempotency[k].status = "completed"
       /\ idempotency[k].result \in DOMAIN purchases
       /\ purchases[idempotency[k].result].key = k
  /\ \A p \in DOMAIN purchases :
       /\ idempotency[purchases[p].key] # None
       /\ idempotency[purchases[p].key].result = p
       /\ idempotency[purchases[p].key].payload =
            PayloadOf(purchases[p].user, purchases[p].item,
                      purchases[p].quantity)

\* The retry of a purchase that went through is answered with that purchase,
\* whatever happened to the item, its price, its stock or the funds since.
ReplayNeverRefused ==
  \A p \in DOMAIN purchases :
    BuyVerdict(purchases[p].user, purchases[p].item, purchases[p].quantity,
               purchases[p].key) = "replayed"

\* A purchase is marked refunded exactly when one refund row exists for it, of
\* the whole amount and to the buyer's wallet.
RefundExact ==
  /\ \A p \in DOMAIN purchases :
       purchases[p].status = "refunded" <=> refundByPurchase[p] # None
  /\ \A p \in PurchaseIds : refundByPurchase[p] # None =>
       /\ refundByPurchase[p] \in DOMAIN refunds
       /\ refunds[refundByPurchase[p]].purchase = p
  /\ \A r \in DOMAIN refunds :
       LET p == refunds[r].purchase IN
       /\ p \in DOMAIN purchases
       /\ refundByPurchase[p] = r
       /\ refunds[r].amount = purchases[p].total
       /\ refunds[r].user = purchases[p].user

\* As long as the window is open the owner of a completed purchase gets the
\* refund: no deletion, restocking, price change or other purchase or refund
\* takes the right away.
OwnerRefundGuaranteed ==
  \A p \in DOMAIN purchases :
    (purchases[p].status = "completed" /\ Age(p) <= RefundWindow)
      => RefundVerdict(purchases[p].user, p) = "created"

\* The history a user pages through only grows, and a purchase once made
\* changes only by being refunded: until the window is over, and after that
\* only at the request of an administrator who may refund late.
PurchasesFrozen ==
  [][\A p \in DOMAIN purchases :
       /\ p \in DOMAIN purchases'
       /\ \/ purchases'[p] = purchases[p]
          \/ /\ purchases[p].status = "completed"
             /\ purchases'[p] = [purchases[p] EXCEPT !.status = "refunded"]
             /\ \/ Age(p) <= RefundWindow
                \/ \E a \in Users : MayRefundLate(a) /\ RequestRefund(a, p)]_vars

\* A key that answered a purchase once answers the same one for ever.
KeysFrozen ==
  [][\A k \in Keys : idempotency[k] # None => idempotency'[k] = idempotency[k]]_vars

-----------------------------------------------------------------------------
(* Catalogue *)

\* Two live items never have SKUs that differ only in case.
LiveSkuUnique ==
  \A i, j \in DOMAIN items :
    Live(i) /\ Live(j) /\ LowerSku[items[i].sku] = LowerSku[items[j].sku] => i = j

\* A step that changes what a user owns of an item with a finite stock moves
\* the same quantity between the user and the stock; a step that changes a
\* stock and moves nothing of the item to or from a user is the request of an
\* administrator.
StockConserved ==
  [][\A i \in DOMAIN items :
       /\ \A u \in Users :
            inventory'[u][i] # inventory[u][i] /\ items[i].stock # None
              => items'[i].stock + inventory'[u][i] =
                   items[i].stock + inventory[u][i]
       /\ items'[i].stock # items[i].stock
            => \/ \E u \in Users : inventory'[u][i] # inventory[u][i]
               \/ AdminRequest]_vars

\* A deleted item never comes back, cannot be edited and is never delivered
\* again: only refunds, which take it from inventories, still touch it.
DeletedIsFinal ==
  [][\A i \in DOMAIN items : items[i].deleted =>
       /\ items'[i] = [items[i] EXCEPT !.stock = items'[i].stock]
       /\ ~items'[i].active
       /\ \A u \in Users : inventory'[u][i] <= inventory[u][i]]_vars

-----------------------------------------------------------------------------
(* What documents of the repository say and the code does not do *)

\* docs/api_contract_mvp.md:358: a refund that was already created is answered
\* with 409, the status of REFUND_ALREADY_EXISTS.
DuplicateRefundConflicts ==
  \A p \in DOMAIN purchases :
    refundByPurchase[p] # None
      => RefundVerdict(purchases[p].user, p) = "REFUND_ALREADY_EXISTS"

\* docs/api_contract_mvp.md:260: a top-up whose external_ref is used already is
\* answered with 409, so that no reference is accepted twice.
UsedReferenceConflicts ==
  \A s, t \in DOMAIN topups :
    topups[s].ref # None /\ topups[s].ref = topups[t].ref => s = t
=============================================================================
