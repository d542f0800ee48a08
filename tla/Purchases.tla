----------------------------- MODULE Purchases -----------------------------
(***************************************************************************)
(* PurchaseRepository.create_purchase (app/db/repositories/purchases.py):  *)
(* the body of POST /purchases that runs without a suspension, inside one  *)
(* transaction of the store.                                               *)
(***************************************************************************)
EXTENDS Store

PayloadOf(u, i, q) == [user |-> u, item |-> i, quantity |-> q]
Total(i, q) == items[i].price * q

FaultyCannotPay(u, i, q) == wallet[u] = 0   \* only an empty wallet is refused
CannotPay(u, i, q) == wallet[u] < Total(i, q)

FaultyKeyVerdict(u, i, q, k) ==   \* keys are looked up per user
  LET record == idempotency[k] IN
  IF record = None THEN "free"
  ELSE IF record.payload.user # u THEN "free"
  ELSE IF record.payload # PayloadOf(u, i, q) THEN "IDEMPOTENCY_CONFLICT"
  ELSE "replayed"

FaultyReusedKey(u, i, q, k) ==   \* a refund gives the key back
  IF idempotency[k] = None THEN "free"
  ELSE IF idempotency[k].payload # PayloadOf(u, i, q) THEN "IDEMPOTENCY_CONFLICT"
  ELSE IF purchases[idempotency[k].result].status = "refunded" THEN "free"
  ELSE "replayed"

\* What the record of the key says of the request; "free" lets it through.
\* One that is neither completed nor in progress would be opened again.
KeyVerdict(u, i, q, k) ==
  LET record == idempotency[k] IN
  IF record = None THEN "free"
  ELSE IF record.payload # PayloadOf(u, i, q) THEN "IDEMPOTENCY_CONFLICT"
  ELSE IF record.status = "completed" /\ record.result # None
    THEN IF record.result \in DOMAIN purchases THEN "replayed"
                                               ELSE "IDEMPOTENCY_CONFLICT"
  ELSE IF record.status = "in_progress" THEN "IDEMPOTENCY_IN_PROGRESS"
  ELSE "free"

\* What the item and the wallet say of it.
SaleVerdict(u, i, q) ==
  IF ~Live(i)                    THEN "ITEM_NOT_FOUND"
  ELSE IF ~items[i].active       THEN "ITEM_NOT_ACTIVE"
  ELSE IF items[i].stock # None /\ items[i].stock < q
                                 THEN "ITEM_OUT_OF_STOCK"
  ELSE IF wallet[u] = None       THEN "WALLET_NOT_FOUND"
  ELSE IF CannotPay(u, i, q)     THEN "INSUFFICIENT_FUNDS"
  ELSE "created"

FaultyBuyVerdict(u, i, q, k) ==   \* the sale is checked before the key
  IF SaleVerdict(u, i, q) # "created" \/ KeyVerdict(u, i, q, k) = "free"
    THEN SaleVerdict(u, i, q) ELSE KeyVerdict(u, i, q, k)

\* The answer of the code, which looks at the key first.
BuyVerdict(u, i, q, k) ==
  IF KeyVerdict(u, i, q, k) # "free" THEN KeyVerdict(u, i, q, k)
                                     ELSE SaleVerdict(u, i, q)

\* The record a request leaves while it runs.
InProgress(u, i, q) ==
  [payload |-> PayloadOf(u, i, q), status |-> "in_progress", result |-> None]

BuyNew(u, i, q, k) ==
  LET id == Len(purchases) + 1
      total == Total(i, q)
  IN
  /\ u \in Registered
  /\ BuyVerdict(u, i, q, k) = "created"
  /\ id <= MaxPurchases
  /\ wallet' = [wallet EXCEPT ![u] = @ - total]
  /\ items' = [items EXCEPT ![i].stock = IF @ = None THEN @ ELSE @ - q]
  /\ inventory' = [inventory EXCEPT ![u][i] = @ + q]
  /\ purchases' = Append(purchases,
       [user |-> u, item |-> i, quantity |-> q, unitPrice |-> items[i].price,
        total |-> total, status |-> "completed", key |-> k,
        createdAt |-> now])
  /\ RecordTransaction(u, "purchase_debit", id, None, -total,
                       wallet[u], wallet[u] - total)
  /\ idempotency' = [idempotency EXCEPT ![k] =
       [InProgress(u, i, q) EXCEPT !.status = "completed", !.result = id]]
  /\ UNCHANGED <<role, topups, topupByRef, refundVars, now>>

\* A replay answers with the purchase of the first request and writes nothing.
BuyReplay(u, i, q, k) ==
  /\ u \in Registered
  /\ BuyVerdict(u, i, q, k) = "replayed"
  /\ UNCHANGED vars

\* Every other answer leaves by an exception.  A first request has opened its
\* record by then: the rollback takes it away again.
BuyRefused(u, i, q, k) ==
  LET opened == [idempotency EXCEPT ![k] = IF @ = None
                                           THEN InProgress(u, i, q) ELSE @]
  IN
  /\ u \in Registered
  /\ BuyVerdict(u, i, q, k) \notin {"created", "replayed"}
  /\ idempotency' = Restored(idempotency, opened)
  /\ UNCHANGED <<role, walletVars, purchases, inventory, refundVars, items, now>>

PurchaseRequest ==
  \E u \in Users, i \in ItemIds, q \in Quantities, k \in Keys :
    BuyNew(u, i, q, k) \/ BuyReplay(u, i, q, k) \/ BuyRefused(u, i, q, k)
=============================================================================
