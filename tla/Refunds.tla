------------------------------ MODULE Refunds ------------------------------
(***************************************************************************)
(* RefundRepository.request_refund (app/db/repositories/refunds.py), the   *)
(* whole of POST /refunds after authentication.                            *)
(***************************************************************************)
EXTENDS Store

Age(p) == now - purchases[p].createdAt

FaultyExpired(p) == Age(p) >= RefundWindow
Expired(p) == Age(p) > RefundWindow

MayRefundLate(actor) == IsAdmin(actor) /\ AllowAdminLate

\* What the buyer holds of the item now.
Held(p) == inventory[purchases[p].user][purchases[p].item]

\* What the code answers, in the order in which it looks.
RefundVerdict(actor, p) ==
  IF p \notin DOMAIN purchases          THEN "PURCHASE_NOT_FOUND"
  ELSE IF ~IsAdmin(actor) /\ purchases[p].user # actor
                                        THEN "REFUND_FORBIDDEN"
  ELSE IF purchases[p].status # "completed"
                                        THEN "REFUND_NOT_ALLOWED"
  ELSE IF refundByPurchase[p] # None    THEN "REFUND_ALREADY_EXISTS"
  ELSE IF Expired(p) /\ ~MayRefundLate(actor)
                                        THEN "REFUND_WINDOW_EXPIRED"
  ELSE IF RequireInventory /\ Held(p) < purchases[p].quantity
                                        THEN "REFUND_INVENTORY_CONDITION_FAILED"
  ELSE IF wallet[purchases[p].user] = None
                                        THEN "WALLET_NOT_FOUND"
  ELSE "created"

\* Today's price instead of the price paid.
FaultyCredit(p) == items[purchases[p].item].price * purchases[p].quantity
FaultyPartCredit(p) == purchases[p].unitPrice   \* one unit only

\* Always the whole price that was paid.
Credit(p) == purchases[p].total

FaultyLess(a, b) == 0   \* the inventory entry is dropped

\* max(0, a - b) on the inventory
Less(a, b) == IF a >= b THEN a - b ELSE 0

\* A deleted item is not found, and not restocked.
FaultyRestocked(i, q) ==
  IF items[i].stock = None \/ ~Live(i) THEN items[i].stock
                                      ELSE items[i].stock + q

\* An unlimited stock stays unlimited.
Restocked(i, q) == IF items[i].stock = None THEN None ELSE items[i].stock + q

FaultySettled(p) ==   \* the refund also restarts the purchase's clock
  [purchases[p] EXCEPT !.status = "refunded", !.createdAt = now]
Settled(p) == [purchases[p] EXCEPT !.status = "refunded"]

\* Stock goes back even to an item that was deleted meanwhile.
RequestRefund(actor, p) ==
  LET bought == purchases[p]
      owner == bought.user
      id == Len(refunds) + 1
  IN
  /\ actor \in Registered
  /\ RefundVerdict(actor, p) = "created"
  /\ wallet' = [wallet EXCEPT ![owner] = @ + Credit(p)]
  /\ inventory' = [inventory EXCEPT ![owner][bought.item] =
                     Less(@, bought.quantity)]
  /\ items' = [items EXCEPT ![bought.item].stock =
                 Restocked(bought.item, bought.quantity)]
  /\ purchases' = [purchases EXCEPT ![p] = Settled(p)]
  /\ refunds' = Append(refunds, [purchase |-> p, user |-> owner,
                                 amount |-> Credit(p), createdAt |-> now])
  /\ refundByPurchase' = [refundByPurchase EXCEPT ![p] = id]
  /\ RecordTransaction(owner, "refund_credit", p, id, Credit(p),
                       wallet[owner], wallet[owner] + Credit(p))
  /\ UNCHANGED <<role, topups, topupByRef, idempotency, now>>

RefundRequest == \E actor \in Users, p \in PurchaseIds : RequestRefund(actor, p)
=============================================================================
