---------------------------- MODULE Transaction ----------------------------
(***************************************************************************)
(* The three repository methods that run inside InMemoryStore.transaction  *)
(* (app/db/repositories/store.py), statement by statement: topup,          *)
(* create_purchase and request_refund.  An exception can leave the block   *)
(* at any statement: those the methods raise themselves, those of Decimal  *)
(* (quantize of a product with too many digits), a MemoryError.            *)
(*                                                                         *)
(* Here a table has a counter of its own, as in the code, and `at` is the  *)
(* statement that runs next.  The lock and the absence of awaits keep      *)
(* every other request out until the block is left.                        *)
(***************************************************************************)
EXTENDS Shop

VARIABLES
  counter,   \* the _seq fields of the tables written here
  byKey,     \* purchases_by_idempotency
  snapshot,  \* what transaction() copied on entry
  call,      \* the arguments of the running method
  before,    \* its local variable wallet_balance_before
  at         \* "idle", or the statement reached

blockVars == <<counter, byKey, snapshot, call, before, at>>
transactionVars == <<vars, blockVars>>

TopupCall == [op : {"topup"}, user : Users, amount : Amounts, ref : ExternalRefs]
BuyCall == [op : {"buy"}, user : Users, item : ItemIds, quantity : Quantities,
            key : Keys]
RefundCall == [op : {"refund"}, user : Users, purchase : PurchaseIds]

Counted == [topups : Nat, purchases : Nat, refunds : Nat, ledger : Nat]

TransactionInit ==
  /\ Init
  /\ counter = [topups |-> 0, purchases |-> 0, refunds |-> 0, ledger |-> 0]
  /\ byKey = [k \in Keys |-> None]
  /\ snapshot = None /\ call = None /\ before = None /\ at = "idle"

\* table[id] = row on a dict
Put(table, id, row) == [n \in DOMAIN table \cup {id} |-> IF n = id THEN row
                                                                   ELSE table[n]]

-----------------------------------------------------------------------------
(* The block *)

\* _snapshot_state on entry.  The tables of users and tokens are copied too;
\* nothing in a block writes them.
Enter(c, first) ==
  /\ at = "idle" /\ at' = first
  /\ c.user \in Registered
  /\ call' = c
  /\ snapshot' = [wallet |-> wallet, items |-> items, topups |-> topups,
       topupByRef |-> topupByRef, purchases |-> purchases, byKey |-> byKey,
       inventory |-> inventory, refunds |-> refunds,
       refundByPurchase |-> refundByPurchase, ledger |-> ledger,
       idempotency |-> idempotency, counter |-> counter]
  /\ UNCHANGED <<vars, counter, byKey, before>>

\* The statement `from`, which leads to `to` or, with "idle", out of the block.
Do(from, to) ==
  /\ at = from /\ at' = to
  /\ IF to = "idle" THEN call' = None /\ snapshot' = None
                    ELSE UNCHANGED <<call, snapshot>>

\* The field is missing in the snapshot.
FaultyKeptCounters(dirty) == dirty
FaultyKeptIndex(dirty) == dirty
FaultyKeptItems(dirty) == dirty

\* What a failed block that wrote `dirty` leaves of three of the tables.
KeptCounters(dirty) == snapshot.counter
KeptIndex(dirty) == snapshot.byKey
KeptItems(dirty) == snapshot.items

\* _restore_state, then the exception goes on to the caller.
RestoreState ==
  /\ wallet' = snapshot.wallet /\ items' = KeptItems(items)
  /\ topups' = snapshot.topups /\ topupByRef' = snapshot.topupByRef
  /\ purchases' = snapshot.purchases /\ byKey' = KeptIndex(byKey)
  /\ inventory' = snapshot.inventory
  /\ refunds' = snapshot.refunds
  /\ refundByPurchase' = snapshot.refundByPurchase
  /\ ledger' = snapshot.ledger /\ idempotency' = snapshot.idempotency
  /\ counter' = KeptCounters(counter)

\* Any exception, at any statement of the block.
Raise ==
  /\ at # "idle" /\ at' = "idle"
  /\ RestoreState
  /\ call' = None /\ snapshot' = None /\ before' = None
  /\ UNCHANGED <<role, now>>

\* create_wallet_transaction with the balance as it is now.
Record(operation, purchase, refund, owner, amount) ==
  /\ counter' = [counter EXCEPT !.ledger = @ + 1]
  /\ ledger' = Put(ledger, counter.ledger + 1,
       [user |-> owner, purchase |-> purchase, refund |-> refund,
        operation |-> operation, amount |-> amount,
        before |-> before, after |-> wallet[owner]])
  /\ before' = None

-----------------------------------------------------------------------------
(* WalletRepository.topup *)

BeginTopup(c) == Len(topups) < MaxTopups /\ Enter(c, "topup:open")

\* The reference is free; the wallet exists from here on.
OpenWallet ==
  /\ Do("topup:open", "topup:store")
  /\ ~RefTaken(call.ref)
  /\ wallet' = [wallet EXCEPT ![call.user] = OpenedBalance(call.user)]
  /\ UNCHANGED <<role, topups, topupByRef, ledger, orderVars, refundVars, items,
                 now, counter, byKey, before>>

StoreTopup ==
  /\ Do("topup:store", "topup:claim")
  /\ counter' = [counter EXCEPT !.topups = @ + 1]
  /\ topups' = Put(topups, counter.topups + 1,
                   [user |-> call.user, amount |-> call.amount, ref |-> call.ref])
  /\ UNCHANGED <<role, wallet, topupByRef, ledger, orderVars, refundVars, items,
                 now, byKey, before>>

ClaimRef ==
  /\ Do("topup:claim", "topup:credit")
  /\ topupByRef' = [r \in Refs |-> IF r = call.ref THEN counter.topups
                                                   ELSE topupByRef[r]]
  /\ UNCHANGED <<role, wallet, topups, ledger, orderVars, refundVars, items,
                 now, counter, byKey, before>>

CreditTopup ==
  /\ Do("topup:credit", "topup:record")
  /\ before' = wallet[call.user]
  /\ wallet' = [wallet EXCEPT ![call.user] = @ + call.amount]
  /\ UNCHANGED <<role, topups, topupByRef, ledger, orderVars, refundVars, items,
                 now, counter, byKey>>

RecordTopup ==
  /\ Do("topup:record", "idle")
  /\ Record("topup_credit", None, None, call.user, call.amount)
  /\ UNCHANGED <<role, wallet, topups, topupByRef, orderVars, refundVars, items,
                 now, byKey>>

TopupStatement ==
  OpenWallet \/ StoreTopup \/ ClaimRef \/ CreditTopup \/ RecordTopup

-----------------------------------------------------------------------------
(* PurchaseRepository.create_purchase *)

BeginBuy(c) == Enter(c, "buy:key")

CallVerdict == KeyVerdict(call.user, call.item, call.quantity, call.key)

\* A completed record ends the block with its purchase.
ReturnStored ==
  /\ Do("buy:key", "idle")
  /\ CallVerdict = "replayed"
  /\ UNCHANGED <<vars, counter, byKey, before>>

OpenRecord ==
  /\ Do("buy:key", "buy:check")
  /\ CallVerdict = "free"
  /\ idempotency' = [idempotency EXCEPT
       ![call.key] = InProgress(call.user, call.item, call.quantity)]
  /\ UNCHANGED <<role, walletVars, purchases, inventory, refundVars, items,
                 now, counter, byKey, before>>

\* The checks of item, stock and balance write nothing.
CheckSale ==
  /\ Do("buy:check", "buy:debit")
  /\ SaleVerdict(call.user, call.item, call.quantity) = "created"
  /\ counter.purchases < MaxPurchases
  /\ UNCHANGED <<vars, counter, byKey, before>>

Debit ==
  /\ Do("buy:debit", "buy:take")
  /\ before' = wallet[call.user]
  /\ wallet' = [wallet EXCEPT ![call.user] = @ - Total(call.item, call.quantity)]
  /\ UNCHANGED <<role, topups, topupByRef, ledger, orderVars, refundVars, items,
                 now, counter, byKey>>

TakeStock ==
  /\ Do("buy:take", "buy:deliver")
  /\ items' = [items EXCEPT ![call.item].stock =
                 IF @ = None THEN @ ELSE @ - call.quantity]
  /\ UNCHANGED <<role, walletVars, orderVars, refundVars, now, counter, byKey,
                 before>>

Deliver ==
  /\ Do("buy:deliver", "buy:store")
  /\ inventory' = [inventory EXCEPT ![call.user][call.item] = @ + call.quantity]
  /\ UNCHANGED <<role, walletVars, purchases, idempotency, refundVars, items,
                 now, counter, byKey, before>>

StorePurchase ==
  /\ Do("buy:store", "buy:index")
  /\ counter' = [counter EXCEPT !.purchases = @ + 1]
  /\ purchases' = Put(purchases, counter.purchases + 1,
       [user |-> call.user, item |-> call.item, quantity |-> call.quantity,
        unitPrice |-> items[call.item].price,
        total |-> Total(call.item, call.quantity), status |-> "completed",
        key |-> call.key, createdAt |-> now])
  /\ UNCHANGED <<role, walletVars, inventory, idempotency, refundVars, items,
                 now, byKey, before>>

IndexKey ==
  /\ Do("buy:index", "buy:record")
  /\ byKey' = [byKey EXCEPT ![call.key] =
       [id |-> counter.purchases,
        payload |-> PayloadOf(call.user, call.item, call.quantity)]]
  /\ UNCHANGED <<vars, counter, before>>

RecordPurchase ==
  /\ Do("buy:record", "buy:complete")
  /\ Record("purchase_debit", counter.purchases, None, call.user,
            -Total(call.item, call.quantity))
  /\ UNCHANGED <<role, wallet, topups, topupByRef, orderVars, refundVars, items,
                 now, byKey>>

CompleteRecord ==
  /\ Do("buy:complete", "idle")
  /\ idempotency' = [idempotency EXCEPT ![call.key].status = "completed",
                                        ![call.key].result = counter.purchases]
  /\ UNCHANGED <<role, walletVars, purchases, inventory, refundVars, items, now,
                 counter, byKey, before>>

BuyStatement ==
  \/ ReturnStored \/ OpenRecord \/ CheckSale \/ Debit \/ TakeStock \/ Deliver
  \/ StorePurchase \/ IndexKey \/ RecordPurchase \/ CompleteRecord

-----------------------------------------------------------------------------
(* RefundRepository.request_refund *)

BeginRefund(c) == Enter(c, "refund:check")

Refunded == purchases[call.purchase]   \* the local variable `purchase`
Owner == Refunded.user

CheckRefund ==
  /\ Do("refund:check", "refund:credit")
  /\ RefundVerdict(call.user, call.purchase) = "created"
  /\ UNCHANGED <<vars, counter, byKey, before>>

CreditRefund ==
  /\ Do("refund:credit", "refund:take")
  /\ before' = wallet[Owner]
  /\ wallet' = [wallet EXCEPT ![Owner] = @ + Credit(call.purchase)]
  /\ UNCHANGED <<role, topups, topupByRef, ledger, orderVars, refundVars, items,
                 now, counter, byKey>>

TakeBack ==
  /\ Do("refund:take", "refund:restock")
  /\ inventory' = [inventory EXCEPT ![Owner][Refunded.item] =
                     Less(@, Refunded.quantity)]
  /\ UNCHANGED <<role, walletVars, purchases, idempotency, refundVars, items,
                 now, counter, byKey, before>>

Restock ==
  /\ Do("refund:restock", "refund:settle")
  /\ items' = [items EXCEPT ![Refunded.item].stock =
                 Restocked(Refunded.item, Refunded.quantity)]
  /\ UNCHANGED <<role, walletVars, orderVars, refundVars, now, counter, byKey,
                 before>>

SettlePurchase ==
  /\ Do("refund:settle", "refund:store")
  /\ purchases' = [purchases EXCEPT ![call.purchase] = Settled(call.purchase)]
  /\ UNCHANGED <<role, walletVars, inventory, idempotency, refundVars, items,
                 now, counter, byKey, before>>

StoreRefund ==
  /\ Do("refund:store", "refund:index")
  /\ counter' = [counter EXCEPT !.refunds = @ + 1]
  /\ refunds' = Put(refunds, counter.refunds + 1,
       [purchase |-> call.purchase, user |-> Owner,
        amount |-> Credit(call.purchase), createdAt |-> now])
  /\ UNCHANGED <<role, walletVars, orderVars, refundByPurchase, items, now,
                 byKey, before>>

IndexRefund ==
  /\ Do("refund:index", "refund:record")
  /\ refundByPurchase' = [refundByPurchase EXCEPT
                            ![call.purchase] = counter.refunds]
  /\ UNCHANGED <<role, walletVars, orderVars, refunds, items, now, counter,
                 byKey, before>>

RecordRefund ==
  /\ Do("refund:record", "idle")
  /\ Record("refund_credit", call.purchase, counter.refunds, Owner,
            Credit(call.purchase))
  /\ UNCHANGED <<role, wallet, topups, topupByRef, orderVars, refundVars, items,
                 now, byKey>>

RefundStatement ==
  \/ CheckRefund \/ CreditRefund \/ TakeBack \/ Restock \/ SettlePurchase
  \/ StoreRefund \/ IndexRefund \/ RecordRefund

-----------------------------------------------------------------------------
\* The operations that use no block run between two of them.
OutsideBlocks ==
  /\ at = "idle"
  /\ (\E u \in Users : Register(u) \/ GrantAdmin(u)) \/ AdminRequest \/ Tick
  /\ UNCHANGED blockVars

TransactionNext ==
  \/ \E c \in TopupCall : BeginTopup(c)
  \/ \E c \in BuyCall : BeginBuy(c)
  \/ \E c \in RefundCall : BeginRefund(c)
  \/ TopupStatement \/ BuyStatement \/ RefundStatement
  \/ Raise
  \/ OutsideBlocks

TransactionSpec == TransactionInit /\ [][TransactionNext]_transactionVars

-----------------------------------------------------------------------------
\* The tables without what a block that still runs has written: what they were
\* when it was entered.
Kept(field, table) == IF at = "idle" THEN table ELSE snapshot[field]

Atomic == INSTANCE Shop WITH
  wallet <- Kept("wallet", wallet), items <- Kept("items", items),
  topups <- Kept("topups", topups), topupByRef <- Kept("topupByRef", topupByRef),
  purchases <- Kept("purchases", purchases),
  inventory <- Kept("inventory", inventory), refunds <- Kept("refunds", refunds),
  refundByPurchase <- Kept("refundByPurchase", refundByPurchase),
  ledger <- Kept("ledger", ledger), idempotency <- Kept("idempotency", idempotency)

\* Whatever statement an exception leaves a block at, the block is one step of
\* the shop or none: each call of topup, create_purchase and request_refund
\* takes effect when it returns, as the action of Shop, or not at all.
KeepsShop == Atomic!Spec

\* Between two calls the counters give the next rows the next ids, also after
\* calls that had taken ids and failed.
RowsNumbered ==
  at = "idle" =>
    /\ topups \in Seq(TopupRecord) /\ counter.topups = Len(topups)
    /\ purchases \in Seq(PurchaseRecord) /\ counter.purchases = Len(purchases)
    /\ refunds \in Seq(RefundRecord) /\ counter.refunds = Len(refunds)
    /\ ledger \in Seq(LedgerRecord) /\ counter.ledger = Len(ledger)

\* Between two calls the two indices of purchases by key agree, although only
\* one of them is ever read.
KeyIndicesAgree ==
  at = "idle" => \A k \in Keys :
    byKey[k] = IF idempotency[k] = None THEN None
               ELSE [id |-> idempotency[k].result,
                     payload |-> idempotency[k].payload]
=============================================================================
