------------------------------- MODULE Schema -------------------------------
(***************************************************************************)
(* The rules that alembic/versions/0001_initial_schema.py lays on the data *)
(* of the shop: what PostgreSQL would refuse if the tables of the store    *)
(* were written to it.  The running program keeps its data in memory and   *)
(* never opens the database, so each rule is a promise that only the code  *)
(* of the repositories can keep.                                           *)
(*                                                                         *)
(* One operator per table, with its CHECKs, UNIQUEs and foreign keys.  A   *)
(* wallet is its owner, as in Store; columns Store leaves out (texts,      *)
(* currency, timestamps, the always equal statuses of top-ups and refunds) *)
(* are left out here.  Three rules are not stated, or not in full, because *)
(* the code does not keep them: uq_items_sku (the SKU of a deleted item    *)
(* may be used again), ck_refunds_amount_positive (a free item can be      *)
(* refunded), and uq_topups_external_ref for the empty reference, which    *)
(* any number of top-ups can carry.  The ranges of the column types are    *)
(* left out too: no code bounds a balance or a quantity from above.        *)
(***************************************************************************)
EXTENDS Shop

Wallet(u) == wallet[u] # None              \* a row of wallets
Item(i) == i \in DOMAIN items              \* a deleted item keeps its row
Distinct(table, Column(_)) ==
  \A m, n \in DOMAIN table : Column(table[m]) = Column(table[n]) => m = n

\* The owner has a user row, and the balance is not negative.
WalletRules ==
  \A u \in Users : Wallet(u) => u \in Registered /\ wallet[u] >= 0

ItemRules ==
  \A i \in DOMAIN items :
    items[i].price >= 0 /\ (items[i].stock # None => items[i].stock >= 0)

\* total_amount is a computed column; wallet_id and user_id together refer to
\* a wallet of that user.
PurchaseRules ==
  /\ \A p \in DOMAIN purchases :
       /\ purchases[p].quantity > 0 /\ purchases[p].unitPrice >= 0
       /\ purchases[p].total = purchases[p].quantity * purchases[p].unitPrice
       /\ purchases[p].user \in Registered /\ Wallet(purchases[p].user)
       /\ Item(purchases[p].item)
  /\ Distinct(purchases, LAMBDA row : row.key)

\* No entry of the inventory is a row with quantity zero here.
InventoryRules ==
  \A u \in Users, i \in ItemIds :
    /\ inventory[u][i] >= 0
    /\ inventory[u][i] # 0 => u \in Registered /\ Item(i)

\* NULLs do not count in a unique column.  The empty reference does, but the
\* code does not claim it.
TopupRules ==
  /\ \A t \in DOMAIN topups : topups[t].amount > 0 /\ Wallet(topups[t].user)
  /\ \A s, t \in DOMAIN topups :
       topups[s].ref = topups[t].ref /\ topups[s].ref \in Refs => s = t

\* fn_validate_refund, which runs before every refund is written, and the
\* unique purchase_id.
ValidRefund(row) ==
  /\ row.purchase \in DOMAIN purchases
  /\ row.user = purchases[row.purchase].user
  /\ row.amount = purchases[row.purchase].total

RefundRules ==
  /\ \A r \in DOMAIN refunds : ValidRefund(refunds[r]) /\ Wallet(refunds[r].user)
  /\ Distinct(refunds, LAMBDA row : row.purchase)

-----------------------------------------------------------------------------
\* After any history of requests the store holds data that satisfies the rules
\* of the schema stated above: every foreign key refers to a row, also after
\* items were deleted, purchases, refunds and non-empty references of top-ups
\* are unique where the schema wants them to be, and amounts and quantities are
\* in their ranges.
SchemaKept ==
  /\ WalletRules /\ ItemRules /\ PurchaseRules
  /\ InventoryRules /\ TopupRules /\ RefundRules
=============================================================================
