------------------------------- MODULE Store -------------------------------
(***************************************************************************)
(* The state of app/db/repositories/store.py: one InMemoryStore, shared by *)
(* every repository of the process.                                        *)
(*                                                                         *)
(* Conventions.  A table whose ids come from a `_seq` counter is a         *)
(* sequence: the id is the position, the counter its length (no code       *)
(* removes a row).  A dict is a function whose value is None where the     *)
(* dict has no entry.  A user has one wallet, so a wallet id is replaced   *)
(* by its owner.  Money is a number of cents: prices and amounts have two  *)
(* decimals, so that products with a quantity need no rounding.  Wording,  *)
(* currency, hashes and timestamps nobody compares are left out.           *)
(***************************************************************************)
EXTENDS Integers, Sequences, FiniteSets

CONSTANTS
  Users,            \* ids a registration can get
  Admins,           \* users an operator turns into administrators
  Keys,             \* values of the Idempotency-Key header
  Refs,             \* non-empty external references of top-ups
  Blank,            \* the empty external reference, ""
  Skus,             \* spellings of item SKUs
  LowerSku,         \* str.lower on Skus
  None,             \* Python's None, and "no such entry" in a dict
  Seed,             \* the items reset() puts in the catalogue
  Prices, Stocks,   \* what an administrator may set
  Quantities,       \* what a purchase may ask for
  Amounts,          \* what a top-up may credit
  RefundWindow,     \* settings.refund_window_minutes
  AllowAdminLate,   \* settings.allow_admin_refund_after_window
  RequireInventory, \* settings.require_inventory_for_refund
  MaxItems, MaxTopups, MaxPurchases, MaxTime   \* bounds of the exploration

\* What the request schemas and the settings admit.
ASSUME StoreAssumption ==
  /\ Admins \subseteq Users
  /\ LowerSku \in [Skus -> Skus]
  /\ Prices \subseteq Nat /\ Stocks \subseteq Nat
  /\ Quantities \subseteq Nat \ {0} /\ Amounts \subseteq Nat \ {0}
  /\ Seed \in Seq([sku : Skus, price : Nat])
  /\ RefundWindow \in Nat
  /\ AllowAdminLate \in BOOLEAN /\ RequireInventory \in BOOLEAN
  /\ MaxItems \in Nat /\ MaxTopups \in Nat
  /\ MaxPurchases \in Nat /\ MaxTime \in Nat
  /\ Len(Seed) <= MaxItems

\* None is an id of nothing.
ASSUME NoneAssumption == None \notin Int /\ None \notin Refs

\* The empty text is a value like any other, but no non-empty one.
ASSUME BlankAssumption == Blank # None /\ Blank \notin Refs

\* The seeded SKUs differ, whatever their case.
ASSUME SeedAssumption ==
  \A i, j \in DOMAIN Seed :
    LowerSku[Seed[i].sku] = LowerSku[Seed[j].sku] => i = j

VARIABLES
  role,              \* role of each user, "absent" before registration
  wallet,            \* balance of the user's wallet
  items, topups, purchases, refunds, ledger,   \* the tables
  topupByRef,        \* topups_by_external_ref
  inventory,         \* quantity owned, per user and item
  refundByPurchase,  \* refunds_by_purchase
  idempotency,       \* idempotency_records
  now                \* the clock the refund window reads

walletVars  == <<wallet, topups, topupByRef, ledger>>
orderVars   == <<purchases, inventory, idempotency>>
refundVars  == <<refunds, refundByPurchase>>
vars == <<role, walletVars, orderVars, refundVars, items, now>>

-----------------------------------------------------------------------------
ItemIds     == 1 .. MaxItems
PurchaseIds == 1 .. MaxPurchases
Time        == 0 .. MaxTime
Optional(S) == S \cup {None}

\* What WalletTopupRequest admits as external_ref: it has a maximal length only.
ExternalRefs == Optional(Refs) \cup {Blank}

ItemRecord ==
  [sku : Skus, price : Nat, active : BOOLEAN, stock : Optional(Nat),
   deleted : BOOLEAN]

TopupRecord == [user : Users, amount : Nat, ref : ExternalRefs]

PurchaseRecord ==
  [user : Users, item : ItemIds, quantity : Nat, unitPrice : Nat, total : Nat,
   status : {"completed", "refunded"}, key : Keys, createdAt : Time]

RefundRecord == [purchase : Nat, user : Users, amount : Nat, createdAt : Time]

LedgerRecord ==
  [user : Users, purchase : Optional(Nat), refund : Optional(Nat),
   operation : {"topup_credit", "purchase_debit", "refund_credit"},
   amount : Int, before : Int, after : Int]

\* The payload stands for its SHA-256.
Payload == [user : Users, item : ItemIds, quantity : Nat]

IdempotencyRecord ==
  [payload : Payload, status : {"in_progress", "completed"},
   result : Optional(Nat)]

\* A record is something else than the absence of one.
ASSUME NoRecordAssumption == None \notin IdempotencyRecord

\* An item as reset() and create_item() make it.
NewItem(sku, price, stock) ==
  [sku |-> sku, price |-> price, active |-> TRUE, stock |-> stock,
   deleted |-> FALSE]

Init ==
  /\ role = [u \in Users |-> "absent"]
  /\ wallet = [u \in Users |-> None]
  /\ items = [i \in DOMAIN Seed |-> NewItem(Seed[i].sku, Seed[i].price, None)]
  /\ topups = << >> /\ topupByRef = [r \in Refs |-> None]
  /\ purchases = << >>
  /\ inventory = [u \in Users |-> [i \in ItemIds |-> 0]]
  /\ refunds = << >>
  /\ refundByPurchase = [p \in PurchaseIds |-> None]
  /\ ledger = << >>
  /\ idempotency = [k \in Keys |-> None]
  /\ now = 0

-----------------------------------------------------------------------------
\* Definitions named Faulty... are deliberate mistakes: TLC runs the model with
\* the definition that follows replaced by one of them, to show that the
\* properties would notice.  Nothing else uses them.
FaultyLive(i) == i \in DOMAIN items   \* get_item forgets deleted_at

\* A live item is found by get_item; a deleted row stays in the table.
Live(i) == i \in DOMAIN items /\ ~items[i].deleted

Registered == {u \in Users : role[u] # "absent"}
IsAdmin(u) == role[u] = "admin"

FaultyRestored(snapshot, dirty) == dirty   \* no rollback

\* What a table holds after a transaction that wrote `dirty` over `snapshot`
\* and then raised: transaction() restores the deep copy it took on entry.
Restored(snapshot, dirty) == snapshot

\* The counter is not advanced: the new row replaces the last one.
FaultyRecordTransaction(u, operation, purchase, refund, amount, before, after) ==
  ledger' = Append(SubSeq(ledger, 1, Len(ledger) - 1),
    [user |-> u, purchase |-> purchase, refund |-> refund,
     operation |-> operation, amount |-> amount,
     before |-> before, after |-> after])

\* create_wallet_transaction: the row a balance change of u leaves behind.
RecordTransaction(u, operation, purchase, refund, amount, before, after) ==
  ledger' = Append(ledger,
    [user |-> u, purchase |-> purchase, refund |-> refund,
     operation |-> operation, amount |-> amount,
     before |-> before, after |-> after])
=============================================================================
