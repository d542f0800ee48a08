------------------------- MODULE TransactionProofs -------------------------
(***************************************************************************)
(* Transaction implements Shop, for every value of the constants: a block  *)
(* is one step of the shop or none.  The inductive invariant says of each  *)
(* table what the statements that have run made of its snapshot.           *)
(***************************************************************************)
EXTENDS Transaction, ShopProofs

old == snapshot

-----------------------------------------------------------------------------
(* The invariant *)

TopupStages ==
  {"topup:open", "topup:store", "topup:claim", "topup:credit", "topup:record"}

BuyStages ==
  {"buy:key", "buy:check", "buy:debit", "buy:take", "buy:deliver", "buy:store",
   "buy:index", "buy:record", "buy:complete"}

RefundStages ==
  {"refund:check", "refund:credit", "refund:take", "refund:restock",
   "refund:settle", "refund:store", "refund:index", "refund:record"}

\* A table's counter is its length, in the store and in the snapshot.
Matches(count, t, p, r, l) ==
  count = [topups |-> Len(t), purchases |-> Len(p), refunds |-> Len(r),
           ledger |-> Len(l)]

Numbered ==
  /\ Matches(counter, topups, purchases, refunds, ledger)
  /\ at # "idle" => Matches(old.counter, old.topups, old.purchases, old.refunds,
                            old.ledger)

\* The two indices of purchases by key agree, in the store between two calls
\* and in the snapshot.
Indexed(index, records) ==
  index = [k \in Keys |->
             IF records[k] = None THEN None
             ELSE [id |-> records[k].result, payload |-> records[k].payload]]

IndexInv == /\ at = "idle" => Indexed(byKey, idempotency)
            /\ at # "idle" => Indexed(old.byKey, old.idempotency)

\* What a top-up has made of the snapshot.
TopupRow == [user |-> call.user, amount |-> call.amount, ref |-> call.ref]

TopupBlock ==
  /\ call \in TopupCall /\ call.user \in Registered
  /\ Len(old.topups) < MaxTopups
  /\ at # "topup:open" => ~Atomic!RefTaken(call.ref)
  /\ wallet = IF at = "topup:open" THEN old.wallet
              ELSE [old.wallet EXCEPT ![call.user] =
                      IF at = "topup:record"
                        THEN Atomic!OpenedBalance(call.user) + call.amount
                        ELSE Atomic!OpenedBalance(call.user)]
  /\ topups = IF at \in {"topup:open", "topup:store"} THEN old.topups
              ELSE Append(old.topups, TopupRow)
  /\ topupByRef = IF at \in {"topup:open", "topup:store", "topup:claim"}
                  THEN old.topupByRef
                  ELSE [r \in Refs |-> IF r = call.ref THEN Len(old.topups) + 1
                                                       ELSE old.topupByRef[r]]
  /\ at = "topup:record" => before = Atomic!OpenedBalance(call.user)
  /\ items = old.items /\ purchases = old.purchases /\ byKey = old.byKey
  /\ inventory = old.inventory /\ refunds = old.refunds
  /\ refundByPurchase = old.refundByPurchase /\ ledger = old.ledger
  /\ idempotency = old.idempotency

\* What a purchase has made of it.
Cost == Atomic!Total(call.item, call.quantity)

PurchaseRow ==
  [user |-> call.user, item |-> call.item, quantity |-> call.quantity,
   unitPrice |-> old.items[call.item].price, total |-> Cost,
   status |-> "completed", key |-> call.key, createdAt |-> now]

SaleEntry ==
  [user |-> call.user, purchase |-> Len(old.purchases) + 1, refund |-> None,
   operation |-> "purchase_debit", amount |-> -Cost,
   before |-> old.wallet[call.user], after |-> old.wallet[call.user] - Cost]

BuyBlock ==
  /\ call \in BuyCall /\ call.user \in Registered
  /\ at # "buy:key" =>
       Atomic!KeyVerdict(call.user, call.item, call.quantity, call.key) = "free"
  /\ at \notin {"buy:key", "buy:check"} =>
       /\ Atomic!SaleVerdict(call.user, call.item, call.quantity) = "created"
       /\ Len(old.purchases) < MaxPurchases
  /\ idempotency = IF at = "buy:key" THEN old.idempotency
                   ELSE [old.idempotency EXCEPT ![call.key] =
                           InProgress(call.user, call.item, call.quantity)]
  /\ wallet = IF at \in {"buy:key", "buy:check", "buy:debit"} THEN old.wallet
              ELSE [old.wallet EXCEPT ![call.user] = @ - Cost]
  /\ at \in {"buy:take", "buy:deliver", "buy:store", "buy:index", "buy:record"}
       => before = old.wallet[call.user]
  /\ items = IF at \in {"buy:key", "buy:check", "buy:debit", "buy:take"}
             THEN old.items
             ELSE [old.items EXCEPT ![call.item].stock =
                     IF @ = None THEN @ ELSE @ - call.quantity]
  /\ inventory = IF at \in {"buy:key", "buy:check", "buy:debit", "buy:take",
                            "buy:deliver"}
                 THEN old.inventory
                 ELSE [old.inventory EXCEPT ![call.user][call.item] =
                         @ + call.quantity]
  /\ purchases = IF at \in {"buy:index", "buy:record", "buy:complete"}
                 THEN Append(old.purchases, PurchaseRow) ELSE old.purchases
  /\ byKey = IF at \in {"buy:record", "buy:complete"}
             THEN [old.byKey EXCEPT ![call.key] =
                     [id |-> Len(old.purchases) + 1,
                      payload |-> PayloadOf(call.user, call.item, call.quantity)]]
             ELSE old.byKey
  /\ ledger = IF at = "buy:complete" THEN Append(old.ledger, SaleEntry)
              ELSE old.ledger
  /\ topups = old.topups /\ topupByRef = old.topupByRef
  /\ refunds = old.refunds /\ refundByPurchase = old.refundByPurchase

\* What a refund has made of it.
Bought == old.purchases[call.purchase]

RefundRow ==
  [purchase |-> call.purchase, user |-> Bought.user, amount |-> Bought.total,
   createdAt |-> now]

RefundBlock ==
  /\ call \in RefundCall /\ call.user \in Registered
  /\ at # "refund:check" =>
       Atomic!RefundVerdict(call.user, call.purchase) = "created"
  /\ wallet = IF at \in {"refund:check", "refund:credit"} THEN old.wallet
              ELSE [old.wallet EXCEPT ![Bought.user] = @ + Bought.total]
  /\ at \notin {"refund:check", "refund:credit"}
       => before = old.wallet[Bought.user]
  /\ inventory = IF at \in {"refund:check", "refund:credit", "refund:take"}
                 THEN old.inventory
                 ELSE [old.inventory EXCEPT ![Bought.user][Bought.item] =
                         Less(@, Bought.quantity)]
  /\ items = IF at \in {"refund:check", "refund:credit", "refund:take",
                        "refund:restock"}
             THEN old.items
             ELSE [old.items EXCEPT ![Bought.item].stock =
                     Atomic!Restocked(Bought.item, Bought.quantity)]
  /\ purchases = IF at \in {"refund:store", "refund:index", "refund:record"}
                 THEN [old.purchases EXCEPT ![call.purchase] =
                         [Bought EXCEPT !.status = "refunded"]]
                 ELSE old.purchases
  /\ refunds = IF at \in {"refund:index", "refund:record"}
               THEN Append(old.refunds, RefundRow) ELSE old.refunds
  /\ refundByPurchase = IF at = "refund:record"
                        THEN [old.refundByPurchase EXCEPT ![call.purchase] =
                                Len(old.refunds) + 1]
                        ELSE old.refundByPurchase
  /\ topups = old.topups /\ topupByRef = old.topupByRef
  /\ byKey = old.byKey /\ ledger = old.ledger
  /\ idempotency = old.idempotency

Block == /\ at \in {"idle"} \cup TopupStages \cup BuyStages \cup RefundStages
         /\ at \in TopupStages => TopupBlock
         /\ at \in BuyStages => BuyBlock
         /\ at \in RefundStages => RefundBlock

Inv == TypeOK /\ Atomic!TypeOK /\ Numbered /\ IndexInv /\ Block

-----------------------------------------------------------------------------
(* Rows and snapshots *)

\* Under the next id, a row of a dict is the next row of a table.
LEMMA PutNext ==
  ASSUME NEW S, NEW t \in Seq(S), NEW e \in S
  PROVE  Put(t, Len(t) + 1, e) = Append(t, e)
<1>1. DOMAIN t = 1 .. Len(t) /\ Len(t) \in Nat
  BY LenProperties
<1>2. DOMAIN t \cup {Len(t) + 1} = 1 .. Len(t) + 1
  BY <1>1
<1>3. Put(t, Len(t) + 1, e) \in Seq(S) /\ Len(Put(t, Len(t) + 1, e)) = Len(t) + 1
  BY <1>1, <1>2 DEF Put
<1>4. Append(t, e) \in Seq(S) /\ Len(Append(t, e)) = Len(t) + 1
  BY RowAppended
<1>5. \A i \in 1 .. Len(t) + 1 : Put(t, Len(t) + 1, e)[i] = Append(t, e)[i]
  <2> TAKE i \in 1 .. Len(t) + 1
  <2>1. Put(t, Len(t) + 1, e)[i] = IF i = Len(t) + 1 THEN e ELSE t[i]
    BY <1>2 DEF Put
  <2>2. CASE i = Len(t) + 1
    BY <2>1, <2>2, RowAppended
  <2>3. CASE i # Len(t) + 1
    BY <1>1, <2>1, <2>3, RowAppended
  <2> QED BY <2>2, <2>3
<1> QED BY <1>3, <1>4, <1>5, SeqEqual

\* A statement inside a block leaves what is asked of the snapshot unchanged.
Inside == /\ at # "idle" /\ at' # "idle"
          /\ snapshot' = snapshot /\ call' = call
          /\ UNCHANGED <<role, now>>

LEMMA InsideKeeps ==
  ASSUME Inside
  PROVE  /\ Atomic!TypeOK' <=> Atomic!TypeOK
         /\ old' = old /\ Registered' = Registered
         /\ Cost' = Cost /\ TopupRow' = TopupRow /\ PurchaseRow' = PurchaseRow
         /\ SaleEntry' = SaleEntry /\ Bought' = Bought /\ RefundRow' = RefundRow
         /\ Atomic!RefTaken(call.ref)' = Atomic!RefTaken(call.ref)
         /\ Atomic!OpenedBalance(call.user)' = Atomic!OpenedBalance(call.user)
         /\ Atomic!KeyVerdict(call.user, call.item, call.quantity, call.key)' =
              Atomic!KeyVerdict(call.user, call.item, call.quantity, call.key)
         /\ Atomic!SaleVerdict(call.user, call.item, call.quantity)' =
              Atomic!SaleVerdict(call.user, call.item, call.quantity)
         /\ Atomic!RefundVerdict(call.user, call.purchase)' =
              Atomic!RefundVerdict(call.user, call.purchase)
         /\ Atomic!Restocked(Bought.item, Bought.quantity)' =
              Atomic!Restocked(Bought.item, Bought.quantity)
<1>1. /\ Atomic!TypeOK' <=> Atomic!TypeOK
      /\ old' = old /\ Registered' = Registered
  BY DEF Inside, Kept, Atomic!TypeOK, old, Registered
<1>2. /\ Cost' = Cost /\ Bought' = Bought /\ TopupRow' = TopupRow
  BY DEF Inside, Kept, Cost, Atomic!Total, Bought, old, TopupRow
<1>3. PurchaseRow' = PurchaseRow
  BY <1>1, <1>2 DEF Inside, PurchaseRow
<1>4. SaleEntry' = SaleEntry
  BY <1>1, <1>2 DEF Inside, SaleEntry
<1>5. RefundRow' = RefundRow
  BY <1>1, <1>2 DEF Inside, RefundRow
<1>6. /\ Atomic!RefTaken(call.ref)' = Atomic!RefTaken(call.ref)
      /\ Atomic!OpenedBalance(call.user)' = Atomic!OpenedBalance(call.user)
  BY DEF Inside, Kept, Atomic!RefTaken, Atomic!OpenedBalance
<1>7. Atomic!KeyVerdict(call.user, call.item, call.quantity, call.key)' =
        Atomic!KeyVerdict(call.user, call.item, call.quantity, call.key)
  BY DEF Inside, Kept, Atomic!KeyVerdict
<1>8. Atomic!SaleVerdict(call.user, call.item, call.quantity)' =
        Atomic!SaleVerdict(call.user, call.item, call.quantity)
  BY DEF Inside, Kept, Atomic!SaleVerdict, Atomic!Live, Atomic!CannotPay,
         Atomic!Total
<1>9. Atomic!RefundVerdict(call.user, call.purchase)' =
        Atomic!RefundVerdict(call.user, call.purchase)
  BY DEF Inside, Kept, Atomic!RefundVerdict, Atomic!IsAdmin, Atomic!Expired,
         Atomic!Age, Atomic!MayRefundLate, Atomic!Held
<1>10. Atomic!Restocked(Bought.item, Bought.quantity)' =
         Atomic!Restocked(Bought.item, Bought.quantity)
  BY <1>2 DEF Inside, Kept, Atomic!Restocked
<1> QED BY <1>1, <1>2, <1>3, <1>4, <1>5, <1>6, <1>7, <1>8, <1>9, <1>10

\* What is left to show of a statement that stays inside its block.
LEMMA InsideInv ==
  ASSUME Inv, Inside, TypeOK', Numbered', Block' PROVE Inv'
BY InsideKeeps DEF Inv, Inside, IndexInv, Indexed, old

\* The tables of Shop, and what they are made of, are those of the instance.
LEMMA InstanceTypes ==
  /\ Atomic!ItemRecord = ItemRecord /\ Atomic!TopupRecord = TopupRecord
  /\ Atomic!PurchaseRecord = PurchaseRecord /\ Atomic!RefundRecord = RefundRecord
  /\ Atomic!LedgerRecord = LedgerRecord
  /\ Atomic!IdempotencyRecord = IdempotencyRecord
  /\ \A S : Atomic!Optional(S) = Optional(S)
  /\ Atomic!ExternalRefs = ExternalRefs
  /\ Atomic!ItemIds = ItemIds /\ Atomic!PurchaseIds = PurchaseIds
  /\ Atomic!Time = Time
BY DEF Optional, ExternalRefs, Atomic!ExternalRefs, ItemRecord, ItemIds,
   TopupRecord, PurchaseRecord, PurchaseIds, RefundRecord, LedgerRecord, Payload, IdempotencyRecord, Time, Atomic!Optional,
   Atomic!ItemRecord, Atomic!ItemIds, Atomic!TopupRecord, Atomic!PurchaseRecord,
   Atomic!PurchaseIds, Atomic!RefundRecord, Atomic!LedgerRecord, Atomic!Payload,
   Atomic!IdempotencyRecord, Atomic!Time

LEMMA IdleTypes == ASSUME TypeOK', at' = "idle" PROVE Atomic!TypeOK'
BY InstanceTypes DEF Kept, TypeOK, Atomic!TypeOK

LEMMA OldTypes ==
  ASSUME Inv, at # "idle"
  PROVE  /\ old.wallet \in [Users -> Optional(Nat)]
         /\ old.items \in Seq(ItemRecord) /\ Len(old.items) <= MaxItems
         /\ old.topups \in Seq(TopupRecord)
         /\ old.purchases \in Seq(PurchaseRecord)
         /\ old.inventory \in [Users -> [ItemIds -> Nat]]
         /\ old.refunds \in Seq(RefundRecord)
         /\ old.refundByPurchase \in [PurchaseIds -> Optional(Nat)]
         /\ old.ledger \in Seq(LedgerRecord)
         /\ old.idempotency \in [Keys -> Optional(IdempotencyRecord)]
BY InstanceTypes DEF Inv, Kept, Atomic!TypeOK, old

-----------------------------------------------------------------------------
(* The statements of a top-up *)

LEMMA OpenWalletKeeps == ASSUME Inv, OpenWallet PROVE Inv'
<1>1. at = "topup:open" /\ at' = "topup:store" /\ TopupBlock /\ Inside
  BY DEF OpenWallet, Do, Inv, Block, TopupStages, Inside
<1>2. TypeOK'
  BY <1>1, StoreAssumption
  DEF OpenWallet, Inv, TypeOK, OpenedBalance, orderVars, refundVars, TopupBlock,
      TopupCall, Optional
<1>3. Numbered'
  BY <1>1 DEF OpenWallet, Inside, Inv, Numbered, Matches, orderVars, refundVars, old
<1>4. ~Atomic!RefTaken(call.ref)
      /\ OpenedBalance(call.user) = Atomic!OpenedBalance(call.user)
  BY <1>1 DEF OpenWallet, TopupBlock, Kept, Atomic!RefTaken, RefTaken,
              Atomic!OpenedBalance, OpenedBalance, old
<1>5. TopupBlock'
  BY <1>1, <1>4, InsideKeeps DEF OpenWallet, Inside, TopupBlock, orderVars, refundVars
<1> QED BY <1>1, <1>2, <1>3, <1>5, InsideInv
        DEF Block, TopupStages, BuyStages, RefundStages

LEMMA StoreTopupKeeps == ASSUME Inv, StoreTopup PROVE Inv'
<1>1. at = "topup:store" /\ at' = "topup:claim" /\ TopupBlock /\ Inside
  BY DEF StoreTopup, Do, Inv, Block, TopupStages, Inside
<1>2. TopupRow \in TopupRecord /\ topups \in Seq(TopupRecord)
      /\ counter.topups = Len(topups)
  BY <1>1, StoreAssumption
  DEF TopupBlock, TopupCall, TopupRow, TopupRecord, Inv, TypeOK, Numbered, Matches
<1>3. topups' = Append(topups, TopupRow)
  BY <1>2, PutNext DEF StoreTopup, TopupRow
<1>4. topups' \in Seq(TopupRecord) /\ Len(topups') = Len(topups) + 1
  BY <1>2, <1>3, RowAppended
<1>5. TypeOK'
  BY <1>4 DEF StoreTopup, Inv, TypeOK, orderVars, refundVars
<1>6. Numbered'
  BY <1>1, <1>4
  DEF StoreTopup, Inside, Inv, Numbered, Matches, orderVars, refundVars, old
<1>7. TopupBlock'
  BY <1>1, <1>3, InsideKeeps
  DEF StoreTopup, Inside, TopupBlock, orderVars, refundVars
<1> QED BY <1>1, <1>5, <1>6, <1>7, InsideInv
        DEF Block, TopupStages, BuyStages, RefundStages

LEMMA ClaimRefKeeps == ASSUME Inv, ClaimRef PROVE Inv'
<1>1. at = "topup:claim" /\ at' = "topup:credit" /\ TopupBlock /\ Inside
  BY DEF ClaimRef, Do, Inv, Block, TopupStages, Inside
<1>2. topups \in Seq(TopupRecord) /\ Len(topups) \in Nat
      /\ counter.topups = Len(topups) /\ topups = Append(old.topups, TopupRow)
  BY <1>1, LenProperties DEF TopupBlock, Inv, TypeOK, Numbered, Matches
<1>3. counter.topups = Len(old.topups) + 1
  <2>1. TopupRow \in TopupRecord
    BY <1>1, StoreAssumption DEF TopupBlock, TopupCall, TopupRow, TopupRecord
  <2>2. old.topups \in Seq(TopupRecord)
    BY <1>1, OldTypes
  <2> QED BY <1>2, <2>1, <2>2, RowAppended
<1>4. TypeOK'
  BY <1>2 DEF ClaimRef, Inv, TypeOK, orderVars, refundVars, Optional
<1>5. Numbered'
  BY <1>1 DEF ClaimRef, Inside, Inv, Numbered, Matches, orderVars, refundVars, old
<1>6. TopupBlock'
  BY <1>1, <1>3, InsideKeeps
  DEF ClaimRef, Inside, TopupBlock, orderVars, refundVars
<1> QED BY <1>1, <1>4, <1>5, <1>6, InsideInv
        DEF Block, TopupStages, BuyStages, RefundStages

LEMMA CreditTopupKeeps == ASSUME Inv, CreditTopup PROVE Inv'
<1>1. at = "topup:credit" /\ at' = "topup:record" /\ TopupBlock /\ Inside
  BY DEF CreditTopup, Do, Inv, Block, TopupStages, Inside
<1>2. call.user \in Users /\ call.amount \in Nat
  BY <1>1, StoreAssumption DEF TopupBlock, TopupCall
<1>3. /\ old.wallet \in [Users -> Optional(Nat)]
      /\ Atomic!OpenedBalance(call.user) \in Nat
  BY <1>1, <1>2, OldTypes DEF Kept, Optional, old, Atomic!OpenedBalance
<1>4. /\ wallet[call.user] = Atomic!OpenedBalance(call.user)
      /\ wallet' = [old.wallet EXCEPT ![call.user] =
                      Atomic!OpenedBalance(call.user) + call.amount]
  BY <1>1, <1>2, <1>3 DEF CreditTopup, TopupBlock
<1>5. TypeOK'
  BY <1>2, <1>3, <1>4 DEF CreditTopup, Inv, TypeOK, orderVars, refundVars, Optional
<1>6. Numbered'
  BY <1>1 DEF CreditTopup, Inside, Inv, Numbered, Matches, orderVars, refundVars, old
<1>7. TopupBlock'
  BY <1>1, <1>4, InsideKeeps
  DEF CreditTopup, Inside, TopupBlock, orderVars, refundVars
<1> QED BY <1>1, <1>5, <1>6, <1>7, InsideInv
        DEF Block, TopupStages, BuyStages, RefundStages

\* The row every block ends with, or nearly.
LEMMA RecordRow ==
  ASSUME Inv, NEW u \in Users,
         NEW op \in {"topup_credit", "purchase_debit", "refund_credit"},
         NEW p \in Optional(Nat), NEW r \in Optional(Nat), NEW amount \in Int,
         before \in Int, wallet[u] \in Int, Record(op, p, r, u, amount)
  PROVE  /\ ledger' = Append(ledger,
              [user |-> u, purchase |-> p, refund |-> r, operation |-> op,
               amount |-> amount, before |-> before, after |-> wallet[u]])
         /\ ledger' \in Seq(LedgerRecord)
         /\ counter' = [counter EXCEPT !.ledger = Len(ledger')]
<1> DEFINE row == [user |-> u, purchase |-> p, refund |-> r, operation |-> op,
                   amount |-> amount, before |-> before, after |-> wallet[u]]
<1>1. row \in LedgerRecord
  BY DEF LedgerRecord
<1>2. ledger \in Seq(LedgerRecord) /\ counter.ledger = Len(ledger)
  BY DEF Inv, TypeOK, Numbered, Matches
<1>3. ledger' = Put(ledger, Len(ledger) + 1, row)
  BY <1>2 DEF Record
<1> HIDE DEF row
<1>4. ledger' = Append(ledger, row)
  BY <1>1, <1>2, <1>3, PutNext
<1>5. ledger' \in Seq(LedgerRecord) /\ Len(ledger') = Len(ledger) + 1
  BY <1>1, <1>2, <1>4, RowAppended
<1>6. counter' = [counter EXCEPT !.ledger = Len(ledger')]
  BY <1>2, <1>5 DEF Record, Inv, Numbered, Matches
<1> QED BY <1>4, <1>5, <1>6 DEF row

\* The last statement of a top-up is the top-up.
LEMMA RecordTopupKeeps ==
  ASSUME Inv, RecordTopup
  PROVE  /\ Inv'
         /\ Atomic!Topup(call.user, call.amount, call.ref)
<1>1. at = "topup:record" /\ at' = "idle" /\ TopupBlock
  BY DEF RecordTopup, Do, Inv, Block, TopupStages
<1>2. call.user \in Users /\ call.amount \in Nat
  BY <1>1, StoreAssumption DEF TopupBlock, TopupCall
<1>3. /\ old.wallet \in [Users -> Optional(Nat)]
      /\ Atomic!OpenedBalance(call.user) \in Nat
  BY <1>1, <1>2, OldTypes DEF Kept, Optional, old, Atomic!OpenedBalance
<1>4. /\ wallet[call.user] = Atomic!OpenedBalance(call.user) + call.amount
      /\ before = Atomic!OpenedBalance(call.user)
  BY <1>1, <1>2, <1>3 DEF TopupBlock
<1>5. /\ ledger' = Append(ledger,
            [user |-> call.user, purchase |-> None, refund |-> None,
             operation |-> "topup_credit", amount |-> call.amount,
             before |-> before, after |-> wallet[call.user]])
      /\ ledger' \in Seq(LedgerRecord)
      /\ counter' = [counter EXCEPT !.ledger = Len(ledger')]
  <2>1. None \in Optional(Nat) /\ call.amount \in Int /\ before \in Int
        /\ wallet[call.user] \in Int
    BY <1>2, <1>3, <1>4 DEF Optional
  <2>2. Record("topup_credit", None, None, call.user, call.amount)
    BY DEF RecordTopup
  <2> QED BY <1>2, <2>1, <2>2, RecordRow
<1>6. TypeOK'
  BY <1>5 DEF RecordTopup, Inv, TypeOK, orderVars, refundVars
<1>7. Atomic!TypeOK'
  BY <1>1, <1>6, IdleTypes
<1>8. Numbered' /\ IndexInv' /\ Block'
  BY <1>1, <1>5 DEF RecordTopup, Inv, Numbered, Matches, IndexInv, Indexed, Block,
     TopupBlock, TopupStages, BuyStages, RefundStages, orderVars, refundVars, old
<1>9. Atomic!Topup(call.user, call.amount, call.ref)
  BY <1>1, <1>4, <1>5 DEF RecordTopup, TopupBlock, TopupRow, Kept, Atomic!Topup,
     Atomic!Registered, Registered, Atomic!RecordTransaction, Atomic!orderVars,
     Atomic!refundVars, orderVars, refundVars, old
<1> QED BY <1>6, <1>7, <1>8, <1>9 DEF Inv

-----------------------------------------------------------------------------
(* The statements of a purchase *)

\* A call of it has arguments of their types.
LEMMA BuyArguments ==
  ASSUME BuyBlock
  PROVE  /\ call.user \in Users /\ call.item \in ItemIds /\ call.key \in Keys
         /\ call.quantity \in Quantities /\ call.quantity \in Nat
BY StoreAssumption DEF BuyBlock, BuyCall

\* What the checks found when it got past them.
LEMMA SaleFacts ==
  ASSUME Inv, BuyBlock, at \notin {"idle", "buy:key", "buy:check"}
  PROVE  /\ call.item \in DOMAIN old.items
         /\ old.items[call.item] \in ItemRecord
         /\ old.items[call.item].stock # None
              => old.items[call.item].stock >= call.quantity
         /\ old.wallet[call.user] \in Nat /\ Cost \in Nat
         /\ Cost = old.items[call.item].price * call.quantity
         /\ old.wallet[call.user] >= Cost
<1>1. Atomic!SaleVerdict(call.user, call.item, call.quantity) = "created"
  BY DEF BuyBlock
<1>2. /\ call.item \in DOMAIN old.items
      /\ old.items[call.item].stock # None
           => ~(old.items[call.item].stock < call.quantity)
      /\ old.wallet[call.user] # None /\ ~(old.wallet[call.user] < Cost)
      /\ Cost = old.items[call.item].price * call.quantity
  BY <1>1 DEF Atomic!SaleVerdict, Atomic!Live, Atomic!CannotPay, Atomic!Total, Kept,
              Cost, old
<1>3. old.items[call.item] \in ItemRecord
  BY <1>2, OldTypes, ElementOfSeq, LenProperties
<1>4. /\ old.items[call.item].price \in Nat
      /\ old.items[call.item].stock \in Optional(Nat)
  BY <1>3 DEF ItemRecord
<1>5. old.wallet[call.user] \in Nat /\ Cost \in Nat
  BY <1>2, <1>4, OldTypes, BuyArguments DEF Optional
<1> QED BY <1>2, <1>3, <1>4, <1>5, BuyArguments DEF Optional

LEMMA OpenRecordKeeps == ASSUME Inv, OpenRecord PROVE Inv'
<1>1. at = "buy:key" /\ at' = "buy:check" /\ BuyBlock /\ Inside
  BY DEF OpenRecord, Do, Inv, Block, BuyStages, Inside
<1>2. InProgress(call.user, call.item, call.quantity) \in IdempotencyRecord
  BY <1>1, BuyArguments DEF InProgress, IdempotencyRecord, Payload, PayloadOf, Optional
<1>3. TypeOK'
  BY <1>2 DEF OpenRecord, Inv, TypeOK, walletVars, refundVars, Optional
<1>4. Numbered'
  BY <1>1 DEF OpenRecord, Inside, Inv, Numbered, Matches, walletVars, refundVars, old
<1>5. Atomic!KeyVerdict(call.user, call.item, call.quantity, call.key) = "free"
  BY <1>1 DEF OpenRecord, CallVerdict, KeyVerdict, PayloadOf, BuyBlock, Kept,
              Atomic!KeyVerdict, Atomic!PayloadOf, old
<1>6. BuyBlock'
  BY <1>1, <1>5, InsideKeeps DEF OpenRecord, Inside, BuyBlock, walletVars, refundVars
<1> QED BY <1>1, <1>3, <1>4, <1>6, InsideInv
        DEF Block, TopupStages, BuyStages, RefundStages

LEMMA CheckSaleKeeps == ASSUME Inv, CheckSale PROVE Inv'
<1>1. at = "buy:check" /\ at' = "buy:debit" /\ BuyBlock /\ Inside
  BY DEF CheckSale, Do, Inv, Block, BuyStages, Inside, vars
<1>2. TypeOK'
  BY DEF CheckSale, Inv, TypeOK, vars, walletVars, orderVars, refundVars
<1>3. Numbered'
  BY <1>1 DEF CheckSale, Inside, Inv, Numbered, Matches, vars, walletVars,
              orderVars, refundVars, old
<1>4. Atomic!SaleVerdict(call.user, call.item, call.quantity) = "created"
  BY <1>1 DEF CheckSale, SaleVerdict, Live, CannotPay, Total, BuyBlock, Kept,
     Atomic!SaleVerdict, Atomic!Live, Atomic!CannotPay, Atomic!Total, old
<1>5. Len(old.purchases) < MaxPurchases
  BY <1>1 DEF CheckSale, Inv, Numbered, Matches, BuyBlock
<1>6. BuyBlock'
  BY <1>1, <1>4, <1>5, InsideKeeps
  DEF CheckSale, Inside, BuyBlock, vars, walletVars, orderVars, refundVars
<1> QED BY <1>1, <1>2, <1>3, <1>6, InsideInv
        DEF Block, TopupStages, BuyStages, RefundStages

LEMMA DebitKeeps == ASSUME Inv, Debit PROVE Inv'
<1>1. at = "buy:debit" /\ at' = "buy:take" /\ BuyBlock /\ Inside
  BY DEF Debit, Do, Inv, Block, BuyStages, Inside
<1>2. Total(call.item, call.quantity) = Cost
  BY <1>1 DEF BuyBlock, Total, Cost, Atomic!Total, Kept, old
<1>3. wallet = old.wallet /\ wallet[call.user] - Cost \in Nat
  BY <1>1, SaleFacts DEF BuyBlock
<1>4. TypeOK'
  BY <1>2, <1>3 DEF Debit, Inv, TypeOK, orderVars, refundVars, Optional
<1>5. Numbered'
  BY <1>1 DEF Debit, Inside, Inv, Numbered, Matches, orderVars, refundVars, old
<1>6. BuyBlock'
  BY <1>1, <1>2, <1>3, InsideKeeps DEF Debit, Inside, BuyBlock, orderVars, refundVars
<1> QED BY <1>1, <1>4, <1>5, <1>6, InsideInv
        DEF Block, TopupStages, BuyStages, RefundStages

LEMMA TakeStockKeeps == ASSUME Inv, TakeStock PROVE Inv'
<1>1. at = "buy:take" /\ at' = "buy:deliver" /\ BuyBlock /\ Inside
  BY DEF TakeStock, Do, Inv, Block, BuyStages, Inside
<1> DEFINE i == call.item
           sold == [items[i] EXCEPT !.stock = IF @ = None THEN @ ELSE @ - call.quantity]
<1>2. items = old.items /\ i \in DOMAIN items /\ items' = [items EXCEPT ![i] = sold]
  BY <1>1, SaleFacts DEF TakeStock, BuyBlock
<1>3. sold \in ItemRecord
  BY <1>1, <1>2, SaleFacts, BuyArguments DEF ItemRecord, Optional
<1>4. items' \in Seq(ItemRecord) /\ Len(items') = Len(items)
  <2> HIDE DEF sold
  <2> QED BY <1>2, <1>3, RowWritten DEF Inv, TypeOK
<1>5. TypeOK'
  BY <1>4 DEF TakeStock, Inv, TypeOK, walletVars, orderVars, refundVars
<1>6. Numbered'
  BY <1>1 DEF TakeStock, Inside, Inv, Numbered, Matches, walletVars, orderVars,
              refundVars, old
<1>7. BuyBlock'
  BY <1>1, InsideKeeps
  DEF TakeStock, Inside, BuyBlock, walletVars, orderVars, refundVars
<1> QED BY <1>1, <1>5, <1>6, <1>7, InsideInv
        DEF Block, TopupStages, BuyStages, RefundStages

LEMMA DeliverKeeps == ASSUME Inv, Deliver PROVE Inv'
<1>1. at = "buy:deliver" /\ at' = "buy:store" /\ BuyBlock /\ Inside
  BY DEF Deliver, Do, Inv, Block, BuyStages, Inside
<1>2. TypeOK'
  BY <1>1, BuyArguments DEF Deliver, Inv, TypeOK, walletVars, refundVars
<1>3. Numbered'
  BY <1>1 DEF Deliver, Inside, Inv, Numbered, Matches, walletVars, refundVars, old
<1>4. BuyBlock'
  BY <1>1, InsideKeeps DEF Deliver, Inside, BuyBlock, walletVars, refundVars
<1> QED BY <1>1, <1>2, <1>3, <1>4, InsideInv
        DEF Block, TopupStages, BuyStages, RefundStages

LEMMA StorePurchaseKeeps == ASSUME Inv, StorePurchase PROVE Inv'
<1>1. at = "buy:store" /\ at' = "buy:index" /\ BuyBlock /\ Inside
  BY DEF StorePurchase, Do, Inv, Block, BuyStages, Inside
<1> DEFINE i == call.item
<1>2. /\ i \in DOMAIN old.items /\ old.items[i] \in ItemRecord
      /\ items = [old.items EXCEPT ![i] =
                    [old.items[i] EXCEPT !.stock =
                       IF @ = None THEN @ ELSE @ - call.quantity]]
      /\ Cost = old.items[i].price * call.quantity /\ Cost \in Nat
  BY <1>1, SaleFacts DEF BuyBlock
<1>3. items[i].price = old.items[i].price
  BY <1>2, OldTypes, <1>1 DEF ItemRecord
<1>4. Total(i, call.quantity) = Cost
  BY <1>2, <1>3 DEF Total
<1>5. PurchaseRow \in PurchaseRecord
  <2>1. old.items[i].price \in Nat /\ now \in Time
    BY <1>2 DEF ItemRecord, Inv, TypeOK
  <2> QED BY <1>1, <1>2, <2>1, BuyArguments DEF PurchaseRow, PurchaseRecord
<1>6. purchases = old.purchases /\ purchases \in Seq(PurchaseRecord)
      /\ counter.purchases = Len(purchases) /\ Len(purchases) < MaxPurchases
      /\ Len(purchases) \in Nat
  BY <1>1, LenProperties DEF BuyBlock, Inv, TypeOK, Numbered, Matches
<1>7. purchases' = Put(purchases, Len(purchases) + 1, PurchaseRow)
  BY <1>3, <1>4, <1>6 DEF StorePurchase, PurchaseRow
<1>8. /\ purchases' = Append(purchases, PurchaseRow)
      /\ purchases' \in Seq(PurchaseRecord) /\ Len(purchases') = Len(purchases) + 1
  <2>1. purchases' = Append(purchases, PurchaseRow)
    BY <1>5, <1>6, <1>7, PutNext
  <2> QED BY <1>5, <1>6, <2>1, RowAppended
<1>9. Len(purchases') <= MaxPurchases
  BY <1>6, <1>8, StoreAssumption
<1>10. TypeOK'
  BY <1>8, <1>9 DEF StorePurchase, Inv, TypeOK, walletVars, refundVars
<1>11. Numbered'
  BY <1>1, <1>6, <1>8
  DEF StorePurchase, Inside, Inv, Numbered, Matches, walletVars, refundVars, old
<1>12. BuyBlock'
  BY <1>1, <1>6, <1>8, InsideKeeps
  DEF StorePurchase, Inside, BuyBlock, walletVars, refundVars
<1> QED BY <1>1, <1>10, <1>11, <1>12, InsideInv
        DEF Block, TopupStages, BuyStages, RefundStages

\* The purchase that has just been stored has the next id.
LEMMA StoredId ==
  ASSUME Inv, BuyBlock, at \in {"buy:index", "buy:record", "buy:complete"}
  PROVE  /\ counter.purchases = Len(old.purchases) + 1
         /\ Len(old.purchases) + 1 \in Nat
<1>1. /\ old.purchases \in Seq(PurchaseRecord) /\ Len(old.purchases) \in Nat
      /\ old.items[call.item] \in ItemRecord /\ Cost \in Nat
  BY OldTypes, SaleFacts, LenProperties
<1>2. PurchaseRow \in PurchaseRecord
  <2>1. old.items[call.item].price \in Nat /\ now \in Time
    BY <1>1 DEF ItemRecord, Inv, TypeOK
  <2> QED BY <1>1, <2>1, BuyArguments DEF PurchaseRow, PurchaseRecord
<1>3. purchases = Append(old.purchases, PurchaseRow)
      /\ counter.purchases = Len(purchases)
  BY DEF BuyBlock, Inv, Numbered, Matches
<1> QED BY <1>1, <1>2, <1>3, RowAppended

LEMMA IndexKeyKeeps == ASSUME Inv, IndexKey PROVE Inv'
<1>1. at = "buy:index" /\ at' = "buy:record" /\ BuyBlock /\ Inside
  BY DEF IndexKey, Do, Inv, Block, BuyStages, Inside, vars
<1>2. TypeOK'
  BY DEF IndexKey, Inv, TypeOK, vars, walletVars, orderVars, refundVars
<1>3. Numbered'
  BY <1>1 DEF IndexKey, Inside, Inv, Numbered, Matches, vars, walletVars,
              orderVars, refundVars, old
<1>4. BuyBlock'
  BY <1>1, StoredId, InsideKeeps
  DEF IndexKey, Inside, BuyBlock, vars, walletVars, orderVars, refundVars
<1> QED BY <1>1, <1>2, <1>3, <1>4, InsideInv
        DEF Block, TopupStages, BuyStages, RefundStages

LEMMA RecordPurchaseKeeps == ASSUME Inv, RecordPurchase PROVE Inv'
<1>1. at = "buy:record" /\ at' = "buy:complete" /\ BuyBlock /\ Inside
  BY DEF RecordPurchase, Do, Inv, Block, BuyStages, Inside
<1> DEFINE i == call.item
           u == call.user
<1>2. /\ i \in DOMAIN old.items /\ old.items[i] \in ItemRecord
      /\ items = [old.items EXCEPT ![i] =
                    [old.items[i] EXCEPT !.stock =
                       IF @ = None THEN @ ELSE @ - call.quantity]]
      /\ Cost = old.items[i].price * call.quantity /\ Cost \in Nat
      /\ old.wallet[u] \in Nat /\ before = old.wallet[u]
      /\ wallet = [old.wallet EXCEPT ![u] = @ - Cost]
  BY <1>1, SaleFacts DEF BuyBlock
<1>3. Total(i, call.quantity) = Cost
  BY <1>1, <1>2, OldTypes DEF Total, ItemRecord
<1>4. wallet[u] = old.wallet[u] - Cost
  BY <1>1, <1>2, OldTypes, BuyArguments
<1>5. /\ ledger' = Append(ledger,
            [user |-> u, purchase |-> Len(old.purchases) + 1, refund |-> None,
             operation |-> "purchase_debit", amount |-> -Cost, before |-> before,
             after |-> wallet[u]])
      /\ ledger' \in Seq(LedgerRecord)
      /\ counter' = [counter EXCEPT !.ledger = Len(ledger')]
  <2>1. /\ Len(old.purchases) + 1 \in Optional(Nat) /\ None \in Optional(Nat)
        /\ -Cost \in Int /\ before \in Int /\ wallet[u] \in Int /\ u \in Users
    BY <1>1, <1>2, <1>4, StoredId, BuyArguments DEF Optional
  <2>2. Record("purchase_debit", Len(old.purchases) + 1, None, u, -Cost)
    BY <1>1, <1>3, StoredId DEF RecordPurchase
  <2> HIDE DEF u
  <2> QED BY <2>1, <2>2, RecordRow
<1>6. ledger' = Append(old.ledger, SaleEntry)
  BY <1>1, <1>2, <1>4, <1>5 DEF BuyBlock, SaleEntry
<1>7. TypeOK'
  BY <1>5 DEF RecordPurchase, Inv, TypeOK, orderVars, refundVars
<1>8. Numbered'
  BY <1>1, <1>5
  DEF RecordPurchase, Inside, Inv, Numbered, Matches, orderVars, refundVars, old
<1>9. BuyBlock'
  BY <1>1, <1>6, InsideKeeps
  DEF RecordPurchase, Inside, BuyBlock, orderVars, refundVars
<1> QED BY <1>1, <1>7, <1>8, <1>9, InsideInv
        DEF Block, TopupStages, BuyStages, RefundStages

\* The last statement of a purchase is the purchase.
LEMMA CompleteRecordKeeps ==
  ASSUME Inv, CompleteRecord
  PROVE  /\ Inv'
         /\ Atomic!BuyNew(call.user, call.item, call.quantity, call.key)
<1>1. at = "buy:complete" /\ at' = "idle" /\ BuyBlock
  BY DEF CompleteRecord, Do, Inv, Block, BuyStages
<1> DEFINE k == call.key
           id == Len(old.purchases) + 1
           opened == InProgress(call.user, call.item, call.quantity)
           closed == [opened EXCEPT !.status = "completed", !.result = id]
<1>2. k \in Keys /\ id \in Nat /\ counter.purchases = id
      /\ opened \in IdempotencyRecord /\ closed \in IdempotencyRecord
  BY <1>1, StoredId, BuyArguments
  DEF InProgress, IdempotencyRecord, Payload, PayloadOf, Optional
<1>3. idempotency' = [old.idempotency EXCEPT ![k] = closed]
  <2>1. idempotency = [old.idempotency EXCEPT ![k] = opened]
    BY <1>1 DEF BuyBlock
  <2>2. idempotency' = [idempotency EXCEPT ![k] =
                          [idempotency[k] EXCEPT !.status = "completed",
                                                 !.result = id]]
    BY <1>2, <2>1, <1>1, OldTypes DEF CompleteRecord, InProgress
  <2> HIDE DEF opened, k, id
  <2> QED BY <1>1, <1>2, <2>1, <2>2, OldTypes
<1>4. TypeOK'
  <2>1. idempotency' \in [Keys -> Optional(IdempotencyRecord)]
    <3> HIDE DEF closed, k
    <3> QED BY <1>1, <1>2, <1>3, OldTypes DEF Optional
  <2> QED BY <2>1 DEF CompleteRecord, Inv, TypeOK, walletVars, refundVars
<1>5. Numbered'
  BY <1>1 DEF CompleteRecord, Inv, Numbered, Matches, walletVars, refundVars
<1>6. IndexInv'
  <2>1. byKey' = [old.byKey EXCEPT ![k] =
                    [id |-> id, payload |-> PayloadOf(call.user, call.item,
                                                      call.quantity)]]
    BY <1>1 DEF CompleteRecord, BuyBlock
  <2>2. Indexed(old.byKey, old.idempotency)
    BY <1>1 DEF Inv, IndexInv
  <2>3. closed # None /\ closed.result = id
        /\ closed.payload = PayloadOf(call.user, call.item, call.quantity)
    BY <1>2, NoRecordAssumption DEF InProgress
  <2> HIDE DEF closed, k, id
  <2>4. Indexed(byKey', idempotency')
    BY <1>1, <1>2, <1>3, <2>1, <2>2, <2>3, OldTypes DEF Indexed
  <2> QED BY <1>1, <2>4 DEF IndexInv
<1>7. Block'
  BY <1>1 DEF Block, TopupStages, BuyStages, RefundStages
<1>8. Atomic!BuyNew(call.user, call.item, call.quantity, call.key)
  <2>1. Atomic!BuyVerdict(call.user, call.item, call.quantity, call.key) = "created"
    BY <1>1 DEF BuyBlock, Atomic!BuyVerdict
  <2>2. id <= MaxPurchases
    BY <1>1, <1>2, StoreAssumption DEF BuyBlock
  <2>3. opened = Atomic!InProgress(call.user, call.item, call.quantity)
    BY DEF InProgress, Atomic!InProgress, PayloadOf, Atomic!PayloadOf
  <2>4. Atomic!RecordTransaction(call.user, "purchase_debit", id, None, -Cost,
                                 old.wallet[call.user], old.wallet[call.user] - Cost)
    BY <1>1 DEF CompleteRecord, BuyBlock, SaleEntry, Kept, Atomic!RecordTransaction,
                walletVars, old
  <2> HIDE DEF opened
  <2> QED BY <1>1, <1>3, <2>1, <2>2, <2>3, <2>4
      DEF CompleteRecord, BuyBlock, PurchaseRow, Cost, Kept, Atomic!BuyNew,
          Atomic!Registered, Registered, Atomic!refundVars, refundVars, walletVars, old
<1> QED BY <1>1, <1>4, <1>5, <1>6, <1>7, <1>8, IdleTypes DEF Inv

-----------------------------------------------------------------------------
(* The statements of a refund *)

\* What its checks found when it got past them.
LEMMA RefundFacts ==
  ASSUME Inv, RefundBlock, at \notin {"idle", "refund:check"}
  PROVE  /\ call.purchase \in DOMAIN old.purchases
         /\ call.purchase \in PurchaseIds
         /\ Bought \in PurchaseRecord
         /\ Bought.user \in Users /\ Bought.item \in ItemIds
         /\ Bought.quantity \in Nat /\ Bought.total \in Nat
         /\ old.wallet[Bought.user] \in Nat
<1>1. Atomic!RefundVerdict(call.user, call.purchase) = "created"
      /\ call.purchase \in PurchaseIds
  BY DEF RefundBlock, RefundCall
<1>2. call.purchase \in DOMAIN old.purchases /\ old.wallet[Bought.user] # None
  BY <1>1 DEF Atomic!RefundVerdict, Kept, Bought, old
<1>3. Bought \in PurchaseRecord
  BY <1>2, OldTypes, ElementOfSeq, LenProperties DEF Bought
<1>4. /\ Bought.user \in Users /\ Bought.item \in ItemIds
      /\ Bought.quantity \in Nat /\ Bought.total \in Nat
  BY <1>3 DEF PurchaseRecord
<1> QED BY <1>1, <1>2, <1>3, <1>4, OldTypes DEF Optional

\* The local variable of the code names the row, settled or not.
LEMMA RefundedRow ==
  ASSUME Inv, RefundBlock, at \notin {"idle", "refund:check"}
  PROVE  /\ Owner = Bought.user /\ Refunded.item = Bought.item
         /\ Refunded.quantity = Bought.quantity
         /\ Credit(call.purchase) = Bought.total
<1>1. Refunded = Bought \/ Refunded = [Bought EXCEPT !.status = "refunded"]
  BY RefundFacts DEF RefundBlock, Refunded, Bought
<1>2. /\ Refunded.user = Bought.user /\ Refunded.item = Bought.item
      /\ Refunded.quantity = Bought.quantity /\ Refunded.total = Bought.total
  BY <1>1, RefundFacts DEF PurchaseRecord
<1> QED BY <1>2 DEF Owner, Credit, Refunded

LEMMA CheckRefundKeeps == ASSUME Inv, CheckRefund PROVE Inv'
<1>1. at = "refund:check" /\ at' = "refund:credit" /\ RefundBlock /\ Inside
  BY DEF CheckRefund, Do, Inv, Block, RefundStages, Inside, vars
<1>2. TypeOK'
  BY DEF CheckRefund, Inv, TypeOK, vars, walletVars, orderVars, refundVars
<1>3. Numbered'
  BY <1>1 DEF CheckRefund, Inside, Inv, Numbered, Matches, vars, walletVars,
              orderVars, refundVars, old
<1>4. Atomic!RefundVerdict(call.user, call.purchase) = "created"
  BY <1>1 DEF CheckRefund, RefundBlock, Kept, RefundVerdict, IsAdmin, Expired, Age,
     MayRefundLate, Held, Atomic!RefundVerdict, Atomic!IsAdmin, Atomic!Expired,
     Atomic!Age, Atomic!MayRefundLate, Atomic!Held, old
<1>5. RefundBlock'
  BY <1>1, <1>4, InsideKeeps
  DEF CheckRefund, Inside, RefundBlock, vars, walletVars, orderVars, refundVars
<1> QED BY <1>1, <1>2, <1>3, <1>5, InsideInv
        DEF Block, TopupStages, BuyStages, RefundStages

LEMMA CreditRefundKeeps == ASSUME Inv, CreditRefund PROVE Inv'
<1>1. at = "refund:credit" /\ at' = "refund:take" /\ RefundBlock /\ Inside
  BY DEF CreditRefund, Do, Inv, Block, RefundStages, Inside
<1>2. /\ wallet = old.wallet /\ before' = old.wallet[Bought.user]
      /\ wallet' = [old.wallet EXCEPT ![Bought.user] = @ + Bought.total]
      /\ Bought.user \in Users /\ old.wallet[Bought.user] + Bought.total \in Nat
  BY <1>1, RefundedRow, RefundFacts DEF CreditRefund, RefundBlock
<1>3. TypeOK'
  <2>1. wallet' \in [Users -> Optional(Nat)]
    BY <1>1, <1>2, OldTypes DEF Optional
  <2> QED BY <2>1 DEF CreditRefund, Inv, TypeOK, orderVars, refundVars
<1>4. Numbered'
  BY <1>1 DEF CreditRefund, Inside, Inv, Numbered, Matches, orderVars, refundVars, old
<1>5. RefundBlock'
  BY <1>1, <1>2, InsideKeeps
  DEF CreditRefund, Inside, RefundBlock, orderVars, refundVars
<1> QED BY <1>1, <1>3, <1>4, <1>5, InsideInv
        DEF Block, TopupStages, BuyStages, RefundStages

LEMMA TakeBackKeeps == ASSUME Inv, TakeBack PROVE Inv'
<1>1. at = "refund:take" /\ at' = "refund:restock" /\ RefundBlock /\ Inside
  BY DEF TakeBack, Do, Inv, Block, RefundStages, Inside
<1>2. /\ inventory = old.inventory
      /\ inventory' = [inventory EXCEPT ![Bought.user][Bought.item] =
                         Less(@, Bought.quantity)]
      /\ Bought.user \in Users /\ Bought.item \in ItemIds /\ Bought.quantity \in Nat
  BY <1>1, RefundedRow, RefundFacts DEF TakeBack, RefundBlock
<1>3. TypeOK'
  <2>1. Less(inventory[Bought.user][Bought.item], Bought.quantity) \in Nat
    BY <1>2 DEF Inv, TypeOK, Less
  <2>2. inventory' \in [Users -> [ItemIds -> Nat]]
    BY <1>1, <1>2, <2>1, OldTypes
  <2> QED BY <2>2 DEF TakeBack, Inv, TypeOK, walletVars, refundVars
<1>4. Numbered'
  BY <1>1 DEF TakeBack, Inside, Inv, Numbered, Matches, walletVars, refundVars, old
<1>5. RefundBlock'
  BY <1>1, <1>2, InsideKeeps DEF TakeBack, Inside, RefundBlock, walletVars, refundVars
<1> QED BY <1>1, <1>3, <1>4, <1>5, InsideInv
        DEF Block, TopupStages, BuyStages, RefundStages

LEMMA RestockKeeps == ASSUME Inv, Restock PROVE Inv'
<1>1. at = "refund:restock" /\ at' = "refund:settle" /\ RefundBlock /\ Inside
  BY DEF Restock, Do, Inv, Block, RefundStages, Inside
<1> DEFINE i == Bought.item
           stock == Restocked(i, Bought.quantity)
<1>2. items = old.items /\ items' = [items EXCEPT ![i].stock = stock]
      /\ Bought.quantity \in Nat
  BY <1>1, RefundedRow, RefundFacts DEF Restock, RefundBlock
<1>3. stock = Atomic!Restocked(i, Bought.quantity)
  BY <1>1, <1>2 DEF Restocked, Atomic!Restocked, Kept, old
<1>4. items' \in Seq(ItemRecord) /\ Len(items') = Len(items)
  <2>1. CASE i \in DOMAIN items
    <3> DEFINE row == [items[i] EXCEPT !.stock = stock]
    <3>1. items[i] \in ItemRecord
      BY <2>1, ItemType DEF Inv
    <3>2. row \in ItemRecord
      BY <1>2, <3>1 DEF ItemRecord, Restocked, Optional
    <3>3. items' = [items EXCEPT ![i] = row]
      BY <1>2
    <3> HIDE DEF row
    <3> QED BY <2>1, <3>2, <3>3, RowWritten DEF Inv, TypeOK
  <2>2. CASE i \notin DOMAIN items
    <3>1. items' = items
      BY <1>2, <2>2, LenProperties DEF Inv, TypeOK
    <3> QED BY <3>1 DEF Inv, TypeOK
  <2> QED BY <2>1, <2>2
<1>5. TypeOK'
  BY <1>4 DEF Restock, Inv, TypeOK, walletVars, orderVars, refundVars
<1>6. Numbered'
  BY <1>1 DEF Restock, Inside, Inv, Numbered, Matches, walletVars, orderVars,
              refundVars, old
<1>7. RefundBlock'
  <2>1. items' = [old.items EXCEPT ![i].stock = Atomic!Restocked(i, Bought.quantity)]
    BY <1>2, <1>3
  <2> QED BY <1>1, <2>1, InsideKeeps
      DEF Restock, Inside, RefundBlock, walletVars, orderVars, refundVars
<1> QED BY <1>1, <1>5, <1>6, <1>7, InsideInv
        DEF Block, TopupStages, BuyStages, RefundStages

LEMMA SettlePurchaseKeeps == ASSUME Inv, SettlePurchase PROVE Inv'
<1>1. at = "refund:settle" /\ at' = "refund:store" /\ RefundBlock /\ Inside
  BY DEF SettlePurchase, Do, Inv, Block, RefundStages, Inside
<1> DEFINE row == [Bought EXCEPT !.status = "refunded"]
<1>2. /\ purchases = old.purchases /\ call.purchase \in DOMAIN purchases
      /\ purchases' = [purchases EXCEPT ![call.purchase] = row]
  BY <1>1, RefundFacts DEF SettlePurchase, Settled, RefundBlock, Bought
<1>3. row \in PurchaseRecord
  BY <1>1, RefundFacts DEF PurchaseRecord
<1>4. purchases' \in Seq(PurchaseRecord) /\ Len(purchases') = Len(purchases)
  <2> HIDE DEF row
  <2> QED BY <1>2, <1>3, RowWritten DEF Inv, TypeOK
<1>5. TypeOK'
  BY <1>4 DEF SettlePurchase, Inv, TypeOK, walletVars, refundVars
<1>6. Numbered'
  BY <1>1, <1>4 DEF SettlePurchase, Inside, Inv, Numbered, Matches, walletVars,
                    refundVars, old
<1>7. RefundBlock'
  BY <1>1, <1>2, InsideKeeps
  DEF SettlePurchase, Inside, RefundBlock, walletVars, refundVars
<1> QED BY <1>1, <1>5, <1>6, <1>7, InsideInv
        DEF Block, TopupStages, BuyStages, RefundStages

LEMMA RefundRowType ==
  ASSUME Inv, RefundBlock, at \notin {"idle", "refund:check"}
  PROVE  RefundRow \in RefundRecord
<1>1. call.purchase \in Nat /\ now \in Time
  BY RefundFacts, StoreAssumption DEF PurchaseIds, Inv, TypeOK
<1> QED BY <1>1, RefundFacts DEF RefundRow, RefundRecord

LEMMA StoreRefundKeeps == ASSUME Inv, StoreRefund PROVE Inv'
<1>1. at = "refund:store" /\ at' = "refund:index" /\ RefundBlock /\ Inside
  BY DEF StoreRefund, Do, Inv, Block, RefundStages, Inside
<1>2. refunds = old.refunds /\ refunds \in Seq(RefundRecord)
      /\ counter.refunds = Len(refunds)
  BY <1>1 DEF RefundBlock, Inv, TypeOK, Numbered, Matches
<1>3. refunds' = Append(refunds, RefundRow)
  <2>1. refunds' = Put(refunds, Len(refunds) + 1, RefundRow)
    BY <1>1, <1>2, RefundedRow DEF StoreRefund, RefundRow
  <2> QED BY <1>1, <1>2, <2>1, RefundRowType, PutNext
<1>4. refunds' \in Seq(RefundRecord) /\ Len(refunds') = Len(refunds) + 1
  BY <1>1, <1>2, <1>3, RefundRowType, RowAppended
<1>5. TypeOK'
  BY <1>4 DEF StoreRefund, Inv, TypeOK, walletVars, orderVars
<1>6. Numbered'
  BY <1>1, <1>2, <1>4 DEF StoreRefund, Inside, Inv, Numbered, Matches, walletVars,
                          orderVars, old
<1>7. RefundBlock'
  BY <1>1, <1>2, <1>3, InsideKeeps
  DEF StoreRefund, Inside, RefundBlock, walletVars, orderVars
<1> QED BY <1>1, <1>5, <1>6, <1>7, InsideInv
        DEF Block, TopupStages, BuyStages, RefundStages

\* The refund that has just been stored has the next id.
LEMMA RefundId ==
  ASSUME Inv, RefundBlock, at \in {"refund:index", "refund:record"}
  PROVE  counter.refunds = Len(old.refunds) + 1 /\ Len(old.refunds) + 1 \in Nat
<1>1. old.refunds \in Seq(RefundRecord) /\ Len(old.refunds) \in Nat
      /\ RefundRow \in RefundRecord
  BY OldTypes, RefundRowType, LenProperties
<1>2. refunds = Append(old.refunds, RefundRow) /\ counter.refunds = Len(refunds)
  BY DEF RefundBlock, Inv, Numbered, Matches
<1> QED BY <1>1, <1>2, RowAppended

LEMMA IndexRefundKeeps == ASSUME Inv, IndexRefund PROVE Inv'
<1>1. at = "refund:index" /\ at' = "refund:record" /\ RefundBlock /\ Inside
  BY DEF IndexRefund, Do, Inv, Block, RefundStages, Inside
<1>2. refundByPurchase' = [old.refundByPurchase EXCEPT ![call.purchase] =
                             Len(old.refunds) + 1]
  BY <1>1, RefundId DEF IndexRefund, RefundBlock
<1>3. TypeOK'
  BY <1>1, RefundId DEF IndexRefund, Inv, TypeOK, walletVars, orderVars, Optional
<1>4. Numbered'
  BY <1>1 DEF IndexRefund, Inside, Inv, Numbered, Matches, walletVars, orderVars, old
<1>5. RefundBlock'
  BY <1>1, <1>2, InsideKeeps
  DEF IndexRefund, Inside, RefundBlock, walletVars, orderVars
<1> QED BY <1>1, <1>3, <1>4, <1>5, InsideInv
        DEF Block, TopupStages, BuyStages, RefundStages

\* The last statement of a refund is the refund.
LEMMA RecordRefundKeeps ==
  ASSUME Inv, RecordRefund
  PROVE  /\ Inv'
         /\ Atomic!RequestRefund(call.user, call.purchase)
<1>1. at = "refund:record" /\ at' = "idle" /\ RefundBlock
  BY DEF RecordRefund, Do, Inv, Block, RefundStages
<1> DEFINE u == Bought.user
           p == call.purchase
           id == Len(old.refunds) + 1
           cost == Bought.total
<1>2. /\ u \in Users /\ cost \in Nat /\ id \in Nat /\ counter.refunds = id
      /\ old.wallet[u] \in Nat /\ before = old.wallet[u]
      /\ wallet = [old.wallet EXCEPT ![u] = @ + cost]
      /\ Owner = u /\ Credit(p) = cost
      /\ p \in Nat
  BY <1>1, RefundFacts, RefundedRow, RefundId, StoreAssumption
  DEF RefundBlock, PurchaseIds
<1>3. wallet[u] = old.wallet[u] + cost
  BY <1>1, <1>2, OldTypes
<1>4. /\ ledger' = Append(ledger,
            [user |-> u, purchase |-> p, refund |-> id,
             operation |-> "refund_credit", amount |-> cost, before |-> before,
             after |-> wallet[u]])
      /\ ledger' \in Seq(LedgerRecord)
      /\ counter' = [counter EXCEPT !.ledger = Len(ledger')]
  <2>1. /\ p \in Optional(Nat) /\ id \in Optional(Nat) /\ cost \in Int
        /\ before \in Int /\ wallet[u] \in Int
    BY <1>2, <1>3 DEF Optional
  <2>2. Record("refund_credit", p, id, u, cost)
    BY <1>2 DEF RecordRefund
  <2> HIDE DEF u, p, id, cost
  <2> QED BY <1>2, <2>1, <2>2, RecordRow
<1>5. TypeOK'
  BY <1>4 DEF RecordRefund, Inv, TypeOK, orderVars, refundVars
<1>6. Numbered' /\ IndexInv' /\ Block'
  <2>1. Numbered'
    BY <1>1, <1>4 DEF RecordRefund, Inv, Numbered, Matches, orderVars, refundVars
  <2>2. IndexInv'
    BY <1>1 DEF RecordRefund, Inv, IndexInv, RefundBlock, orderVars
  <2>3. Block'
    BY <1>1 DEF Block, TopupStages, BuyStages, RefundStages
  <2> QED BY <2>1, <2>2, <2>3
<1>7. Atomic!RequestRefund(call.user, p)
  <2>1. Atomic!RefundVerdict(call.user, p) = "created"
    BY <1>1 DEF RefundBlock
  <2>2. Atomic!Credit(p) = cost /\ Atomic!Settled(p) = [Bought EXCEPT !.status = "refunded"]
    BY <1>1 DEF Atomic!Credit, Atomic!Settled, Kept, Bought, old
  <2>3. \A a, b : Atomic!Less(a, b) = Less(a, b)
    BY DEF Less, Atomic!Less
  <2>4. Atomic!RecordTransaction(u, "refund_credit", p, id, cost, old.wallet[u],
                                 old.wallet[u] + cost)
    BY <1>1, <1>2, <1>3, <1>4 DEF RefundBlock, Kept, Atomic!RecordTransaction, old
  <2>5. call.user \in Atomic!Registered
    BY <1>1 DEF RefundBlock, Atomic!Registered, Registered
  <2>6. /\ wallet' = [old.wallet EXCEPT ![u] = @ + cost]
        /\ inventory' = [old.inventory EXCEPT ![u][Bought.item] =
                           Less(@, Bought.quantity)]
        /\ items' = [old.items EXCEPT ![Bought.item].stock =
                       Atomic!Restocked(Bought.item, Bought.quantity)]
        /\ purchases' = [old.purchases EXCEPT ![p] =
                           [Bought EXCEPT !.status = "refunded"]]
        /\ refunds' = Append(old.refunds, [purchase |-> p, user |-> u,
                                           amount |-> cost, createdAt |-> now])
        /\ refundByPurchase' = [old.refundByPurchase EXCEPT ![p] = id]
        /\ role' = role /\ now' = now /\ topups' = old.topups
        /\ topupByRef' = old.topupByRef /\ idempotency' = old.idempotency
    BY <1>1, <1>2 DEF RecordRefund, RefundBlock, RefundRow, orderVars, refundVars
  <2>7. Bought = Kept("purchases", purchases)[p]
    BY <1>1 DEF Kept, Bought, old
  <2> HIDE DEF u, p, id, cost
  <2> QED BY <1>1, <2>1, <2>2, <2>3, <2>4, <2>5, <2>6, <2>7
      DEF Kept, Atomic!RequestRefund, u, p, id, cost, old
<1> QED BY <1>1, <1>5, <1>6, <1>7, IdleTypes DEF Inv

-----------------------------------------------------------------------------
(* Entering and leaving a block *)

LEMMA EnterKeeps ==
  ASSUME Inv, NEW c, NEW first \in {"topup:open", "buy:key", "refund:check"},
         Enter(c, first)
  PROVE  /\ TypeOK' /\ Atomic!TypeOK' /\ Numbered' /\ IndexInv'
         /\ at = "idle" /\ at' = first /\ call' = c /\ c.user \in Registered'
         /\ old' = [wallet |-> wallet', items |-> items', topups |-> topups',
              topupByRef |-> topupByRef', purchases |-> purchases',
              byKey |-> byKey', inventory |-> inventory', refunds |-> refunds',
              refundByPurchase |-> refundByPurchase', ledger |-> ledger',
              idempotency |-> idempotency', counter |-> counter']
<1>1. TypeOK'
  BY DEF Enter, Inv, TypeOK, vars, walletVars, orderVars, refundVars
<1>2. Atomic!TypeOK'
  BY DEF Enter, Inv, Atomic!TypeOK, Kept, vars, walletVars, orderVars, refundVars
<1>3. Numbered'
  BY DEF Enter, Inv, Numbered, Matches, old, vars, walletVars, orderVars, refundVars
<1>4. IndexInv'
  BY DEF Enter, Inv, IndexInv, Indexed, old, vars, walletVars, orderVars, refundVars
<1> QED BY <1>1, <1>2, <1>3, <1>4
        DEF Enter, Registered, old, vars, walletVars, orderVars, refundVars

LEMMA BeginTopupKeeps ==
  ASSUME Inv, NEW c \in TopupCall, BeginTopup(c) PROVE Inv'
<1>1. Enter(c, "topup:open") /\ Len(topups') < MaxTopups
  BY DEF BeginTopup, Enter, vars, walletVars
<1>2. TopupBlock' /\ at' = "topup:open"
  BY <1>1, EnterKeeps DEF TopupBlock, TopupCall
<1> QED BY <1>1, <1>2, EnterKeeps
        DEF Inv, Block, TopupStages, BuyStages, RefundStages

LEMMA BeginBuyKeeps == ASSUME Inv, NEW c \in BuyCall, BeginBuy(c) PROVE Inv'
<1>1. BuyBlock' /\ at' = "buy:key"
  BY EnterKeeps DEF BeginBuy, BuyBlock, BuyCall
<1> QED BY <1>1, EnterKeeps
        DEF BeginBuy, Inv, Block, TopupStages, BuyStages, RefundStages

LEMMA BeginRefundKeeps == ASSUME Inv, NEW c \in RefundCall, BeginRefund(c) PROVE Inv'
<1>1. RefundBlock' /\ at' = "refund:check"
  BY EnterKeeps DEF BeginRefund, RefundBlock, RefundCall
<1> QED BY <1>1, EnterKeeps
        DEF BeginRefund, Inv, Block, TopupStages, BuyStages, RefundStages

\* What the store shows outside a block does not change.
NothingShown == UNCHANGED Atomic!vars

LEMMA EnterShowsNothing ==
  ASSUME NEW c, NEW first \in {"topup:open", "buy:key", "refund:check"},
         Enter(c, first)
  PROVE  NothingShown
BY DEF Enter, NothingShown, Kept, Atomic!vars, Atomic!walletVars, Atomic!orderVars,
   Atomic!refundVars, vars, walletVars, orderVars, refundVars

LEMMA InsideShowsNothing == ASSUME Inside PROVE NothingShown
BY DEF Inside, NothingShown, Kept, Atomic!vars, Atomic!walletVars,
   Atomic!orderVars, Atomic!refundVars

\* The rollback: the store is again what it was on entry.
LEMMA RaiseKeeps == ASSUME Inv, Raise PROVE Inv' /\ NothingShown
<1>1. /\ at # "idle" /\ at' = "idle" /\ role' = role /\ now' = now
      /\ wallet' = old.wallet /\ items' = old.items /\ topups' = old.topups
      /\ topupByRef' = old.topupByRef /\ purchases' = old.purchases
      /\ byKey' = old.byKey /\ inventory' = old.inventory
      /\ refunds' = old.refunds /\ refundByPurchase' = old.refundByPurchase
      /\ ledger' = old.ledger /\ idempotency' = old.idempotency
      /\ counter' = old.counter
  BY DEF Raise, RestoreState, KeptItems, KeptIndex, KeptCounters, old
<1>2. Atomic!TypeOK'
  BY <1>1 DEF Inv, Atomic!TypeOK, Kept, old
<1>3. TypeOK'
  BY <1>1, <1>2, InstanceTypes DEF Atomic!TypeOK, Kept, TypeOK
<1>4. Numbered' /\ IndexInv'
  BY <1>1 DEF Inv, Numbered, Matches, IndexInv, Indexed
<1>5. Block'
  BY <1>1 DEF Block, TopupStages, BuyStages, RefundStages
<1>6. NothingShown
  BY <1>1 DEF NothingShown, Kept, Atomic!vars, Atomic!walletVars, Atomic!orderVars,
              Atomic!refundVars, old
<1> QED BY <1>2, <1>3, <1>4, <1>5, <1>6 DEF Inv

\* A replay leaves the block having written nothing.
LEMMA ReturnStoredKeeps == ASSUME Inv, ReturnStored PROVE Inv' /\ NothingShown
<1>1. /\ at = "buy:key" /\ at' = "idle" /\ BuyBlock /\ UNCHANGED vars
      /\ counter' = counter /\ byKey' = byKey
  BY DEF ReturnStored, Do, Inv, Block, BuyStages
<1>2. TypeOK'
  BY <1>1 DEF Inv, TypeOK, vars, walletVars, orderVars, refundVars
<1>3. Numbered' /\ Block'
  BY <1>1 DEF Inv, Numbered, Matches, Block, TopupStages, BuyStages, RefundStages,
              vars, walletVars, orderVars, refundVars
<1>4. IndexInv'
  BY <1>1 DEF Inv, IndexInv, Indexed, BuyBlock, vars, orderVars
<1>5. NothingShown
  BY <1>1 DEF BuyBlock, NothingShown, Kept, Atomic!vars, Atomic!walletVars,
     Atomic!orderVars, Atomic!refundVars, vars, walletVars, orderVars, refundVars, old
<1> QED BY <1>1, <1>2, <1>3, <1>4, <1>5, IdleTypes DEF Inv

\* Outside a block the instance is the store itself, before and after.
LEMMA OutsideKeeps == ASSUME Inv, OutsideBlocks PROVE Inv' /\ Atomic!Next
<1>1. /\ at = "idle" /\ at' = "idle" /\ UNCHANGED blockVars
      /\ (\E u \in Users : Register(u) \/ GrantAdmin(u)) \/ AdminRequest \/ Tick
  BY DEF OutsideBlocks, blockVars
<1>2. TypeOK'
  <2>1. Next
    BY <1>1 DEF Next, Elsewhere
  <2> QED BY <2>1, NextType DEF Inv
<1>3. UNCHANGED <<topups, topupByRef, ledger, orderVars, refundVars>>
  BY <1>1 DEF Register, GrantAdmin, AdminRequest, CreateItem, UpdateItem, DeleteItem,
              ToggleActive, EditItem, Tick, walletVars
<1>4. Numbered' /\ IndexInv' /\ Block'
  <2>1. Numbered'
    BY <1>1, <1>3 DEF Inv, Numbered, Matches, blockVars, orderVars, refundVars
  <2>2. IndexInv'
    BY <1>1, <1>3 DEF Inv, IndexInv, blockVars, orderVars
  <2> QED BY <1>1, <2>1, <2>2 DEF Block, TopupStages, BuyStages, RefundStages
<1>5. Atomic!Next
  <2>1. CASE \E u \in Users : Register(u) \/ GrantAdmin(u)
    <3>1. PICK u \in Users : Register(u) \/ GrantAdmin(u)
      BY <2>1
    <3>2. Atomic!Register(u) \/ Atomic!GrantAdmin(u)
      BY <1>1, <3>1 DEF Kept, Register, GrantAdmin, OpenedBalance, walletVars,
         orderVars, refundVars, Atomic!Register, Atomic!GrantAdmin,
         Atomic!OpenedBalance, Atomic!walletVars, Atomic!orderVars, Atomic!refundVars
    <3> QED BY <3>2 DEF Atomic!Next, Atomic!Elsewhere
  <2>2. CASE AdminRequest
    <3>1. \A a, sku, price, stock :
            CreateItem(a, sku, price, stock) => Atomic!CreateItem(a, sku, price, stock)
      BY <1>1 DEF Kept, CreateItem, Atomic!CreateItem, IsAdmin, Atomic!IsAdmin,
         SkuTaken, Atomic!SkuTaken, Live, Atomic!Live, NewItem, Atomic!NewItem,
         walletVars, orderVars, refundVars, Atomic!walletVars, Atomic!orderVars,
         Atomic!refundVars
    <3>2. \A a, i, edited : EditItem(a, i, edited) => Atomic!EditItem(a, i, edited)
      BY <1>1 DEF Kept, EditItem, Atomic!EditItem, IsAdmin, Atomic!IsAdmin, Live,
         Atomic!Live, walletVars, orderVars, refundVars, Atomic!walletVars,
         Atomic!orderVars, Atomic!refundVars
    <3>3. \A a, i, price, stock :
            UpdateItem(a, i, price, stock) => Atomic!UpdateItem(a, i, price, stock)
      BY <1>1, <3>2 DEF Kept, UpdateItem, Atomic!UpdateItem, Supplied, Atomic!Supplied
    <3>4. \A a, i : DeleteItem(a, i) => Atomic!DeleteItem(a, i)
      BY <1>1, <3>2 DEF Kept, DeleteItem, Atomic!DeleteItem
    <3>5. \A a, i, isActive :
            ToggleActive(a, i, isActive) => Atomic!ToggleActive(a, i, isActive)
      BY <1>1, <3>2 DEF Kept, ToggleActive, Atomic!ToggleActive
    <3>6. Atomic!AdminRequest
      BY <2>2, <3>1, <3>3, <3>4, <3>5, InstanceTypes
      DEF AdminRequest, Atomic!AdminRequest
    <3> QED BY <3>6 DEF Atomic!Next, Atomic!Elsewhere
  <2>3. CASE Tick
    <3>1. Atomic!Tick
      BY <1>1, <2>3 DEF Kept, Tick, Atomic!Tick, walletVars, orderVars, refundVars,
         Atomic!walletVars, Atomic!orderVars, Atomic!refundVars
    <3> QED BY <3>1 DEF Atomic!Next, Atomic!Elsewhere
  <2> QED BY <1>1, <2>1, <2>2, <2>3
<1> QED BY <1>1, <1>2, <1>4, <1>5, IdleTypes DEF Inv

-----------------------------------------------------------------------------
(* The refinement *)

LEMMA InitInv == TransactionInit => Inv /\ Atomic!Init
<1> SUFFICES ASSUME TransactionInit PROVE Inv /\ Atomic!Init
  OBVIOUS
<1>1. TypeOK
  BY InitType DEF TransactionInit
<1>2. Atomic!TypeOK
  BY <1>1, InstanceTypes DEF TransactionInit, Kept, TypeOK, Atomic!TypeOK
<1>3. Numbered
  BY DEF TransactionInit, Init, Numbered, Matches
<1>4. IndexInv
  BY DEF TransactionInit, Init, IndexInv, Indexed
<1>5. Block
  BY DEF TransactionInit, Block, TopupStages, BuyStages, RefundStages
<1>6. Atomic!Init
  BY InstanceTypes
  DEF TransactionInit, Kept, Init, Atomic!Init, NewItem, Atomic!NewItem
<1> QED BY <1>1, <1>2, <1>3, <1>4, <1>5, <1>6 DEF Inv

\* Every statement keeps the invariant, and is a step of the shop or none.
LEMMA TopupSteps ==
  ASSUME Inv, TopupStatement PROVE Inv' /\ (Atomic!Next \/ NothingShown)
<1>1. CASE OpenWallet \/ StoreTopup \/ ClaimRef \/ CreditTopup
  <2>1. Inside
    BY <1>1 DEF OpenWallet, StoreTopup, ClaimRef, CreditTopup, Do, Inside
  <2> QED BY <1>1, <2>1, InsideShowsNothing, OpenWalletKeeps, StoreTopupKeeps,
             ClaimRefKeeps, CreditTopupKeeps
<1>2. CASE RecordTopup
  <2>1. /\ call.user \in Users /\ call.amount \in Amounts
        /\ call.ref \in Atomic!ExternalRefs
    BY <1>2, InstanceTypes
    DEF RecordTopup, Do, Inv, Block, TopupStages, TopupBlock, TopupCall
  <2>2. Atomic!TopupRequest
    BY <1>2, <2>1, RecordTopupKeeps DEF Atomic!TopupRequest
  <2> QED BY <1>2, <2>2, RecordTopupKeeps DEF Atomic!Next, Atomic!Elsewhere
<1> QED BY <1>1, <1>2 DEF TopupStatement

LEMMA BuySteps ==
  ASSUME Inv, BuyStatement PROVE Inv' /\ (Atomic!Next \/ NothingShown)
<1>1. CASE OpenRecord \/ CheckSale \/ Debit \/ TakeStock \/ Deliver
  <2>1. Inside
    BY <1>1 DEF OpenRecord, CheckSale, Debit, TakeStock, Deliver, Do, Inside, vars
  <2> QED BY <1>1, <2>1, InsideShowsNothing, OpenRecordKeeps, CheckSaleKeeps,
             DebitKeeps, TakeStockKeeps, DeliverKeeps
<1>2. CASE StorePurchase \/ IndexKey \/ RecordPurchase
  <2>1. Inside
    BY <1>2 DEF StorePurchase, IndexKey, RecordPurchase, Do, Inside, vars
  <2> QED BY <1>2, <2>1, InsideShowsNothing, StorePurchaseKeeps, IndexKeyKeeps,
             RecordPurchaseKeeps
<1>3. CASE CompleteRecord
  <2>1. /\ call.user \in Users /\ call.item \in Atomic!ItemIds
        /\ call.quantity \in Quantities /\ call.key \in Keys
    BY <1>3, InstanceTypes
    DEF CompleteRecord, Do, Inv, Block, BuyStages, BuyBlock, BuyCall
  <2>2. Atomic!PurchaseRequest
    BY <1>3, <2>1, CompleteRecordKeeps DEF Atomic!PurchaseRequest
  <2> QED BY <1>3, <2>2, CompleteRecordKeeps DEF Atomic!Next
<1>4. CASE ReturnStored
  BY <1>4, ReturnStoredKeeps
<1> QED BY <1>1, <1>2, <1>3, <1>4 DEF BuyStatement

LEMMA RefundSteps ==
  ASSUME Inv, RefundStatement PROVE Inv' /\ (Atomic!Next \/ NothingShown)
<1>1. CASE CheckRefund \/ CreditRefund \/ TakeBack \/ Restock
  <2>1. Inside
    BY <1>1 DEF CheckRefund, CreditRefund, TakeBack, Restock, Do, Inside, vars
  <2> QED BY <1>1, <2>1, InsideShowsNothing, CheckRefundKeeps, CreditRefundKeeps,
             TakeBackKeeps, RestockKeeps
<1>2. CASE SettlePurchase \/ StoreRefund \/ IndexRefund
  <2>1. Inside
    BY <1>2 DEF SettlePurchase, StoreRefund, IndexRefund, Do, Inside
  <2> QED BY <1>2, <2>1, InsideShowsNothing, SettlePurchaseKeeps, StoreRefundKeeps,
             IndexRefundKeeps
<1>3. CASE RecordRefund
  <2>1. call.user \in Users /\ call.purchase \in Atomic!PurchaseIds
    BY <1>3, InstanceTypes
    DEF RecordRefund, Do, Inv, Block, RefundStages, RefundBlock, RefundCall
  <2>2. Atomic!RefundRequest
    BY <1>3, <2>1, RecordRefundKeeps DEF Atomic!RefundRequest
  <2> QED BY <1>3, <2>2, RecordRefundKeeps DEF Atomic!Next, Atomic!Elsewhere
<1> QED BY <1>1, <1>2, <1>3 DEF RefundStatement

LEMMA StutterKeeps ==
  ASSUME Inv, UNCHANGED transactionVars PROVE Inv' /\ NothingShown
<1>1. UNCHANGED <<counter, byKey, snapshot, call, before, at>> /\ UNCHANGED vars
  BY DEF transactionVars, blockVars
<1>2. TypeOK' /\ Atomic!TypeOK'
  BY <1>1 DEF Inv, TypeOK, Atomic!TypeOK, Kept, vars, walletVars, orderVars, refundVars
<1>3. Numbered' /\ IndexInv'
  BY <1>1 DEF Inv, Numbered, Matches, IndexInv, Indexed, old, vars, walletVars,
              orderVars, refundVars
<1>4. NothingShown
  BY <1>1 DEF NothingShown, Kept, Atomic!vars, Atomic!walletVars, Atomic!orderVars,
     Atomic!refundVars, vars, walletVars, orderVars, refundVars
<1>5. Block'
  <2>1. CASE at = "idle"
    BY <1>1, <2>1 DEF Block, TopupStages, BuyStages, RefundStages
  <2>2. CASE at # "idle"
    <3>1. Inside
      BY <1>1, <2>2 DEF Inside, vars
    <3>2. TopupBlock => TopupBlock'
      BY <1>1, <3>1, InsideKeeps DEF TopupBlock, vars, walletVars, orderVars, refundVars
    <3>3. BuyBlock => BuyBlock'
      BY <1>1, <3>1, InsideKeeps DEF BuyBlock, vars, walletVars, orderVars, refundVars
    <3>4. RefundBlock => RefundBlock'
      BY <1>1, <3>1, InsideKeeps DEF RefundBlock, vars, walletVars, orderVars, refundVars
    <3> QED BY <1>1, <3>2, <3>3, <3>4 DEF Inv, Block
  <2> QED BY <2>1, <2>2
<1> QED BY <1>2, <1>3, <1>4, <1>5 DEF Inv

LEMMA StepKeeps ==
  ASSUME Inv, [TransactionNext]_transactionVars
  PROVE  Inv' /\ (Atomic!Next \/ NothingShown)
<1>1. ASSUME NEW c \in TopupCall, BeginTopup(c) PROVE Inv' /\ NothingShown
  BY <1>1, BeginTopupKeeps, EnterShowsNothing DEF BeginTopup
<1>2. ASSUME NEW c \in BuyCall, BeginBuy(c) PROVE Inv' /\ NothingShown
  BY <1>2, BeginBuyKeeps, EnterShowsNothing DEF BeginBuy
<1>3. ASSUME NEW c \in RefundCall, BeginRefund(c) PROVE Inv' /\ NothingShown
  BY <1>3, BeginRefundKeeps, EnterShowsNothing DEF BeginRefund
<1> QED BY <1>1, <1>2, <1>3, TopupSteps, BuySteps, RefundSteps, RaiseKeeps,
           OutsideKeeps, StutterKeeps DEF TransactionNext

LEMMA InvCorrect == TransactionSpec => []Inv
BY InitInv, StepKeeps, PTL DEF TransactionSpec

\* A block is one step of the shop or none, whatever statement it fails at and
\* however many users, items, keys and purchases there are: the atomic actions
\* of Shop, on which everything else rests, are what the code of the
\* transactions does.
THEOREM BlocksAtomic == TransactionSpec => KeepsShop
<1>1. TransactionInit => Atomic!Init
  BY InitInv
<1>2. Inv /\ [TransactionNext]_transactionVars => [Atomic!Next]_(Atomic!vars)
  BY StepKeeps DEF NothingShown
<1> QED BY <1>1, <1>2, InvCorrect, PTL DEF TransactionSpec, KeepsShop, Atomic!Spec

\* Ids are handed out without gaps or repetitions after any number of failed
\* calls.
THEOREM RowsCorrect == TransactionSpec => []RowsNumbered
<1>1. Inv => RowsNumbered
  BY DEF Inv, TypeOK, Numbered, Matches, RowsNumbered
<1> QED BY <1>1, InvCorrect, PTL

\* The two indices of purchases by key agree after any number of calls.
THEOREM IndicesCorrect == TransactionSpec => []KeyIndicesAgree
<1>1. Inv => KeyIndicesAgree
  BY DEF Inv, IndexInv, Indexed, KeyIndicesAgree
<1> QED BY <1>1, InvCorrect, PTL

-----------------------------------------------------------------------------
(* What is proved of the shop holds of the transactions *)

Visible == INSTANCE CatalogProofs WITH
  wallet <- Kept("wallet", wallet), items <- Kept("items", items),
  topups <- Kept("topups", topups), topupByRef <- Kept("topupByRef", topupByRef),
  purchases <- Kept("purchases", purchases),
  inventory <- Kept("inventory", inventory), refunds <- Kept("refunds", refunds),
  refundByPurchase <- Kept("refundByPurchase", refundByPurchase),
  ledger <- Kept("ledger", ledger), idempotency <- Kept("idempotency", idempotency)

\* Atomic and Visible are the same shop: the first is Shop, the second Shop with
\* what is proved of it.
LEMMA SameTopup == Atomic!TopupRequest <=> Visible!TopupRequest
BY DEF Atomic!TopupRequest, Visible!TopupRequest, Atomic!Topup, Visible!Topup,
      Atomic!RefTaken, Visible!RefTaken, Atomic!OpenedBalance, Visible!OpenedBalance,
      Atomic!RecordTransaction, Visible!RecordTransaction, Atomic!Optional,
      Visible!Optional, Atomic!ExternalRefs, Visible!ExternalRefs, Atomic!Registered, Visible!Registered, Atomic!orderVars,
      Visible!orderVars, Atomic!refundVars, Visible!refundVars

LEMMA SameAdmin == Atomic!AdminRequest <=> Visible!AdminRequest
<1>1. \A a, sku, price, stock :
        Atomic!CreateItem(a, sku, price, stock) <=> Visible!CreateItem(a, sku, price, stock)
  BY DEF Atomic!CreateItem, Visible!CreateItem, Atomic!SkuTaken, Visible!SkuTaken,
      Atomic!IsAdmin, Visible!IsAdmin, Atomic!Live, Visible!Live, Atomic!NewItem,
      Visible!NewItem, Atomic!walletVars, Visible!walletVars, Atomic!orderVars,
      Visible!orderVars, Atomic!refundVars, Visible!refundVars
<1>2. \A a, i, edited : Atomic!EditItem(a, i, edited) <=> Visible!EditItem(a, i, edited)
  BY DEF Atomic!EditItem, Visible!EditItem, Atomic!IsAdmin, Visible!IsAdmin, Atomic!Live,
      Visible!Live, Atomic!walletVars, Visible!walletVars, Atomic!orderVars,
      Visible!orderVars, Atomic!refundVars, Visible!refundVars
<1> QED
  BY <1>1, <1>2
  DEF Atomic!AdminRequest, Visible!AdminRequest, Atomic!UpdateItem,
      Visible!UpdateItem, Atomic!DeleteItem, Visible!DeleteItem, Atomic!ToggleActive,
      Visible!ToggleActive, Atomic!Supplied, Visible!Supplied, Atomic!Optional,
      Visible!Optional, Atomic!ItemIds, Visible!ItemIds

LEMMA SamePurchase == Atomic!PurchaseRequest <=> Visible!PurchaseRequest
<1>1. \A u, i, q, k : Atomic!BuyVerdict(u, i, q, k) = Visible!BuyVerdict(u, i, q, k)
  BY DEF Atomic!BuyVerdict, Visible!BuyVerdict, Atomic!KeyVerdict, Visible!KeyVerdict,
      Atomic!SaleVerdict, Visible!SaleVerdict, Atomic!CannotPay, Visible!CannotPay,
      Atomic!Total, Visible!Total, Atomic!PayloadOf, Visible!PayloadOf, Atomic!Live,
      Visible!Live, Atomic!Supplied, Visible!Supplied
<1>2. \A u, i, q, k : /\ Atomic!BuyNew(u, i, q, k) <=> Visible!BuyNew(u, i, q, k)
                      /\ Atomic!BuyReplay(u, i, q, k) <=> Visible!BuyReplay(u, i, q, k)
                      /\ Atomic!BuyRefused(u, i, q, k) <=> Visible!BuyRefused(u, i, q, k)
  BY <1>1
  DEF Atomic!BuyNew, Visible!BuyNew, Atomic!BuyReplay, Visible!BuyReplay,
      Atomic!BuyRefused, Visible!BuyRefused, Atomic!Restored, Visible!Restored,
      Atomic!Registered, Visible!Registered, Atomic!RecordTransaction,
      Visible!RecordTransaction, Atomic!Total, Visible!Total, Atomic!PayloadOf,
      Visible!PayloadOf, Atomic!InProgress, Visible!InProgress, Atomic!vars,
      Visible!vars, Atomic!walletVars, Visible!walletVars, Atomic!orderVars,
      Visible!orderVars, Atomic!refundVars, Visible!refundVars
<1> QED BY <1>2
  DEF Atomic!PurchaseRequest, Visible!PurchaseRequest, Atomic!ItemIds, Visible!ItemIds

LEMMA SameRefund == Atomic!RefundRequest <=> Visible!RefundRequest
<1>1. \A actor, p : Atomic!RefundVerdict(actor, p) = Visible!RefundVerdict(actor, p)
  BY DEF Atomic!RefundVerdict, Visible!RefundVerdict, Atomic!Expired, Visible!Expired,
      Atomic!Age, Visible!Age, Atomic!Held, Visible!Held, Atomic!MayRefundLate,
      Visible!MayRefundLate, Atomic!IsAdmin, Visible!IsAdmin
<1> QED BY <1>1
  DEF Atomic!RefundRequest, Visible!RefundRequest, Atomic!RequestRefund,
      Visible!RequestRefund, Atomic!Credit, Visible!Credit, Atomic!Less, Visible!Less,
      Atomic!Restocked, Visible!Restocked, Atomic!Settled, Visible!Settled,
      Atomic!RecordTransaction, Visible!RecordTransaction, Atomic!Registered,
      Visible!Registered, Atomic!PurchaseIds, Visible!PurchaseIds

LEMMA SameShop ==
  /\ Atomic!vars = Visible!vars
  /\ Atomic!Init <=> Visible!Init
  /\ Atomic!Next <=> Visible!Next
<1>1. Atomic!vars = Visible!vars
  BY DEF Atomic!vars, Visible!vars, Atomic!walletVars, Visible!walletVars,
      Atomic!orderVars, Visible!orderVars, Atomic!refundVars, Visible!refundVars
<1>2. Atomic!Init <=> Visible!Init
  BY DEF Atomic!Init, Visible!Init, Atomic!NewItem, Visible!NewItem, Atomic!ItemIds,
      Visible!ItemIds, Atomic!PurchaseIds, Visible!PurchaseIds
<1>3. /\ \A u : Atomic!Register(u) <=> Visible!Register(u)
      /\ \A u : Atomic!GrantAdmin(u) <=> Visible!GrantAdmin(u)
      /\ Atomic!Tick <=> Visible!Tick
  BY DEF Atomic!Register, Visible!Register, Atomic!GrantAdmin, Visible!GrantAdmin,
      Atomic!Tick, Visible!Tick, Atomic!OpenedBalance, Visible!OpenedBalance,
      Atomic!walletVars, Visible!walletVars, Atomic!orderVars, Visible!orderVars,
      Atomic!refundVars, Visible!refundVars
<1> QED BY <1>1, <1>2, <1>3, SameTopup, SameAdmin, SamePurchase, SameRefund
  DEF Atomic!Next, Visible!Next, Atomic!Elsewhere, Visible!Elsewhere

\* What a failed block goes back to, and what the next call finds, is a sound
\* shop: every cent, unit, key, refund and ledger row is accounted for whatever
\* statement exceptions leave the blocks at, and no block, however it ends,
\* edits a purchase, loses a unit or brings a deleted item back.
THEOREM BlocksSound ==
  TransactionSpec => /\ []Visible!ShopSound
                     /\ Visible!PurchasesFrozen
                     /\ Visible!StockConserved
                     /\ Visible!DeletedIsFinal
<1>1. None \notin Visible!IdempotencyRecord
  BY NoRecordAssumption
  DEF IdempotencyRecord, Payload, ItemIds, Optional, Visible!IdempotencyRecord,
      Visible!Payload, Visible!ItemIds, Visible!Optional
<1>2. [Atomic!Next]_(Atomic!vars) => [Visible!Next]_(Visible!vars)
  <2>1. (Atomic!vars)' = (Visible!vars)'
    BY DEF Atomic!vars, Visible!vars, Atomic!walletVars, Visible!walletVars,
       Atomic!orderVars, Visible!orderVars, Atomic!refundVars, Visible!refundVars
  <2> QED BY <2>1, SameShop
<1>3. Atomic!Spec => Visible!Spec
  BY <1>2, SameShop, PTL DEF Atomic!Spec, Visible!Spec
<1>4. Visible!Spec => /\ []Visible!ShopSound
                      /\ Visible!PurchasesFrozen
                      /\ Visible!StockConserved
                      /\ Visible!DeletedIsFinal
  BY Visible!ShopCorrect, Visible!HistoryCorrect, Visible!StockCorrect,
     Visible!DeletedCorrect, StoreAssumption, NoneAssumption, BlankAssumption,
     SeedAssumption, <1>1, PTL
<1> QED BY <1>3, <1>4, BlocksAtomic, PTL DEF KeepsShop
=============================================================================
