# Verification of the in-game shop API

TLA+ models, TLC runs and TLAPS proofs for the FastAPI backend in `src/`:
registration, wallets, a catalogue, purchases with idempotency keys, inventories
and refunds. All state is in one process (`InMemoryStore`); Redis serialises
concurrent purchases of one key and carries the `purchase.created` event. The
SQL schema and migrations are in the repository, but the running program never
opens the database.

Read the modules in this order: `Store`, `Wallets`, `Catalog`, `Purchases`,
`Refunds`, `Shop`; then `Transaction` and `Schema`, which stand on `Shop`; then
`PurchaseApi` and `BuyFlow`; then the proofs, `ShopProofs` first, then
`SchemaProofs`, `ConservationProofs` and `CatalogProofs`, each of which extends
the one before, and `FlowProofs` and `TransactionProofs`, which rest on all of
them. `Auth` and `AuthProofs` stand beside them and can be read first; `Paging`
needs `Shop`, `PagingProofs` also `ShopProofs`.

## 1. The system

### Components

| component | state | operations | module |
|---|---|---|---|
| In-memory store (`db/repositories/store.py`) | tables, id counters, secondary indices | `reset`, `transaction` with snapshot and restore, `create_wallet_transaction` | `Store`, `Transaction` |
| Wallets (`wallet.py`, `wallet_service.py`) | balances, top-ups, `topups_by_external_ref` | `get_or_create_wallet`, `topup` | `Wallets` |
| Catalogue administration (`admin_items.py`) | items | create, update, delete, toggle | `Catalog` |
| Purchases (`purchases.py`) | purchases, inventory, idempotency records | `create_purchase` | `Purchases` |
| Refunds (`refunds.py`) | refunds, `refunds_by_purchase`, and the tables above | `request_refund` | `Refunds` |
| Purchase flow (`purchase_service.py`, `core/redis.py`) | the suspended requests with the purchase objects they hold, the reserves in Redis, the events sent | `buy`, reserve, release, publish, start and stop of the process | `BuyFlow`, `PurchaseApi` |
| Authentication (`auth_service.py`, `auth.py`, `deps.py`) | users with two indices, refresh tokens | register, login, refresh, the check of every other request | `Auth` (the wallet of a new user: `Wallets`) |
| Tokens and passwords (`core/security.py`) | none | encode, decode, hash | claims and time window in `Auth` |
| Public reads (`items.py`, `inventory.py`, history) | none | list, get | `Paging` (the paged lists) |
| Settings, schemas, error layout, health | none | validation, start-up | constants and assumptions of `Store` and `BuyFlow` |
| SQL schema (`alembic/versions`, `models/`) | none at run time | the rules the tables lay on the data | `Schema` |
| Deployment (`Dockerfile`, `docker-compose.yml`) | none | none | not modelled, but for the restart of the process in `BuyFlow` |

### How they interact

- Every repository reads and writes the same store object. A purchase writes the
  wallet, the item's stock, the inventory, the purchase, the ledger and the
  idempotency record; a refund touches all of these but the last, and the refund
  tables. Nothing but the order of the statements keeps them consistent.
- Handlers are coroutines on one event loop, and repository methods do not
  await. A repository call is therefore one step, and requests interleave only
  at awaits: in `PurchaseService.buy`, before and after `create_purchase`.
- `transaction()` takes a deep copy on entry and puts it back when the body
  raises, so a refused request leaves nothing, not even the `in_progress` record
  that `create_purchase` stores before it looks at the item. The restore
  replaces the tables by the copies: a request that holds a purchase object
  across an await, in `PurchaseService.buy`, holds from then on an object the
  store no longer knows.
- Every endpoint but the public ones asks `get_current_user` first, which reads
  the token against the clock and the user's row. The two halves share nothing
  else: `Auth` is about who is admitted, `Shop` about what the admitted may do.
- Administrators' edits are independent of purchases, but change what later
  purchases and refunds find: the price, the stock, the `active` flag, whether
  the item is there at all.
- Redis knows reserves per *user and* key, the store knows keys globally. A
  reserve is set with a time to live and deleted unconditionally. It outlives
  the process; the store does not.

### What is hard here, and what correct means

| component | what is hard | correct means |
|---|---|---|
| Transactions | an exception between any two writes of a block: tables, counters and indices must go back together | a block is one step of the shop or none (`KeepsShop`), ids stay without gaps (`RowsNumbered`), the two indices by key agree (`KeyIndicesAgree`) |
| Store, wallets | several writers of a balance; the ledger is written by each of them; a reference sent again | balances chain through the ledger (`LedgerChain`, `LedgerCovers`), no money is made or lost (`BalanceConservation`) |
| SQL schema | its rules are enforced by no database | `SchemaKept` |
| Catalogue | SKUs reused after deletion and in another case; edits under open purchases | `LiveSkuUnique`, `DeletedIsFinal`, `StockConserved` |
| Purchases | retries after anything has changed; a failure with the record opened | `IdempotencyExact`, `ReplayNeverRefused`, `KeysFrozen`, `InventoryExact` |
| Refunds | repeated, late, by the wrong person, after price changes and deletion | `RefundExact`, `OwnerRefundGuaranteed`, `PurchasesFrozen` |
| Purchase flow | a command that fails but was executed; a reserve that expires, is deleted by someone else, or outlives the process; an object that leaves the store; no Redis at all | `SameAnswer`, `PublishedOnce`, `AnswerTrue`, `KeepsApi`, `NobodyLockedOut`; with a healthy Redis also `Exclusive`, `InProgressIsTrue`, `EveryoneAnswered`, `ReserveFreed` |
| Authentication | refresh tokens presented twice, spellings of one name, a clock set back | `AccountsUnique`, `IndexExact`, `SpentOnce`, `StoredTokensSound`, `SkewTolerated`, `SessionEndsExplained` |
| Public reads | rows that shift between two pages | `MissedBounded`, `RepeatedBounded`, `HistoryExact` |

`PROJECT.json` lists every hazard at its line with the properties that cover it,
and says why the others are not covered.

## 2. The modules

**`Store`** declares the constants, the tables and what all repositories use.
A table with a `_seq` counter is a sequence (no code removes a row, so the
counter is the length), a dict is a function with `None` for a missing key.
`Init` is `reset()`. `Live` is `get_item`. `RecordTransaction` is
`create_wallet_transaction`. `Restored(snapshot, dirty)` is what `transaction()`
leaves of a table after an exception.

**`Wallets`, `Catalog`, `Purchases`, `Refunds`** have one action per operation.
An action is a whole handler after authentication. The chains of early returns
are operators with the error codes as values, in the order in which the code
looks: `BuyVerdict` (the key first, then the sale) and `RefundVerdict`. The
accepted request is `BuyNew`, `BuyReplay`, `RequestRefund`, ...; a refused
purchase is `BuyRefused`, because it opens and rolls back a record. Other
refused requests raise before any write and are not actions.

`TopupRequest`, `AdminRequest`, `PurchaseRequest` and `RefundRequest` are the
routes: any caller, any body the schemas admit. The schema of a top-up admits
three kinds of `external_ref`, told apart by `ExternalRefs`: none, the empty text
(`Blank`), and the others (`Refs`). `RefTaken` and the claim of a reference know
only the last kind, because the code tests the truth of the reference.

**`Shop`** composes them, adds the clock (`Tick`), and states the properties.

**`Transaction`** takes the three methods that run inside `transaction()` apart:
`topup`, `create_purchase` and `request_refund`, one action per statement that
writes. `at` is the statement that runs next, `call` the arguments, `snapshot`
what the block copied on entry, `before` the local variable
`wallet_balance_before`. `counter` and `byKey` are the `_seq` fields and
`purchases_by_idempotency`, which `Store` can do without because they say what
other tables say: `RowsNumbered` and `KeyIndicesAgree` are that claim. `Raise` is an
exception at any statement, those of the code's own checks included, followed by
`_restore_state`. `Atomic` is `Shop` under the mapping that shows, while a block
runs, the tables as they were on entry; `KeepsShop` says that this is a behaviour
of `Shop`. It is what entitles all other modules to treat a handler as one step.

**`Schema`** states the rules of `0001_initial_schema.py` about the data: one
operator per table, with its CHECKs, unique columns, foreign keys and the
trigger `fn_validate_refund`. Three rules are left out in whole or in part
because the code does not keep them (section 3), and so are the ranges of the
column types: no code bounds a balance or a quantity from above.

**`BuyFlow`** extends `Shop` by the purchase requests in flight. `pc[r]` is the
await at which request `r` is suspended:

| pc | in `PurchaseService.buy` | next |
|---|---|---|
| `idle` | not received | `Arrive`, or `ServeDegraded` without Redis |
| `reserving` | `await` of SET NX EX | `Reserve`, `ReserveTaken`, `ReserveFails` |
| `refused` | SET has returned nil | `Refuse` |
| `creating` | SET has returned OK, or raised | `Create` |
| `releasing` | `await` of DELETE in `finally` | `Release` |
| `released` | DELETE has returned | `Raise` (the exception of `create_purchase` goes on), `Announce` (a new purchase), `AnswerReplay` |
| `publishing` | `await` of PUBLISH | `Publish` |
| `done` | answered | `Retry`, if the answer was "in progress" |

`refused`, `creating` and `released` separate what Redis did from what the
process does next: other requests can run between the execution of a command and
the resumption of the request, which is when an expiry, a foreign DELETE, a
refund or a rollback bites. In particular the request that another one met in
Redis may have released its reserve and been answered before the other is told
"in progress". Only PUBLISH and the answer after it are one step: nothing reads
the reply of PUBLISH, and what others do between the two they may as well do
before.

`held[r]` is the purchase object: `"shared"` while the store has it too, or, once
a rollback of any request has replaced the tables (`Detached`), the status the
detached object was left with. `event[r]` and `answer[r]` are the statuses read
from it, for the event before PUBLISH and for the response after it.

`Expire` is Redis removing a reserve whose time has run out. `Restart` stops the
process wherever its requests are and starts it with an empty store; reserves
survive in Redis, and the properties are about one life of the process. Every
other operation of `Shop` may run between any two steps (`OtherRequest`), and so
may one that is refused inside its transaction (`OtherRefused`).

**`PurchaseApi`** is the abstract promise: a request takes effect at one
instant, the first accepted one of a key makes the purchase, others of the same
payload are given it, every other one is refused without effect and may be sent
again. A restart forgets all of it (`Forget`). `BuyFlow` instantiates it under the
refinement mapping `Asked`, `Outcome`, `Order`; `KeepsApi` is `Api!ApiSpec`.

**`Auth`** models accounts and tokens. A registration or a login hands out a
*pair*, an access and a refresh token issued at the same moment; `pairs` records
every pair ever handed out with the pair it was exchanged for (`from`), because
anyone may present any of them at any time, in any order and more than once.
`refreshTokens` is the program's own dict. `DecodeVerdict`, `RefreshVerdict` and
`AccessVerdict` are the answers in the order of the code; `RefreshRefused` is the
refused request that has popped the token by then. `clock` is the wall clock,
`latest` the highest value it has had, which only the properties read.

**`Paging`** adds to `Shop` one client that reads the catalogue or its purchase
history page by page. The server keeps nothing between two pages; `offset`,
`seen` and `finished` are the client's, and `stayed`, `vanished`, `returned`
record what happened to the list meanwhile, so that the properties can say which
omissions and repetitions are owed to it. The place of a row in a list is its
`Rank`, how many rows of the list have no greater id; the sorted list is defined
by it, and the proofs reason about ranks only.

**`MCShop`, `MCTransaction`, `MCBuyFlow`, `MCAuth`, `MCPaging`** give TLC the
values that a `.cfg` cannot write, and the symmetry sets. **`ShopProofs`,
`SchemaProofs`, `ConservationProofs`, `CatalogProofs`, `FlowProofs`,
`TransactionProofs`, `PagingProofs`** and **`AuthProofs`** hold the theorems.

Definitions called `Faulty...` are deliberate mistakes of the kind a change to
the code could bring. `PROJECT.json` pairs each with the property that finds it;
no specification uses them.

### What is abstracted

- Money is a number of cents. Prices and amounts have two decimals, so products
  with a quantity need no rounding. That a product can exceed the decimal
  context, and `quantize` then raises, is one of the exceptions of `Transaction`.
- The payload hash is the payload; names, descriptions, reasons, currencies and
  timestamps that nothing compares are left out. A wallet id is its owner.
- Authentication happens in the same step as the operation, with the user's
  current role. A role only ever changes by hand (`GrantAdmin`, as the test
  fixture `admin_headers` does), and only upwards.
- Users of `Shop` are never blocked: no operation of the program blocks one. In
  `Auth`, `SetStatus` lets whoever administers the store do it at any time.
- Tokens of `Auth` were signed by the program; the checks of format, signature,
  issuer and audience therefore pass. Times are whole seconds, as in the claims.
- `Refunds` uses ticks for minutes. The comparison with the window, strict in
  the code, is kept strict.

## 3. The runs

| run | instance | question |
|---|---|---|
| `shop_money` | 2 players, 3 keys, 3 top-ups with one reference, the empty one or none, 3 purchases of 1 or 2 units | does any order of top-ups, purchases, replays and refunds make, lose or fail to record money, or break a rule of the SQL schema? |
| `shop_orders` | a player and an administrator who buys too, prices 0 and 2, 2 purchases, window 1 of 2 ticks | do keys, purchases and refunds stay in their relations while the item changes and the window closes? |
| `shop_catalog` | an administrator and a player, 2 spellings of a SKU, 2 items, stocks 0, 1 and unlimited, 3 purchases | do stocks, inventories and SKUs stay exact through deletion and restocking? |
| `transaction` | a player and an administrator who sets the stock, 2 keys, 2 top-ups with one reference, 2 purchases and their refunds, an exception at any statement | is a block one step of `Shop` or none, and do counters and indices go back with the tables? |
| `flow_healthy` | 2 users who send one key, 3 requests for a free item and an id of no item, working Redis | does the reserve serialise, do users share no purchase, is only refused who met another request, is everyone answered, is nothing left behind? |
| `flow_faults` | 1 user, 1 key, 3 requests for a free item and an id of no item; failing commands, expiring reserves, start without Redis, one restart at any await, clients that try again | does the store alone keep the promise of the API, are events and answers true, and is nobody locked out? |
| `auth` | 3 spellings of 2 e-mails and names, 2 accounts, 3 pairs, a clock from 0 to 3 that is also set back, tolerance 1, lives 0 and 1 | do accounts stay unique, is a token exchanged at most once, whom does the clock refuse? |
| `paging` | an administrator and a player who buy and refund, up to 3 items created, withdrawn, shown and deleted under a reader, 2 purchases, pages of 1 | how many rows can a reader of the catalogue miss or see twice, and is a history read exactly? |
| `doc_token_replay` | as `auth` | a statement of a document that the code does not meet (below) |
| `doc_conflict` | as `shop_orders` | the same |
| `doc_in_progress` | 1 user, 2 keys, failing commands, no restart | the same, for the text of a 409 |
| `doc_reference` | as `shop_money` | the same, for the 409 of a used reference |

**Bounds.** `MaxItems`, `MaxTopups`, `MaxPurchases`, `MaxTime` and, in `Auth`,
`MaxUsers`, `MaxPairs` and `MaxClock`, in `BuyFlow` `MaxRestarts` bound the length of tables, the clocks and the lives of the process,
`MaxMoves` in `Paging` how often rows leave a list under its reader or come
back. They appear as guards; an operation beyond a bound does not happen,
everything else goes on. They are the smallest with which the cases arise: two
users (whose money, whose key), a key more than one user can use, three
purchases (two that compete and one in between), two items (a deleted one and
the one that takes its SKU), two ticks (inside, at the end of and beyond the
window). Amounts are chosen so that a balance can be short, exact and ample.
Three requests let one outlive its reserve, a second take the reserve, and a
third meet the state after the first has deleted the second's reserve; the same
three let one request fail and roll back while a second holds its purchase and
the purchase is refunded. One restart is enough to leave a reserve behind for a
process that knows nothing of it. Two users meet under one key in
`flow_healthy`, where the reserve of each does not exclude the other; with all
faults as well the instance is beyond TLC's reach, and `FlowProofs` has no bound
on users. Three pairs let a token be exchanged, presented again and exchanged again if it still
can; a clock of four values and lives of 0 and 1 reach every answer of
`decode_token` to a token of the program, before, at and after each limit,
except `INVALID_TOKEN_IAT`: nbf equals iat, so `TOKEN_NOT_ACTIVE` always
precedes it.

**Symmetry.** Keys, references, and users where none is an administrator, are
interchangeable: the code only compares them. Runs with liveness properties use
no symmetry. Deadlock is checked in every run that can be: a state where nothing
happens does not occur in `Shop` because replays and refusals remain possible,
in `Auth` because the clock always moves one way or the other, and in `BuyFlow`
the answered state stutters by `Quiet`.

**Fairness.** `FairFlowSpec` assumes weak fairness of each request's next step:
the event loop resumes a coroutine whose command has returned, and the client's
`socket_timeout=1` makes each command return. There is no fairness on arrivals,
on expiry or on other requests: `ReserveFreed` holds because `finally` releases,
without the time to live. `PatientSpec`, for `NobodyLockedOut`, adds two: a
client that was told "in progress" sends its request again in the end (`Retry`),
and Redis ends the time to live of every reserve (`Expire`; the code sets EX with
every SET). Without the second the property is false, as it must be: after a
DELETE that failed, or a stop of the process between SET and DELETE, the time to
live is all that lets the client in again.

**Findings.** Four places where a document or a message and the code disagree;
each is shown by a run that must fail.

1. `docs/api_contract_mvp.md:358` documents 409 for a purchase already refunded.
   The status check in front (400, `REFUND_NOT_ALLOWED`) always answers first;
   the 409 is dead code (`DuplicateRefundConflicts`).
2. The 409 of `purchase_service.py:36` says a request is in progress. After a
   DELETE that failed, a request is refused by Redis with nobody underway, and is
   told so (`InProgressIsTrue`). With a healthy Redis that does not happen
   (`flow_healthy`): whoever is refused met another request of the user and key.
   Even then the message may be out of date when it is sent, because the other
   request can end between the nil and the 409; the property is about the nil.
3. `docs/api_contract_mvp.md:222` documents 409 for a refresh token that was used
   already ("token replay detected"). The store forgets a used token, so it is
   answered 401 like an unknown one (`ReplayConflicts`).
4. `docs/api_contract_mvp.md:260` documents 409 for an `external_ref` that was used
   already. The empty one is admitted by the schema of the request, stored, and
   never looked up or claimed (`wallet.py:35,54`), so that any number of top-ups
   can carry it (`UsedReferenceConflicts`).

Others were seen in reading and need no run:

- `docs/api_contract_mvp.md:295` says a successful purchase has the status
  `completed`; the replay of a key whose purchase was refunded answers 201 with
  `refunded`. Line 304 documents a filter `status=completed` of the history that
  no code reads; line 285 documents 404 for an item withdrawn from sale, which
  `get_item` returns.
- Three rules of the schema are stricter than the code, and are left out of
  `Schema`, or weakened, for that reason: `uq_items_sku`, where the code lets the
  SKU of a deleted item be used again; `ck_refunds_amount_positive`
  (`app/models/refund.py:25`), where the code lets a free item be bought and
  refunded; and `uq_topups_external_ref`, which is stated of non-empty references
  only (finding 4). Nor does the code bound what the column types bound: the
  digits of a balance, the size of a quantity.
- The models declare `Enum(...)` over Python enums, of which SQLAlchemy stores
  the names, while the types of migration `0001` hold the values.

## 4. The proofs

`ShopProofs` proves about `Spec` of `Shop`, for every value of the constants
that satisfies the assumptions of `Store` (ranges of prices and quantities as
the request schemas give them, `None` different from ids and records, the empty
reference different from `None` and from the others, `BlankAssumption`):

| theorem | property | argument |
|---|---|---|
| `TypeCorrect` | `TypeOK` | inductive as it stands; one lemma per action. That balances and finite stocks stay natural numbers is where `CannotPay` and the stock check are needed |
| `LedgerCorrect` | `LedgerChain` | not inductive: a wallet that has ledger rows must exist, or `get_or_create_wallet` would start it again at zero. `LedgerInv` adds this, and states the chain of a ledger and of balances as an operator (`Chain`), so that the effect of one appended row is a lemma without state (`ChainAppended`) |
| `IdempotencyCorrect` | `IdempotencyExact` | inductive with `TypeOK`; `FreeKeyIsNew` shows that `BuyNew` only runs under a key without a record |
| `ReplayCorrect` | `ReplayNeverRefused` | follows from `IdempotencyExact`: the key is looked at before the sale |
| `RefundCorrect` | `RefundExact` | inductive with `TypeOK`; a new purchase has no refund because its id is no purchase yet, a new refund names a purchase that had none |
| `HistoryCorrect` | `PurchasesFrozen` | an action property, from `TypeOK` alone; that a refund after the window is an administrator's is what its verdict gives (`RefundInTime`) |
| `KeysCorrect` | `KeysFrozen` | an action property, from `IdempotencyExact` |

Each proof has the same shape: a lemma says which actions touch the tables in
question (`OrderSteps`, `MoneySteps`), one lemma per such action shows that the
invariant survives it, and the theorem puts them together with `PTL`.

`AuthProofs` proves about `AuthSpec`, for every set of spellings whose
normalisation is idempotent and every length of lives and tolerance:

| theorem | property | argument |
|---|---|---|
| `AuthTypeCorrect` | `AuthTypeOK` | inductive |
| `IndexCorrect` | `IndexExact` | inductive with `AuthTypeOK`: a registration writes under keys that its verdict found free |
| `UniqueCorrect` | `AccountsUnique` | from `IndexExact`: two accounts of one key would be one entry |
| `SpentCorrect` | `SpentOnce` | not inductive: that a second exchange cannot happen is because the first removed the token. `TokenInv` joins it with `StoredTokensSound` and with the statements that every pair belongs to an account and was not issued after `latest` |
| `StoredCorrect` | `StoredTokensSound` | part of `TokenInv` |
| `SkewCorrect` | `SkewTolerated` | from `TokenInv`: no pair is younger than `latest` |
| `SessionEndsCorrect` | `SessionEndsExplained` | an action property, from `TokenInv` |

In `ShopProofs` and the modules that extend it, each inductive invariant has two
lemmas, `...Fresh` (it holds of a new store, at any time) and `...Next` (a step
keeps it). They are separate from the theorem because a restart makes a new
store under `BuyFlow`, where `Init` does not apply again.

`ConservationProofs`, about `Spec`:

| theorem | property | argument |
|---|---|---|
| `InventoryCorrect` | `InventoryExact` | inductive with `TypeOK`. A purchase adds one row to the set that is summed up, a refund takes one out of it (`SumGrows`, `SumShrinks`), all other sums keep their rows. That the units of a refund are there, so that `max(0, ...)` cuts nothing off, is because a sum of natural numbers is no less than each of its terms (`OpenIsHeld`) |
| `BalanceCorrect` | `BalanceConservation` | not inductive: it is about registered users, and a registration makes one. `BalanceExact` says the same of everybody, with a wallet that does not exist counted as empty, and is; back from it by `LedgerChain` |
| `RefundGuaranteed` | `OwnerRefundGuaranteed` | each check of `RefundVerdict` is excluded by another invariant: the refund row by `RefundExact`, missing units by `InventoryExact`, a missing wallet by `RowsSound` |
| `DeadAnswersCorrect` | (`DeadAnswers`) | in the shop between requests, `create_purchase` never answers `IDEMPOTENCY_IN_PROGRESS` nor, to a registered user, `WALLET_NOT_FOUND`, and `request_refund` never `REFUND_ALREADY_EXISTS`, `REFUND_INVENTORY_CONDITION_FAILED` or `WALLET_NOT_FOUND`: branches of the code that nothing reaches. Finding 1 is an instance |

The first half of the module is about `SumFunctionOnSet`, which the community
modules define by a fold, that is by a recursive function on finite sets. The
induction theorems of the library take the predicate as an operator and cannot be
used. `NatSetInduction` takes a *set* of numbers instead, and is proved from the
fact that a set of numbers that is not empty has a least member (`LeastElement`); the
statement about sums goes into the set as a comprehension, by the cardinality of
the set that is summed over.

`CatalogProofs`, about `Spec`:

| theorem | property | argument |
|---|---|---|
| `SkusCorrect` | `LiveSkuUnique` | inductive with `TypeOK`; no step but a creation gives a row a SKU, and none brings a deleted row back |
| `DeletedCorrect` | `DeletedIsFinal` | needs that a deleted item is inactive (`Withdrawn`), or it could still be sold |
| `StockCorrect` | `StockConserved` | an action property, from `InventoryExact`: where `settings.require_inventory_for_refund` is off, nothing else says that the truncation `max(0, ...)` of a refund cuts nothing off. The edits carry the `AdminRequest` they are part of (`Edited`), so that a stock that changes by itself is traced to one |
| `ShopCorrect` | all of the above (`ShopSound`) | `ShopSafe` is the conjunction of the inductive invariants and `ShopSound` that of their consequences, so that the next modules can cite them as one |

`SchemaProofs`, about `Spec`:

| theorem | property | argument |
|---|---|---|
| `SchemaCorrect` | `SchemaKept` | `RowsSound` (rows refer to rows and carry admissible amounts, a credited non-empty reference stays claimed) is inductive with `TypeOK`; the unique keys come from `IdempotencyExact`, the rules about refunds from `RefundExact` |
| `CoverCorrect` | `LedgerCovers` | the ledger grows by one row with each of the three tables; the lemmas compare the sets of rows before and after one appended row |

`TransactionProofs`, about `TransactionSpec`:

| theorem | property | argument |
|---|---|---|
| `BlocksAtomic` | `KeepsShop` | the inductive invariant `Inv` gives each table as a function of the snapshot and of the statement reached (`TopupBlock`, `BuyBlock`, `RefundBlock`). A statement inside a block, `Raise` and a replay show nothing of `Shop`; the last statement of a block shows its whole action, which `Inv` lets one read off |
| `RowsCorrect` | `RowsNumbered` | the part `Numbered` of `Inv`: also the counters in the snapshot match its tables |
| `IndicesCorrect` | `KeyIndicesAgree` | the part `IndexInv` of `Inv` |
| `BlocksSound` | (`ShopSound` and the action properties of `Shop`) | `Visible` instantiates `CatalogProofs`, theorems included, with the tables as they are outside blocks. It is the same shop as `Atomic` (`SameShop`, definition by definition), so by `BlocksAtomic` every behaviour of the statements is one about which the theorems speak: what a failed block goes back to, and what the next call finds, is sound |

`FlowProofs`, about `FlowSpec` and about `PatientSpec`, for any number of
requests and restarts, with and without failures of Redis:

| theorem | property | argument |
|---|---|---|
| `FlowTypeCorrect` | `FlowTypeOK` | part of the inductive invariant `FlowInv` |
| `AnswerSame` | `SameAnswer` | `Bought` (the purchase a request holds is the one its key stands for) and `OneMaker` (one request made it), with `IdempotencyExact` of the shop. No statement about reserves is needed: that is the proof that the store alone keeps the promise |
| `PublishedCorrect` | `PublishedOnce` | `Sent`: an event belongs to the request that made the purchase and has passed PUBLISH |
| `AnswersCorrect` | `AnswerTrue` | `Objects`: a status `refunded` in an object, event or answer has its refund, and an object does not fall back behind its event |
| `ExclusiveCorrect` | `Exclusive` | `Guarded`: a request between SET and DELETE has its reserve, alone. Inductive only if Redis works and no reserve expires under its request (`InTime`) |
| `InProgressCorrect` | `InProgressIsTrue` | `Attended`: every reserve has a request that needs it, and who is refused has met one. Inductive only if Redis works and the process does not stop (`InService`); both theorems rest on `Moves`, which says what a step may do to the reserves |
| `FlowShopSound` | (`ShopSound`) | each step of the flow is a request of the shop or nothing to it, or a restart, which makes a store of which `SafeFresh` speaks (`FlowIsShop`). Requests that are suspended, fail or are cut off break no promise of the shop |
| `FlowKeepsApi` | `KeepsApi` | step by step under the refinement mapping: a step of `Arrive`, `Create`, `Refuse`, `ServeDegraded`, `Retry` or `Restart` is one of the promise, the others stutter |

The shop under the flow is covered by `ShopInv` (`TypeOK`, `IdempotencyExact`,
`RefundExact`), and what a suspended request may rely on while others run by
`ShopKept`: purchases, the records of keys and refunds stay. Assumed beside
`Store`'s assumptions is `NoCallAssumption`: `None` is no text, no call, no
promise.

`PagingProofs`, about `PagingSpec`, for any list, page size and number of
changes:

| theorem | property | argument |
|---|---|---|
| `PagingTypeCorrect` | `PagingTypeOK` | inductive with `TypeOK`; a page adds at most `Limit` rows (`PageRows`), all of them from the table that is listed |
| `MissedCorrect`, `RepeatedCorrect` | `MissedBounded`, `RepeatedBounded` | the bounds are about a finished reading and not inductive. `PagingInv` states them of the rows already decided about: rows that stayed in the list, lie before the offset and were not received (`Skipped`) are no more than those that left; rows received twice, and rows received that now lie behind the offset (`Again`), are no more than those that came back. What one change does to the rows before a place is a lemma about finite sets (`MovedUp`, `FewLost`, `FewAgain`) |
| `HistoryReadCorrect` | `HistoryExact` | `HistoryInv`: what has been received is exactly what has a rank of at most the offset, in order. A purchase comes at the end and leaves all ranks alone (`RankKept`) |

**Only model-checked:** the liveness properties `EveryoneAnswered`,
`ReserveFreed` and `NobodyLockedOut`: the provers do not handle fairness and
`ENABLED`. Every invariant, action property and refinement that a passing run
checks has a theorem.

## 5. Not modelled

- Password hashing, signatures and token formats: pure functions of libraries.
- The role in a token: nothing reads it, `get_current_user` takes it from the row.
- The inventory list, and the single reads of a purchase and a balance: one read
  of one state.
- `ItemsRepository`'s write methods (no caller), the migrations as commands, the
  audit log (written by nothing), and the texts, currencies and timestamps of the
  schema. The store is not persistent, so there is no recovery to model beyond
  `Restart`. Docker files, except that the process may start again.
- An exception in `request_refund` after line 64 that comes from the interpreter
  itself (no memory) leaves a purchase object held by a suspended request marked
  as refunded, although the store has gone back to the copy. `Transaction` models
  the exception and `BuyFlow` the detached object, but not both at once:
  `OtherRefused` detaches objects as they were.
- `register` is not a transaction: an exception between storing the user and
  opening the wallet would leave a user without one. Nothing between the two
  statements raises, and the first top-up opens the wallet.
- The fingerprints of refresh tokens that expire unused are never removed; no
  property bounds them.
- Threads: all handlers are coroutines. The framework runs the plain functions
  among the dependencies (the factories of repositories and services, the role
  `checker`) in its thread pool, but they touch no table, so the lock of the store
  is never contended. An admin request that is suspended there acts on the role
  read just before; the model reads role and data in one step.

## 6. Plan

Done: `Store`, `Wallets`, `Catalog`, `Purchases`, `Refunds`, `Shop`,
`Transaction`, `Schema`, `PurchaseApi`, `BuyFlow` with objects, restarts and
retries, `Auth`, `Paging`, and the theorems above.

What is left:

1. `AuthSpec` and `Spec` meet in the wallet that a registration opens and in the
   role that admits a request; a module that runs both would show that a blocked
   or unknown user changes nothing in the shop.
2. The readers of `Paging` beside suspended purchases of `BuyFlow`: both are
   proved over the same `Shop`, but not together.
3. Liveness stays with TLC. A larger instance of `flow_faults`, with two users,
   is beyond five minutes.
