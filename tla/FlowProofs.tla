----------------------------- MODULE FlowProofs -----------------------------
(***************************************************************************)
(* Proofs about BuyFlow: whatever Redis loses, repeats or forgets, and     *)
(* whenever the process stops, a key makes one purchase, its event and its *)
(* answers are true, and the flow is what PurchaseApi promises.  For any   *)
(* number of users, keys, items, requests and restarts, with or without    *)
(* clients that try again.                                                 *)
(***************************************************************************)
EXTENDS BuyFlow, CatalogProofs

-----------------------------------------------------------------------------
(* The shop under the flow *)

ShopInv == TypeOK /\ IdempotencyExact /\ RefundExact

\* What a request in flight can rely on while other requests run: purchases,
\* the records of keys, and refunds stay.
ShopKept ==
  /\ ShopInv'
  /\ DOMAIN purchases \subseteq DOMAIN purchases'
  /\ \A k \in Keys : idempotency[k] # None => idempotency'[k] = idempotency[k]
  /\ \A p \in PurchaseIds :
       refundByPurchase[p] # None => refundByPurchase'[p] # None

LEMMA BuyNewKeepsShop ==
  ASSUME ShopInv, NEW u \in Users, NEW i \in ItemIds, NEW q \in Quantities,
         NEW k \in Keys, BuyNew(u, i, q, k)
  PROVE  ShopKept
<1>1. ShopInv'
  BY BuyNewType, BuyNewKeepsIdempotency, BuyNewKeepsRefunds DEF ShopInv
<1>2. DOMAIN purchases \subseteq DOMAIN purchases'
  <2>1. /\ DOMAIN purchases = 1 .. Len(purchases) /\ Len(purchases) \in Nat
        /\ DOMAIN purchases' = 1 .. Len(purchases) + 1
    BY BuyNewRows DEF ShopInv
  <2> QED BY <2>1
<1>3. \A x \in Keys : idempotency[x] # None => idempotency'[x] = idempotency[x]
  <2>1. idempotency[k] = None
    BY FreeKeyIsNew DEF ShopInv
  <2>2. \A x \in Keys : x # k => idempotency'[x] = idempotency[x]
    BY DEF BuyNew, ShopInv, TypeOK
  <2> QED BY <2>1, <2>2
<1>4. refundByPurchase' = refundByPurchase
  BY DEF BuyNew, refundVars
<1> QED BY <1>1, <1>2, <1>3, <1>4 DEF ShopKept

LEMMA RefundKeepsShop ==
  ASSUME ShopInv, NEW actor \in Users, NEW p \in PurchaseIds,
         RequestRefund(actor, p)
  PROVE  ShopKept
<1>1. ShopInv'
  BY RequestRefundType, RefundKeepsIdempotency, RefundKeepsRefunds DEF ShopInv
<1>2. DOMAIN purchases' = DOMAIN purchases
  BY RefundRows, Zenon DEF ShopInv
<1>3. idempotency' = idempotency
  BY DEF RequestRefund
<1>4. \A x \in PurchaseIds :
        refundByPurchase[x] # None => refundByPurchase'[x] # None
  <2>1. Len(refunds) + 1 # None
    BY LenProperties, NoneAssumption DEF ShopInv, TypeOK
  <2>2. refundByPurchase' = [refundByPurchase EXCEPT ![p] = Len(refunds) + 1]
    BY DEF RequestRefund
  <2> QED BY <2>1, <2>2 DEF ShopInv, TypeOK
<1> QED BY <1>1, <1>2, <1>3, <1>4 DEF ShopKept

LEMMA StutterKeepsShop ==
  ASSUME ShopInv, TypeOK',
         UNCHANGED <<purchases, idempotency, refunds, refundByPurchase>>
  PROVE  ShopKept
<1>1. IdempotencyExact' /\ RefundExact'
  BY DEF ShopInv, IdempotencyExact, RefundExact, PayloadOf
<1> QED BY <1>1 DEF ShopInv, ShopKept

LEMMA ShopStep == ASSUME ShopInv, [Next]_vars PROVE ShopKept
<1>1. TypeOK'
  BY NextType DEF ShopInv
<1> QED BY <1>1, OrderSteps, BuyNewKeepsShop, RefundKeepsShop, StutterKeepsShop

\* A new store.
LEMMA InitShop == Init => ShopInv
BY InitType DEF Init, ShopInv, IdempotencyExact, RefundExact

LEMMA ResetShop == ASSUME ShopInv, Reset PROVE ShopInv'
<1>1. DOMAIN Seed = 1 .. Len(Seed) /\ Len(Seed) \in Nat
  BY LenProperties, StoreAssumption
<1>2. ASSUME NEW i \in DOMAIN Seed
      PROVE  NewItem(Seed[i].sku, Seed[i].price, None) \in ItemRecord
  <2>1. Seed[i] \in [sku : Skus, price : Nat]
    BY <1>1, ElementOfSeq, StoreAssumption
  <2> QED BY <2>1 DEF NewItem, ItemRecord, Optional
<1>3. items' \in Seq(ItemRecord) /\ Len(items') <= MaxItems
  BY <1>1, <1>2, StoreAssumption DEF Reset
<1>4. TypeOK'
  BY <1>3, StoreAssumption DEF Reset, ShopInv, TypeOK, Optional
<1>5. IdempotencyExact' /\ RefundExact'
  BY DEF Reset, IdempotencyExact, RefundExact
<1> QED BY <1>4, <1>5 DEF ShopInv

-----------------------------------------------------------------------------
(* The invariant of the flow *)

\* What the await a request is suspended at says of its local variables.
Stages ==
  \A r \in Requests :
    /\ pc[r] = "idle" => args[r] = None
    /\ pc[r] # "idle" => args[r] \in Arguments
    /\ pc[r] \in {"idle", "reserving", "refused", "creating"} <=> verdict[r] = None
    /\ purchase[r] # None <=> verdict[r] \in {"created", "replayed"}
    /\ pc[r] = "publishing" => verdict[r] = "created"

\* The purchase a request holds is the one its key stands for.
Bought ==
  \A r \in Requests : purchase[r] # None =>
    /\ purchase[r] \in DOMAIN purchases
    /\ idempotency[args[r].key] # None
    /\ idempotency[args[r].key].result = purchase[r]

\* One request makes a purchase.
OneMaker ==
  \A r, s \in Requests :
    /\ purchase[r] # None /\ purchase[r] = purchase[s]
    /\ verdict[r] = "created" /\ verdict[s] = "created"
    => r = s

\* An event belongs to the request that made the purchase, and which was
\* answered with it.
Sent ==
  /\ \A n \in DOMAIN published : \E r \in Requests :
       pc[r] = "done" /\ verdict[r] = "created" /\ purchase[r] = published[n]
  /\ \A m, n \in DOMAIN published : published[m] = published[n] => m = n

\* What a request saw of its purchase.
Objects ==
  \A r \in Requests :
    /\ held[r] # None \/ event[r] # None \/ answer[r] # None => purchase[r] # None
    /\ "refunded" \in {held[r], event[r], answer[r]}
         => refundByPurchase[purchase[r]] # None
    /\ event[r] # None => pc[r] \in {"publishing", "done"}
    /\ answer[r] # None => pc[r] = "done"
    /\ pc[r] = "publishing" /\ event[r] = "refunded"
         => held[r] \in {"shared", "refunded"}
    /\ event[r] = "refunded" /\ answer[r] # None => answer[r] = "refunded"

FlowInv ==
  ShopInv /\ FlowTypeOK /\ Stages /\ Bought /\ OneMaker /\ Sent /\ Objects

\* None is none of the texts of the flow.
LEMMA NoText ==
  None \notin {"shared", "completed", "refunded", "created", "replayed",
               "IDEMPOTENCY_IN_PROGRESS"}
BY NoCallAssumption DEF Outcomes

\* What a request sees of its purchase: a status, and "refunded" only if the
\* refund exists.
LEMMA SeenTrue ==
  ASSUME FlowInv, NEW r \in Requests
  PROVE  /\ Seen(r) \in Optional({"completed", "refunded"})
         /\ Seen(r) = None <=> held[r] = None
         /\ Seen(r) = "refunded" => refundByPurchase[purchase[r]] # None
         /\ held[r] = "shared" /\ refundByPurchase[purchase[r]] # None
              => Seen(r) = "refunded"
         /\ held[r] # "shared" => Seen(r) = held[r]
<1>1. held[r] \in {None, "shared", "completed", "refunded"}
  BY DEF FlowInv, FlowTypeOK, Optional
<1>2. CASE held[r] = "shared"
  <2>1. purchase[r] # None /\ purchase[r] \in DOMAIN purchases
    BY <1>2, NoText DEF FlowInv, Objects, Bought
  <2>2. purchases[purchase[r]].status \in {"completed", "refunded"}
    BY <2>1, PurchaseType DEF FlowInv, ShopInv, PurchaseRecord
  <2>3. purchases[purchase[r]].status = "refunded"
          <=> refundByPurchase[purchase[r]] # None
    BY <2>1 DEF FlowInv, ShopInv, RefundExact
  <2> QED BY <1>2, <2>2, <2>3, NoText DEF Seen, Status, Optional
<1>3. CASE held[r] # "shared"
  BY <1>1, <1>3, NoText DEF Seen, Optional, FlowInv, Objects
<1> QED BY <1>2, <1>3

\* Requests of the shop beside the flow, and steps of the flow that change
\* nothing of it.
LEMMA OthersKeepFlow ==
  ASSUME FlowInv, ShopKept, UNCHANGED <<published, pc, args, verdict, purchase,
         objectVars, connected, restarts>>, reserve' \subseteq Slots
  PROVE  FlowInv'
<1>1. FlowTypeOK'
  BY DEF FlowInv, FlowTypeOK, objectVars
<1>2. Stages' /\ OneMaker' /\ Sent'
  BY DEF FlowInv, Stages, OneMaker, Sent
<1>3. Bought'
  <2>1. \A r \in Requests : purchase[r] # None => args[r].key \in Keys
    BY NoText DEF FlowInv, Stages, Arguments
  <2> QED BY <2>1 DEF FlowInv, Bought, ShopKept
<1>4. Objects'
  <2>1. \A r \in Requests : purchase[r] \in Optional(PurchaseIds)
    BY DEF FlowInv, FlowTypeOK
  <2> QED BY <2>1, NoText DEF FlowInv, Objects, ShopKept, objectVars, Optional
<1> QED BY <1>1, <1>2, <1>3, <1>4 DEF FlowInv, ShopKept

-----------------------------------------------------------------------------
(* Each step keeps it *)

LEMMA QuietShop == ASSUME ShopInv, UNCHANGED vars PROVE ShopKept
BY ShopStep

LEMMA ArriveKeeps ==
  ASSUME FlowInv, NEW r \in Requests, NEW call \in Arguments, Arrive(r, call)
  PROVE  FlowInv'
<1>1. ShopInv'
  BY QuietShop DEF FlowInv, ShopKept, Arrive
<1>2. FlowTypeOK'
  BY DEF Arrive, Goto, environment, objectVars, FlowInv, FlowTypeOK, Optional
<1>3. Stages'
  BY DEF Arrive, Goto, FlowInv, FlowTypeOK, Stages
<1>4. verdict[r] = None /\ purchase[r] = None /\ pc[r] = "idle"
  BY NoText DEF Arrive, FlowInv, Stages
<1>5. Bought' /\ OneMaker'
  BY <1>4 DEF Arrive, FlowInv, FlowTypeOK, Bought, OneMaker, vars, orderVars
<1>6. Sent' /\ Objects'
  BY <1>4 DEF Arrive, Goto, FlowInv, FlowTypeOK, Sent, Objects, vars, refundVars, objectVars
<1> QED BY <1>1, <1>2, <1>3, <1>5, <1>6 DEF FlowInv

\* The outcome of SET: the request goes on, or will be refused.
LEMMA ReserveKeeps ==
  ASSUME FlowInv, NEW r \in Requests,
         Reserve(r) \/ ReserveFails(r) \/ ReserveTaken(r)
  PROVE  FlowInv'
<1>1. ShopInv'
  BY QuietShop DEF FlowInv, ShopKept, Reserve, ReserveFails, ReserveTaken
<1>2. pc[r] = "reserving" /\ verdict[r] = None /\ purchase[r] = None
  BY NoText DEF Reserve, ReserveFails, ReserveTaken, FlowInv, Stages
<1>3. Slot(r) \in Slots
  BY <1>2 DEF FlowInv, Stages, Arguments, Slot, Slots
<1>4. FlowTypeOK'
  BY <1>3 DEF Reserve, ReserveFails, ReserveTaken, Goto, environment, objectVars,
     FlowInv, FlowTypeOK, Optional, Outcomes
<1>5. Stages'
  BY <1>2, NoText DEF Reserve, ReserveFails, ReserveTaken, Goto, FlowInv, FlowTypeOK,
     Stages
<1>6. Bought' /\ OneMaker'
  BY <1>2 DEF Reserve, ReserveFails, ReserveTaken, FlowInv, FlowTypeOK, Bought, OneMaker,
     vars, orderVars
<1>7. Sent' /\ Objects'
  BY <1>2 DEF Reserve, ReserveFails, ReserveTaken, Goto, FlowInv, FlowTypeOK, Sent,
     Objects, vars, refundVars, objectVars
<1> QED BY <1>1, <1>4, <1>5, <1>6, <1>7 DEF FlowInv

LEMMA RefuseKeeps ==
  ASSUME FlowInv, NEW r \in Requests, Refuse(r)
  PROVE  FlowInv'
<1>1. ShopInv'
  BY QuietShop DEF FlowInv, ShopKept, Refuse
<1>2. pc[r] = "refused" /\ verdict[r] = None /\ purchase[r] = None
  BY NoText DEF Refuse, FlowInv, Stages
<1>3. FlowTypeOK'
  BY DEF Refuse, Goto, environment, objectVars, FlowInv, FlowTypeOK, Optional, Outcomes
<1>4. Stages'
  BY <1>2, NoText DEF Refuse, Goto, FlowInv, FlowTypeOK, Stages
<1>5. Bought' /\ OneMaker'
  BY <1>2 DEF Refuse, FlowInv, FlowTypeOK, Bought, OneMaker, vars, orderVars
<1>6. Sent' /\ Objects'
  BY <1>2 DEF Refuse, Goto, FlowInv, FlowTypeOK, Sent, Objects, vars, refundVars,
     objectVars
<1> QED BY <1>1, <1>3, <1>4, <1>5, <1>6 DEF FlowInv

\* The release of the reserve, and the exception that goes on after it.
LEMMA ReleaseKeeps ==
  ASSUME FlowInv, NEW r \in Requests, Release(r) \/ Raise(r)
  PROVE  FlowInv'
<1>1. ShopInv'
  BY QuietShop DEF FlowInv, ShopKept, Release, Raise
<1>2. /\ pc' = [pc EXCEPT ![r] = pc'[r]]
      /\ \/ pc[r] = "releasing" /\ pc'[r] = "released"
         \/ pc[r] = "released" /\ pc'[r] = "done"
  BY DEF Release, Raise, Goto, FlowInv, FlowTypeOK
<1>3. FlowTypeOK'
  BY <1>2 DEF Release, Raise, Freed, environment, objectVars, FlowInv, FlowTypeOK
<1>4. Stages'
  BY <1>2 DEF Release, Raise, FlowInv, FlowTypeOK, Stages
<1>5. Bought' /\ OneMaker'
  BY DEF Release, Raise, FlowInv, Bought, OneMaker, vars, orderVars
<1>6. Sent' /\ Objects'
  BY <1>2 DEF Release, Raise, FlowInv, FlowTypeOK, Sent, Objects, vars, refundVars,
     objectVars
<1> QED BY <1>1, <1>3, <1>4, <1>5, <1>6 DEF FlowInv

\* The event tells what the request sees at that moment.
LEMMA AnnounceKeeps ==
  ASSUME FlowInv, NEW r \in Requests, Announce(r)
  PROVE  FlowInv'
<1>1. ShopInv'
  BY QuietShop DEF FlowInv, ShopKept, Announce
<1>2. pc[r] = "released" /\ verdict[r] = "created" /\ purchase[r] # None
  BY DEF Announce, ToPublish, FlowInv, Stages
<1>3. event' = [event EXCEPT ![r] = Seen(r)]
  BY DEF Announce, PayloadStatus
<1>4. FlowTypeOK'
  BY <1>3, SeenTrue DEF Announce, Goto, environment, FlowInv, FlowTypeOK
<1>5. Stages'
  BY <1>2 DEF Announce, Goto, FlowInv, FlowTypeOK, Stages
<1>6. Bought' /\ OneMaker'
  BY DEF Announce, FlowInv, Bought, OneMaker, vars, orderVars
<1>7. Sent'
  BY <1>2 DEF Announce, Goto, FlowInv, FlowTypeOK, Sent
<1>8. Objects'
  <2>1. answer[r] = None
    BY <1>2 DEF FlowInv, Objects
  <2>2. Seen(r) = "refunded" => held[r] \in {"shared", "refunded"}
    BY SeenTrue
  <2> HIDE DEF Seen
  <2> QED BY <1>2, <1>3, <2>1, <2>2, SeenTrue
      DEF Announce, Goto, FlowInv, FlowTypeOK, Objects, vars, refundVars
<1> QED BY <1>1, <1>4, <1>5, <1>6, <1>7, <1>8 DEF FlowInv

\* The answer tells what the request sees then; it was refunded if the event
\* said so.
LEMMA RespondKeeps ==
  ASSUME FlowInv, NEW r \in Requests, pc[r] \in {"released", "publishing"},
         Respond(r)
  PROVE  ShopInv' /\ Stages' /\ Bought' /\ OneMaker' /\ Objects'
         /\ (published' \in Seq(PurchaseIds) => FlowTypeOK')
<1>1. ShopInv'
  BY QuietShop DEF FlowInv, ShopKept, Respond
<1>2. FlowTypeOK' \/ published' \notin Seq(PurchaseIds)
  BY SeenTrue DEF Respond, Goto, environment, FlowInv, FlowTypeOK, Optional
<1>3. Stages'
  BY DEF Respond, Goto, FlowInv, FlowTypeOK, Stages
<1>4. Bought' /\ OneMaker'
  BY DEF Respond, FlowInv, Bought, OneMaker, vars, orderVars
<1>5. Objects'
  <2>1. /\ Seen(r) # None => purchase[r] # None
        /\ event[r] = "refunded" /\ Seen(r) # None => Seen(r) = "refunded"
    BY SeenTrue, NoText DEF FlowInv, Objects
  <2>2. /\ answer' = [answer EXCEPT ![r] = Seen(r)]
        /\ held' = [held EXCEPT ![r] = None]
        /\ pc' = [pc EXCEPT ![r] = "done"]
        /\ UNCHANGED <<refundByPurchase, purchase, event>>
    BY DEF Respond, Goto, vars, refundVars
  <2> QED BY <2>1, <2>2, SeenTrue, NoText DEF FlowInv, FlowTypeOK, Objects
<1> QED BY <1>1, <1>2, <1>3, <1>4, <1>5

LEMMA AnswerReplayKeeps ==
  ASSUME FlowInv, NEW r \in Requests, AnswerReplay(r)
  PROVE  FlowInv'
<1>1. published' = published /\ pc[r] = "released" /\ Respond(r)
  BY DEF AnswerReplay
<1>2. FlowTypeOK' /\ ShopInv' /\ Stages' /\ Bought' /\ OneMaker' /\ Objects'
  BY <1>1, RespondKeeps DEF FlowInv, FlowTypeOK
<1>3. Sent'
  BY <1>1 DEF Respond, Goto, FlowInv, FlowTypeOK, Sent
<1> QED BY <1>2, <1>3 DEF FlowInv

\* Nobody has announced the purchase before: only its maker does.
LEMMA PublishKeeps ==
  ASSUME FlowInv, NEW r \in Requests, Publish(r)
  PROVE  FlowInv'
<1>1. /\ pc[r] = "publishing" /\ Respond(r)
      /\ published' \in {published, Append(published, purchase[r])}
  BY DEF Publish
<1>2. verdict[r] = "created" /\ purchase[r] # None
  BY <1>1 DEF FlowInv, Stages
<1>3. purchase[r] \in PurchaseIds /\ published \in Seq(PurchaseIds)
  BY <1>2 DEF FlowInv, FlowTypeOK, Optional
<1>4. published' \in Seq(PurchaseIds)
  BY <1>1, <1>3, RowAppended
<1>5. \A n \in DOMAIN published : published[n] # purchase[r]
  <2> SUFFICES ASSUME NEW n \in DOMAIN published, published[n] = purchase[r]
               PROVE  FALSE
    OBVIOUS
  <2>1. PICK s \in Requests : pc[s] = "done" /\ verdict[s] = "created"
                              /\ purchase[s] = purchase[r]
    BY DEF FlowInv, Sent
  <2>2. s = r
    BY <1>2, <2>1 DEF FlowInv, OneMaker
  <2> QED BY <1>1, <2>1, <2>2
<1>6. Sent'
  <2>1. pc' = [pc EXCEPT ![r] = "done"] /\ UNCHANGED <<verdict, purchase>>
    BY <1>1 DEF Respond, Goto
  <2>2. \A s \in Requests : pc[s] = "done" => pc'[s] = "done"
    BY <2>1 DEF FlowInv, FlowTypeOK
  <2>3. pc'[r] = "done"
    BY <2>1 DEF FlowInv, FlowTypeOK
  <2>4. CASE published' = published
    BY <2>1, <2>2, <2>4 DEF FlowInv, Sent
  <2>5. CASE published' = Append(published, purchase[r])
    <3>1. /\ DOMAIN published' = 1 .. Len(published) + 1
          /\ \A n \in DOMAIN published : published'[n] = published[n]
          /\ published'[Len(published) + 1] = purchase[r]
          /\ DOMAIN published = 1 .. Len(published) /\ Len(published) \in Nat
      BY <1>3, <2>5, RowAppended, LenProperties
    <3>2. /\ DOMAIN published' = DOMAIN published \cup {Len(published) + 1}
          /\ Len(published) + 1 \notin DOMAIN published
      BY <3>1
    <3>3. \A n \in DOMAIN published' : \E s \in Requests :
            pc'[s] = "done" /\ verdict'[s] = "created" /\ purchase'[s] = published'[n]
      BY <1>2, <2>1, <2>2, <2>3, <3>1, <3>2 DEF FlowInv, Sent
    <3>4. \A m, n \in DOMAIN published' : published'[m] = published'[n] => m = n
      BY <1>5, <3>1, <3>2 DEF FlowInv, Sent
    <3> QED BY <3>3, <3>4 DEF Sent
  <2> QED BY <1>1, <2>4, <2>5
<1> QED BY <1>1, <1>4, <1>6, RespondKeeps DEF FlowInv

LEMMA RetryKeeps ==
  ASSUME FlowInv, NEW r \in Requests, Retry(r)
  PROVE  FlowInv'
<1>1. ShopInv'
  BY QuietShop DEF FlowInv, ShopKept, Retry
<1>2. pc[r] = "done" /\ verdict[r] = "IDEMPOTENCY_IN_PROGRESS" /\ purchase[r] = None
  BY DEF Retry, FlowInv, Stages
<1>3. FlowTypeOK'
  BY DEF Retry, Goto, environment, objectVars, FlowInv, FlowTypeOK, Optional
<1>4. Stages'
  BY <1>2, NoText DEF Retry, Goto, FlowInv, FlowTypeOK, Stages
<1>5. Bought' /\ OneMaker'
  BY <1>2 DEF Retry, FlowInv, FlowTypeOK, Bought, OneMaker, vars, orderVars
<1>6. Sent'
  BY <1>2 DEF Retry, Goto, FlowInv, FlowTypeOK, Sent
<1>7. Objects'
  BY <1>2 DEF Retry, Goto, FlowInv, FlowTypeOK, Objects, vars, refundVars, objectVars
<1> QED BY <1>1, <1>3, <1>4, <1>5, <1>6, <1>7 DEF FlowInv

LEMMA RestartKeeps == ASSUME FlowInv, Restart PROVE FlowInv'
<1>1. ShopInv'
  BY ResetShop DEF FlowInv, Restart
<1>2. connected' \in BOOLEAN /\ restarts' \in 0 .. MaxRestarts
  <2>1. connected' \in BOOLEAN
    BY DEF Restart, Ping
  <2>2. restarts \in 0 .. MaxRestarts /\ restarts < MaxRestarts
        /\ restarts' = restarts + 1
    BY DEF Restart, FlowInv, FlowTypeOK
  <2> QED BY <2>1, <2>2, FlowAssumption
<1>3. FlowTypeOK'
  BY <1>2 DEF Restart, NoRequests, FlowInv, FlowTypeOK, Optional
<1>4. Stages' /\ Bought' /\ OneMaker'
  BY NoText DEF Restart, NoRequests, Stages, Bought, OneMaker
<1>5. Sent' /\ Objects'
  BY NoText DEF Restart, NoRequests, Sent, Objects
<1> QED BY <1>1, <1>3, <1>4, <1>5 DEF FlowInv

-----------------------------------------------------------------------------
(* create_purchase under the flow *)

LEMMA VerdictIsOutcome ==
  ASSUME NEW u \in Users, NEW i \in ItemIds, NEW q \in Quantities, NEW k \in Keys
  PROVE  BuyVerdict(u, i, q, k) \in Outcomes
<1>1. SaleVerdict(u, i, q) \in Outcomes
  BY DEF SaleVerdict, Outcomes
<1>2. KeyVerdict(u, i, q, k) \in Outcomes \cup {"free"}
  BY DEF KeyVerdict, Outcomes
<1> QED BY <1>1, <1>2 DEF BuyVerdict

\* What create_purchase leaves behind, whatever it answers: a purchase the key
\* stands for, new or not, or no change but detached objects.
LEMMA CreateFacts ==
  ASSUME FlowInv, NEW r \in Requests, NEW call \in Arguments, NEW object,
         verdict[r] = None, purchase[r] = None, CreatePurchase(r, call, object)
  PROVE  /\ ShopKept
         /\ [Next]_vars
         /\ verdict' = [verdict EXCEPT ![r] = verdict'[r]]
         /\ verdict'[r] \in Outcomes
         /\ purchase' = [purchase EXCEPT ![r] = purchase'[r]]
         /\ \/ /\ verdict'[r] \in {"created", "replayed"}
               /\ purchase'[r] \in DOMAIN purchases'
               /\ idempotency'[call.key] # None
               /\ idempotency'[call.key].result = purchase'[r]
               /\ verdict'[r] = "created" => purchase'[r] \notin DOMAIN purchases
               /\ held' = [held EXCEPT ![r] = object]
            \/ /\ verdict'[r] \notin {"created", "replayed"}
               /\ purchase' = purchase
               /\ held' = Detached
               /\ UNCHANGED <<purchases, refundByPurchase>>
<1> DEFINE u == call.user
           i == call.item
           q == call.quantity
           k == call.key
<1>1. u \in Users /\ i \in ItemIds /\ q \in Quantities /\ k \in Keys
  BY DEF Arguments
<1>2. /\ verdict' = [verdict EXCEPT ![r] = BuyVerdict(u, i, q, k)]
      /\ verdict'[r] = BuyVerdict(u, i, q, k)
  BY DEF CreatePurchase, FlowInv, FlowTypeOK
<1>3. verdict'[r] \in Outcomes
  BY <1>1, <1>2, VerdictIsOutcome
<1>4. purchase \in [Requests -> Optional(PurchaseIds)]
  BY DEF FlowInv, FlowTypeOK
<1> HIDE DEF u, i, q, k
<1>5. CASE BuyNew(u, i, q, k) /\ purchase' = [purchase EXCEPT ![r] = Len(purchases) + 1]
           /\ held' = [held EXCEPT ![r] = object]
  <2>1. ShopKept /\ [Next]_vars
    BY <1>1, <1>5, BuyNewKeepsShop DEF FlowInv, Next, PurchaseRequest
  <2>2. purchase'[r] = Len(purchases) + 1
    BY <1>4, <1>5
  <2>3. /\ purchase'[r] \in DOMAIN purchases' /\ purchase'[r] \notin DOMAIN purchases
        /\ purchases'[purchase'[r]].key = k
    <3>1. /\ DOMAIN purchases = 1 .. Len(purchases) /\ Len(purchases) \in Nat
          /\ DOMAIN purchases' = 1 .. Len(purchases) + 1
          /\ purchases'[Len(purchases) + 1] = BoughtRow(u, i, q, k)
      BY <1>1, <1>5, BuyNewRows DEF FlowInv, ShopInv
    <3> QED BY <2>2, <3>1 DEF BoughtRow
  <2>4. /\ idempotency'[k] # None /\ idempotency'[k].result = purchase'[r]
    BY <2>1, <2>3 DEF ShopKept, ShopInv, IdempotencyExact
  <2>5. verdict'[r] = "created"
    BY <1>2, <1>5 DEF BuyNew
  <2> QED BY <1>2, <1>3, <1>5, <2>1, <2>2, <2>3, <2>4, <2>5 DEF k
<1>6. CASE BuyReplay(u, i, q, k)
           /\ purchase' = [purchase EXCEPT ![r] = idempotency[k].result]
           /\ held' = [held EXCEPT ![r] = object]
  <2>1. UNCHANGED vars /\ verdict'[r] = "replayed"
    BY <1>2, <1>6 DEF BuyReplay
  <2>2. ShopKept /\ [Next]_vars /\ UNCHANGED <<purchases, idempotency>>
    BY <2>1, QuietShop DEF FlowInv, vars, orderVars
  <2>3. purchase'[r] = idempotency[k].result
    BY <1>4, <1>6
  <2>4. idempotency[k] # None
    <3>1. KeyVerdict(u, i, q, k) = "replayed"
      <4>1. SaleVerdict(u, i, q) # "replayed"
        BY DEF SaleVerdict
      <4> QED BY <1>6, <4>1 DEF BuyReplay, BuyVerdict
    <3> QED BY <3>1 DEF KeyVerdict
  <2>5. idempotency[k].result \in DOMAIN purchases
    BY <1>1, <2>4 DEF FlowInv, ShopInv, IdempotencyExact
  <2> QED BY <1>2, <1>3, <1>6, <2>1, <2>2, <2>3, <2>4, <2>5 DEF k
<1>7. CASE BuyRefused(u, i, q, k) /\ held' = Detached /\ UNCHANGED purchase
  <2>1. verdict'[r] \notin {"created", "replayed"}
    BY <1>2, <1>7 DEF BuyRefused
  <2>2. UNCHANGED <<purchases, refundByPurchase, idempotency, refunds>>
    BY <1>7 DEF BuyRefused, Restored, refundVars
  <2>3. [Next]_vars
    BY <1>1, <1>7 DEF Next, PurchaseRequest
  <2>4. ShopKept
    BY <2>3, ShopStep DEF FlowInv
  <2>5. purchase' = [purchase EXCEPT ![r] = purchase'[r]]
    BY <1>4, <1>7
  <2> QED BY <1>2, <1>3, <1>7, <2>1, <2>2, <2>3, <2>4, <2>5
<1> QED BY <1>5, <1>6, <1>7 DEF CreatePurchase, u, i, q, k

\* Nobody else held the purchase that was made, and everybody who holds one of
\* the key holds the same.
LEMMA CreateKeepsOrders ==
  ASSUME FlowInv, NEW r \in Requests, NEW call \in Arguments, NEW object,
         verdict[r] = None, purchase[r] = None, CreatePurchase(r, call, object),
         args' = [args EXCEPT ![r] = call],
         pc' = [pc EXCEPT ![r] = pc'[r]], pc'[r] \in {"releasing", "done"},
         published' = published, pc[r] # "done"
  PROVE  Stages' /\ Bought' /\ OneMaker' /\ Sent'
<1>1. /\ ShopKept
      /\ verdict' = [verdict EXCEPT ![r] = verdict'[r]]
      /\ verdict'[r] \in Outcomes /\ verdict'[r] # None
      /\ purchase' = [purchase EXCEPT ![r] = purchase'[r]]
  BY CreateFacts, NoCallAssumption
<1>2. \/ /\ verdict'[r] \in {"created", "replayed"}
         /\ purchase'[r] \in DOMAIN purchases'
         /\ idempotency'[call.key] # None
         /\ idempotency'[call.key].result = purchase'[r]
         /\ verdict'[r] = "created" => purchase'[r] \notin DOMAIN purchases
      \/ verdict'[r] \notin {"created", "replayed"} /\ purchase'[r] = None
  BY CreateFacts
<1>3. None \notin DOMAIN purchases'
  BY <1>1, LenProperties, NoneAssumption DEF ShopKept, ShopInv, TypeOK
<1>4. args'[r] = call /\ call.key \in Keys
      /\ \A s \in Requests : s # r =>
           /\ args'[s] = args[s] /\ purchase'[s] = purchase[s]
           /\ verdict'[s] = verdict[s] /\ pc'[s] = pc[s]
  BY <1>1 DEF Arguments, FlowInv, FlowTypeOK
<1>5. Stages'
  BY <1>1, <1>2, <1>3, <1>4 DEF FlowInv, Stages
<1>6. Bought'
  <2>1. \A s \in Requests : s # r /\ purchase[s] # None => args[s].key \in Keys
    BY NoText DEF FlowInv, Stages, Arguments
  <2> QED BY <1>1, <1>2, <1>3, <1>4, <2>1 DEF FlowInv, Bought, ShopKept
<1>7. OneMaker'
  BY <1>2, <1>3, <1>4 DEF FlowInv, Bought, OneMaker
<1>8. Sent'
  BY <1>4 DEF FlowInv, Sent
<1> QED BY <1>5, <1>6, <1>7, <1>8

\* A rollback shows everybody the status the purchase had until then.
LEMMA DetachedKeeps ==
  ASSUME FlowInv, held' = Detached
  PROVE  /\ held' \in [Requests -> Optional({"shared", "completed", "refunded"})]
         /\ \A r \in Requests :
              /\ held'[r] = None <=> held[r] = None
              /\ held'[r] = "refunded" => refundByPurchase[purchase[r]] # None
              /\ held[r] \in {"shared", "refunded"}
                   /\ refundByPurchase[purchase[r]] # None => held'[r] = "refunded"
<1>1. \A r \in Requests : held'[r] = Seen(r)
  BY DEF Detached
<1>2. DOMAIN held' = Requests
  BY DEF Detached
<1>3. \A r \in Requests : held'[r] \in Optional({"completed", "refunded"})
  BY <1>1, SeenTrue
<1>4. held' \in [Requests -> Optional({"shared", "completed", "refunded"})]
  BY <1>1, <1>2, <1>3 DEF Detached, Optional
<1>5. ASSUME NEW r \in Requests
      PROVE  /\ held'[r] = None <=> held[r] = None
             /\ held'[r] = "refunded" => refundByPurchase[purchase[r]] # None
             /\ held[r] \in {"shared", "refunded"}
                  /\ refundByPurchase[purchase[r]] # None => held'[r] = "refunded"
  BY <1>1, SeenTrue
<1> QED BY <1>4, <1>5

LEMMA CreateKeeps ==
  ASSUME FlowInv, NEW r \in Requests, Create(r)
  PROVE  FlowInv'
<1>1. /\ pc[r] = "creating" /\ verdict[r] = None /\ purchase[r] = None
      /\ args[r] \in Arguments /\ CreatePurchase(r, args[r], "shared")
      /\ held[r] = None /\ event[r] = None /\ answer[r] = None
  BY NoText DEF Create, FlowInv, Stages, Objects
<1>2. /\ pc' = [pc EXCEPT ![r] = "releasing"]
      /\ args' = [args EXCEPT ![r] = args[r]]
      /\ UNCHANGED <<connected, restarts, reserve, published, args, event, answer>>
  BY DEF Create, Goto, environment, FlowInv, FlowTypeOK
<1>3. Stages' /\ Bought' /\ OneMaker' /\ Sent'
  <2>1. pc'[r] = "releasing"
    BY <1>2 DEF FlowInv, FlowTypeOK
  <2> QED BY <1>1, <1>2, <2>1, CreateKeepsOrders
<1>4. /\ ShopKept
      /\ verdict' = [verdict EXCEPT ![r] = verdict'[r]] /\ verdict'[r] \in Outcomes
      /\ purchase' = [purchase EXCEPT ![r] = purchase'[r]]
  BY <1>1, CreateFacts
<1>5. \/ purchase'[r] \in DOMAIN purchases' /\ held' = [held EXCEPT ![r] = "shared"]
      \/ /\ purchase' = purchase /\ held' = Detached
         /\ UNCHANGED refundByPurchase
  BY <1>1, CreateFacts
<1>6. purchase'[r] \in Optional(PurchaseIds)
  <2>1. DOMAIN purchases' \subseteq PurchaseIds
    BY <1>4, LenProperties, StoreAssumption DEF ShopKept, ShopInv, TypeOK, PurchaseIds
  <2> QED BY <1>1, <1>5, <2>1 DEF Optional
<1>7. FlowTypeOK'
  <2>1. held' \in [Requests -> Optional({"shared", "completed", "refunded"})]
    BY <1>5, DetachedKeeps DEF FlowInv, FlowTypeOK, Optional
  <2> QED BY <1>2, <1>4, <1>6, <2>1 DEF FlowInv, FlowTypeOK, Optional
<1>8. Objects'
  <2>1. ASSUME NEW s \in Requests, s # r
        PROVE  /\ event[s] # None \/ answer[s] # None \/ held'[s] # None
                    => purchase'[s] # None
               /\ purchase'[s] = purchase[s] /\ pc'[s] = pc[s]
               /\ "refunded" \in {held'[s], event[s], answer[s]}
                    => refundByPurchase'[purchase[s]] # None
               /\ pc[s] = "publishing" /\ event[s] = "refunded"
                    => held'[s] \in {"shared", "refunded"}
    <3>1. purchase'[s] = purchase[s] /\ pc'[s] = pc[s]
      BY <1>2, <1>4, <2>1 DEF FlowInv, FlowTypeOK
    <3>2. purchase[s] # None => purchase[s] \in PurchaseIds
      BY DEF FlowInv, FlowTypeOK, Optional
    <3>3. CASE held' = [held EXCEPT ![r] = "shared"]
      <4>1. held'[s] = held[s]
        BY <2>1, <3>3 DEF FlowInv, FlowTypeOK
      <4> QED BY <1>4, <3>1, <3>2, <4>1, NoText DEF FlowInv, Objects, ShopKept
    <3>4. CASE held' = Detached /\ UNCHANGED refundByPurchase
      BY <3>1, <3>4, DetachedKeeps DEF FlowInv, Objects
    <3> QED BY <1>5, <3>3, <3>4
  <2>2. /\ pc'[r] = "releasing" /\ event[r] = None /\ answer[r] = None
        /\ held'[r] # None => purchase'[r] # None
        /\ held'[r] # "refunded"
    <3>1. pc'[r] = "releasing"
      BY <1>2 DEF FlowInv, FlowTypeOK
    <3>2. None \notin DOMAIN purchases'
      BY <1>4, LenProperties, NoneAssumption DEF ShopKept, ShopInv, TypeOK
    <3>3. held'[r] = "shared" \/ held'[r] = None
      BY <1>1, <1>5, DetachedKeeps DEF FlowInv, FlowTypeOK
    <3>4. held'[r] # None => purchase'[r] # None
      BY <1>1, <1>5, <3>2, DetachedKeeps
    <3> QED BY <1>1, <3>1, <3>3, <3>4, NoText
  <2>3. UNCHANGED <<event, answer>>
    BY <1>2
  <2> QED BY <1>1, <2>1, <2>2, <2>3, NoText DEF FlowInv, Objects
<1> QED BY <1>3, <1>4, <1>7, <1>8 DEF FlowInv, ShopKept

\* Without Redis the request keeps no object: it answers in the same step.
LEMMA ServeDegradedKeeps ==
  ASSUME FlowInv, NEW r \in Requests, NEW call \in Arguments,
         ServeDegraded(r, call)
  PROVE  FlowInv'
<1>1. /\ pc[r] = "idle" /\ verdict[r] = None /\ purchase[r] = None
      /\ CreatePurchase(r, call, None)
      /\ held[r] = None /\ event[r] = None /\ answer[r] = None
  BY NoText DEF ServeDegraded, FlowInv, Stages, Objects
<1>2. /\ pc' = [pc EXCEPT ![r] = "done"] /\ pc'[r] = "done"
      /\ args' = [args EXCEPT ![r] = call]
      /\ UNCHANGED <<connected, restarts, reserve, published, event>>
  BY DEF ServeDegraded, Goto, environment, FlowInv, FlowTypeOK
<1>3. Stages' /\ Bought' /\ OneMaker' /\ Sent'
  BY <1>1, <1>2, CreateKeepsOrders
<1>4. /\ ShopKept
      /\ verdict' = [verdict EXCEPT ![r] = verdict'[r]] /\ verdict'[r] \in Outcomes
      /\ purchase' = [purchase EXCEPT ![r] = purchase'[r]]
  BY <1>1, CreateFacts
<1>5. \/ purchase'[r] \in DOMAIN purchases' /\ held' = [held EXCEPT ![r] = None]
      \/ /\ purchase' = purchase /\ held' = Detached
         /\ UNCHANGED refundByPurchase
  BY <1>1, CreateFacts
<1>6. purchase'[r] \in Optional(PurchaseIds)
      /\ (purchase'[r] # None => purchase'[r] \in DOMAIN purchases')
  <2>1. DOMAIN purchases' \subseteq PurchaseIds
    BY <1>4, LenProperties, StoreAssumption DEF ShopKept, ShopInv, TypeOK, PurchaseIds
  <2> QED BY <1>1, <1>5, <2>1 DEF Optional
<1>7. /\ answer' = [answer EXCEPT ![r] = answer'[r]]
      /\ answer'[r] \in Optional({"completed", "refunded"})
      /\ answer'[r] # None => purchase'[r] # None
      /\ answer'[r] = "refunded" => refundByPurchase'[purchase'[r]] # None
  <2>1. /\ answer' = [answer EXCEPT ![r] =
              IF purchase'[r] = None THEN None ELSE purchases'[purchase'[r]].status]
        /\ answer'[r] =
              IF purchase'[r] = None THEN None ELSE purchases'[purchase'[r]].status
    BY DEF ServeDegraded, FlowInv, FlowTypeOK
  <2>2. ASSUME purchase'[r] # None
        PROVE  /\ purchases'[purchase'[r]].status \in {"completed", "refunded"}
               /\ purchases'[purchase'[r]].status = "refunded"
                    => refundByPurchase'[purchase'[r]] # None
    <3>1. \A p \in DOMAIN purchases' : purchases'[p] \in PurchaseRecord
      BY <1>4, ElementOfSeq, LenProperties DEF ShopKept, ShopInv, TypeOK
    <3>2. purchases'[purchase'[r]].status = "refunded"
            => refundByPurchase'[purchase'[r]] # None
      BY <1>4, <1>6, <2>2 DEF ShopKept, ShopInv, RefundExact
    <3> QED BY <1>6, <2>2, <3>1, <3>2 DEF PurchaseRecord
  <2> QED BY <2>1, <2>2, NoText DEF Optional
<1>8. FlowTypeOK'
  <2>1. held' \in [Requests -> Optional({"shared", "completed", "refunded"})]
    BY <1>5, DetachedKeeps DEF FlowInv, FlowTypeOK, Optional
  <2> QED BY <1>2, <1>4, <1>6, <1>7, <2>1 DEF FlowInv, FlowTypeOK, Optional
<1>9. Objects'
  <2>1. ASSUME NEW s \in Requests, s # r
        PROVE  /\ event[s] # None \/ answer'[s] # None \/ held'[s] # None
                    => purchase'[s] # None
               /\ purchase'[s] = purchase[s] /\ pc'[s] = pc[s]
               /\ answer'[s] = answer[s]
               /\ "refunded" \in {held'[s], event[s], answer[s]}
                    => refundByPurchase'[purchase[s]] # None
               /\ pc[s] = "publishing" /\ event[s] = "refunded"
                    => held'[s] \in {"shared", "refunded"}
    <3>1. purchase'[s] = purchase[s] /\ pc'[s] = pc[s] /\ answer'[s] = answer[s]
      BY <1>2, <1>4, <1>7, <2>1 DEF FlowInv, FlowTypeOK
    <3>2. purchase[s] # None => purchase[s] \in PurchaseIds
      BY DEF FlowInv, FlowTypeOK, Optional
    <3>3. CASE held' = [held EXCEPT ![r] = None]
      <4>1. held'[s] = held[s]
        BY <2>1, <3>3 DEF FlowInv, FlowTypeOK
      <4> QED BY <1>4, <3>1, <3>2, <4>1, NoText DEF FlowInv, Objects, ShopKept
    <3>4. CASE held' = Detached /\ UNCHANGED refundByPurchase
      BY <3>1, <3>4, DetachedKeeps DEF FlowInv, Objects
    <3> QED BY <1>5, <3>3, <3>4
  <2>2. held'[r] = None
    BY <1>1, <1>5, DetachedKeeps DEF FlowInv, FlowTypeOK
  <2>3. event' = event
    BY <1>2
  <2> QED BY <1>1, <1>2, <1>7, <2>1, <2>2, <2>3, NoText DEF FlowInv, Objects
<1> QED BY <1>3, <1>4, <1>8, <1>9 DEF FlowInv, ShopKept

LEMMA OtherRefusedKeeps == ASSUME FlowInv, OtherRefused PROVE FlowInv'
<1>1. ShopInv'
  BY QuietShop DEF FlowInv, ShopKept, OtherRefused
<1>2. held' = Detached /\ UNCHANGED <<connected, restarts, reserve, published, pc,
        args, verdict, purchase, event, answer, purchases, idempotency,
        refundByPurchase>>
  BY DEF OtherRefused, environment, vars, orderVars, refundVars
<1>3. FlowTypeOK'
  BY <1>2, DetachedKeeps DEF FlowInv, FlowTypeOK
<1>4. Stages' /\ Bought' /\ OneMaker' /\ Sent'
  BY <1>2 DEF FlowInv, Stages, Bought, OneMaker, Sent
<1>5. Objects'
  BY <1>2, DetachedKeeps DEF FlowInv, Objects
<1> QED BY <1>1, <1>3, <1>4, <1>5 DEF FlowInv

LEMMA FlowInitInv == FlowInit => FlowInv
<1> SUFFICES ASSUME FlowInit PROVE FlowInv
  OBVIOUS
<1>1. ShopInv
  BY InitShop DEF FlowInit
<1>2. FlowTypeOK
  <2>1. connected \in BOOLEAN
    BY DEF FlowInit, Ping
  <2>2. restarts \in 0 .. MaxRestarts
    BY FlowAssumption DEF FlowInit
  <2> QED BY <2>1, <2>2 DEF FlowInit, NoRequests, FlowTypeOK, Optional
<1>3. Stages /\ Bought /\ OneMaker /\ Sent /\ Objects
  BY NoText DEF FlowInit, NoRequests, Stages, Bought, OneMaker, Sent, Objects
<1> QED BY <1>1, <1>2, <1>3 DEF FlowInv

LEMMA FlowNextInv == FlowInv /\ [PatientNext]_allVars => FlowInv'
<1> SUFFICES ASSUME FlowInv, [PatientNext]_allVars PROVE FlowInv'
  OBVIOUS
<1>1. ASSUME NEW r \in Requests, Step(r) PROVE FlowInv'
  BY <1>1, ReserveKeeps, RefuseKeeps, CreateKeeps, ReleaseKeeps, AnnounceKeeps,
     AnswerReplayKeeps, PublishKeeps DEF Step
<1>2. ASSUME NEW slot \in Slots, Expire(slot) PROVE FlowInv'
  BY <1>2, OthersKeepFlow, QuietShop
  DEF Expire, environment, FlowInv, FlowTypeOK
<1>3. ASSUME OtherRequest PROVE FlowInv'
  <2>1. ShopKept
    BY <1>3, ShopStep DEF OtherRequest, Next, FlowInv
  <2> QED BY <1>3, <2>1, OthersKeepFlow
      DEF OtherRequest, flowVars, environment, FlowInv, FlowTypeOK
<1>4. ASSUME UNCHANGED allVars PROVE FlowInv'
  BY <1>4, OthersKeepFlow, QuietShop
  DEF allVars, flowVars, environment, FlowInv, FlowTypeOK
<1> QED BY <1>1, <1>2, <1>3, <1>4, ArriveKeeps, ServeDegradedKeeps, OtherRefusedKeeps,
           RestartKeeps, RetryKeeps DEF PatientNext, FlowNext, Quiet

LEMMA FlowInvCorrect == FlowSpec \/ PatientSpec => []FlowInv
<1>1. FlowInv /\ [FlowNext]_allVars => FlowInv'
  BY FlowNextInv DEF PatientNext
<1>2. FlowSpec => []FlowInv
  BY FlowInitInv, <1>1, PTL DEF FlowSpec
<1>3. PatientSpec => []FlowInv
  BY FlowInitInv, FlowNextInv, PTL DEF PatientSpec
<1> QED BY <1>2, <1>3

-----------------------------------------------------------------------------
\* The requests keep their shape through every failure and restart.
THEOREM FlowTypeCorrect == FlowSpec \/ PatientSpec => []FlowTypeOK
<1>1. FlowInv => FlowTypeOK
  BY DEF FlowInv
<1> QED BY <1>1, FlowInvCorrect, PTL

\* Requests of one key get one purchase, which one of them made.
THEOREM AnswerSame == FlowSpec \/ PatientSpec => []SameAnswer
<1>1. FlowInv => SameAnswer
  <2> SUFFICES ASSUME FlowInv, NEW r \in Requests, NEW s \in Requests,
                      purchase[r] # None, purchase[s] # None
               PROVE  /\ args[r].key = args[s].key <=> purchase[r] = purchase[s]
                      /\ (purchase[r] = purchase[s] /\ verdict[r] = "created"
                            /\ verdict[s] = "created") => r = s
    BY DEF SameAnswer
  <2>1. args[r].key \in Keys /\ args[s].key \in Keys
    BY NoText DEF FlowInv, Stages, Arguments
  <2>2. purchases[purchase[r]].key = args[r].key
        /\ purchases[purchase[s]].key = args[s].key
    BY <2>1 DEF FlowInv, ShopInv, IdempotencyExact, Bought
  <2> QED BY <2>2 DEF FlowInv, Bought, OneMaker
<1> QED BY <1>1, FlowInvCorrect, PTL

\* No event is sent twice, nor for a purchase the store does not have.
THEOREM PublishedCorrect == FlowSpec \/ PatientSpec => []PublishedOnce
<1>1. FlowInv => PublishedOnce
  <2> SUFFICES ASSUME FlowInv PROVE PublishedOnce
    OBVIOUS
  <2>1. ASSUME NEW n \in DOMAIN published
        PROVE  published[n] \in DOMAIN purchases
    <3>1. PICK r \in Requests : verdict[r] = "created" /\ purchase[r] = published[n]
      BY DEF FlowInv, Sent
    <3> QED BY <3>1 DEF FlowInv, Stages, Bought
  <2> QED BY <2>1 DEF FlowInv, Sent, PublishedOnce
<1> QED BY <1>1, FlowInvCorrect, PTL

\* Neither an event nor an answer reports a refund that does not exist, and
\* they do not contradict each other.
THEOREM AnswersCorrect == FlowSpec \/ PatientSpec => []AnswerTrue
<1>1. FlowInv => AnswerTrue
  BY DEF FlowInv, Objects, AnswerTrue
<1> QED BY <1>1, FlowInvCorrect, PTL

-----------------------------------------------------------------------------
(* The reserves of Redis *)

\* A request that still needs its reserve.
Holding(r) == pc[r] \in {"creating", "releasing"}

\* A reserve is there as long as its request needs it, and nobody shares it.
Guarded ==
  \A r \in Requests : Holding(r) =>
    /\ Slot(r) \in reserve
    /\ \A s \in Requests : Holding(s) /\ Slot(s) = Slot(r) => s = r

\* A reserve has a request that needs it.
Attended == \A slot \in reserve : \E r \in Requests : Holding(r) /\ Slot(r) = slot

\* What a step may do to the reserves: a request takes a free slot, gives its
\* own back, or nobody needs the slot that goes.
LEMMA Moves ==
  ASSUME ~RedisFails, FlowInv, [PatientNext]_allVars
  PROVE  \/ Restart
         \/ \E r \in Requests : Reserve(r) \/ Release(r)
         \/ \E slot \in Slots : Expire(slot)
         \/ /\ reserve' = reserve
            /\ \A r \in Requests : /\ Holding(r)' <=> Holding(r)
                                   /\ Holding(r) => args'[r] = args[r]
<1>1. CASE Restart
  BY <1>1
<1>2. ASSUME NEW r \in Requests, Step(r)
      PROVE  \/ Reserve(r) \/ Release(r)
             \/ /\ reserve' = reserve
                /\ \A s \in Requests : /\ Holding(s)' <=> Holding(s)
                                       /\ Holding(s) => args'[s] = args[s]
  <2>1. ASSUME reserve' = reserve, args' = args, NEW await, Goto(r, await),
               Holding(r) <=> await \in {"creating", "releasing"}
        PROVE  \A s \in Requests : /\ Holding(s)' <=> Holding(s)
                                   /\ Holding(s) => args'[s] = args[s]
    BY <2>1 DEF Holding, Goto, FlowInv, FlowTypeOK
  <2> QED BY <1>2, <2>1 DEF Step, Create, ReserveTaken, ReserveFails, Refuse, Raise,
             Announce, AnswerReplay, Publish, Respond, Holding
<1>3. ASSUME NEW r \in Requests, NEW call \in Arguments,
             Arrive(r, call) \/ ServeDegraded(r, call)
      PROVE  /\ reserve' = reserve
             /\ \A s \in Requests : /\ Holding(s)' <=> Holding(s)
                                    /\ Holding(s) => args'[s] = args[s]
  BY <1>3 DEF Arrive, ServeDegraded, Goto, Holding, FlowInv, FlowTypeOK
<1>4. ASSUME NEW r \in Requests, Retry(r)
      PROVE  /\ reserve' = reserve
             /\ \A s \in Requests : /\ Holding(s)' <=> Holding(s)
                                    /\ Holding(s) => args'[s] = args[s]
  BY <1>4 DEF Retry, Goto, Holding, FlowInv, FlowTypeOK
<1>5. ASSUME UNCHANGED <<reserve, pc, args>>
      PROVE  /\ reserve' = reserve
             /\ \A s \in Requests : /\ Holding(s)' <=> Holding(s)
                                    /\ Holding(s) => args'[s] = args[s]
  BY <1>5 DEF Holding
<1>6. OtherRequest \/ OtherRefused \/ Quiet \/ UNCHANGED allVars
        => UNCHANGED <<reserve, pc, args>>
  BY DEF OtherRequest, OtherRefused, Quiet, allVars, flowVars
<1> QED BY <1>1, <1>2, <1>3, <1>4, <1>5, <1>6 DEF PatientNext, FlowNext

\* Redis works and is patient enough.
InTime == ~RedisFails /\ ~OutlivesReserve

LEMMA HeldStep ==
  FlowInv /\ (InTime => Guarded) /\ [PatientNext]_allVars => (InTime => Guarded)'
<1> SUFFICES ASSUME FlowInv, InTime, Guarded, [PatientNext]_allVars
             PROVE  Guarded'
  BY DEF InTime
<1>1. ASSUME NEW r \in Requests, Reserve(r) PROVE Guarded'
  <2>1. \A s \in Requests : Slot(s)' = Slot(s)
                            /\ (s # r => (Holding(s)' <=> Holding(s)))
    BY <1>1 DEF Reserve, Goto, Slot, Holding, FlowInv, FlowTypeOK
  <2>2. Slot(r) \notin reserve /\ reserve' = reserve \cup {Slot(r)}
    BY <1>1 DEF Reserve
  <2> QED BY <2>1, <2>2 DEF Guarded
<1>2. ASSUME NEW r \in Requests, Release(r) PROVE Guarded'
  <2>1. \A s \in Requests : Slot(s)' = Slot(s)
                            /\ (s # r => (Holding(s)' <=> Holding(s)))
    BY <1>2 DEF Release, Goto, Slot, Holding, FlowInv, FlowTypeOK
  <2>2. Holding(r) /\ ~Holding(r)' /\ reserve' = reserve \ {Slot(r)}
    BY <1>2 DEF Release, Freed, Goto, Holding, FlowInv, FlowTypeOK, InTime
  <2> QED BY <2>1, <2>2 DEF Guarded
<1>3. ASSUME NEW slot \in Slots, Expire(slot) PROVE Guarded'
  <2>1. Holders(slot) = {} /\ reserve' = reserve \ {slot} /\ UNCHANGED <<pc, args>>
    BY <1>3 DEF Expire, InTime
  <2> QED BY <2>1 DEF Guarded, Holding, Holders, Slot
<1>4. CASE Restart
  BY <1>4 DEF Restart, Guarded, Holding
<1> QED BY <1>1, <1>2, <1>3, <1>4, Moves DEF Guarded, Slot, InTime

\* Redis works and the process does not stop.
InService == ~RedisFails /\ MaxRestarts = 0

LEMMA NeededStep ==
  FlowInv /\ (InService => Attended) /\ [PatientNext]_allVars => (InService => Attended)'
<1> SUFFICES ASSUME FlowInv, InService, Attended, [PatientNext]_allVars
             PROVE  Attended'
  BY DEF InService
<1>1. ~Restart
  BY DEF Restart, InService, FlowInv, FlowTypeOK
<1>2. ASSUME NEW r \in Requests, Reserve(r) PROVE Attended'
  <2>1. \A s \in Requests : /\ Slot(s)' = Slot(s)
                            /\ Holding(s) => Holding(s)'
    BY <1>2 DEF Reserve, Goto, Slot, Holding, FlowInv, FlowTypeOK
  <2>2. reserve' = reserve \cup {Slot(r)} /\ Holding(r)'
    BY <1>2 DEF Reserve, Goto, Holding, FlowInv, FlowTypeOK
  <2> QED BY <2>1, <2>2 DEF Attended
<1>3. ASSUME NEW r \in Requests, Release(r) PROVE Attended'
  <2>1. \A s \in Requests : Slot(s)' = Slot(s)
                            /\ (s # r => (Holding(s)' <=> Holding(s)))
    BY <1>3 DEF Release, Goto, Slot, Holding, FlowInv, FlowTypeOK
  <2>2. reserve' = reserve \ {Slot(r)}
    BY <1>3 DEF Release, Freed, InService
  <2> QED BY <2>1, <2>2 DEF Attended
<1>4. ASSUME NEW slot \in Slots, Expire(slot) PROVE Attended'
  BY <1>4 DEF Expire, Attended, Holding, Slot
<1> QED BY <1>1, <1>2, <1>3, <1>4, Moves DEF Attended, Slot, InService

LEMMA ReservesCorrect ==
  FlowSpec \/ PatientSpec => [](FlowInv /\ (InTime => Guarded) /\ (InService => Attended))
<1> DEFINE Inv == FlowInv /\ (InTime => Guarded) /\ (InService => Attended)
<1>1. FlowInit => Inv
  BY FlowInitInv DEF FlowInit, Guarded, Attended, Holding
<1>2. Inv /\ [PatientNext]_allVars => Inv'
  BY FlowNextInv, HeldStep, NeededStep
<1>3. Inv /\ [FlowNext]_allVars => Inv'
  BY <1>2 DEF PatientNext
<1>4. FlowSpec => []Inv
  BY <1>1, <1>3, PTL DEF FlowSpec
<1>5. PatientSpec => []Inv
  BY <1>1, <1>2, PTL DEF PatientSpec
<1> QED BY <1>4, <1>5

\* While Redis works and requests are faster than its time to live, one request
\* at a time is between SET and DELETE of a slot.
THEOREM ExclusiveCorrect == FlowSpec \/ PatientSpec => []Exclusive
<1>1. (InTime => Guarded) => Exclusive
  <2> SUFFICES ASSUME Guarded, NEW slot \in Slots
               PROVE  Cardinality(Holders(slot)) <= 1
    BY DEF Exclusive, InTime
  <2>1. CASE Holders(slot) = {}
    <3>1. Cardinality(Holders(slot)) = 0
      BY <2>1, FS_EmptySet
    <3> QED BY <3>1
  <2>2. CASE Holders(slot) # {}
    <3>1. PICK r \in Requests : Holders(slot) = {r}
      BY <2>2 DEF Guarded, Holding, Holders
    <3>2. Cardinality(Holders(slot)) = 1
      BY <3>1, FS_Singleton, Zenon
    <3> QED BY <3>2
  <2> QED BY <2>1, <2>2
<1> QED BY <1>1, ReservesCorrect, PTL

\* While Redis works and the process does not stop, whoever is going to be told
\* "in progress" met a request of the user and key that was.
THEOREM InProgressCorrect ==
  ASSUME InService PROVE FlowSpec \/ PatientSpec => InProgressIsTrue
<1>1. ASSUME InService, FlowInv, Attended, [PatientNext]_allVars,
             NEW r \in Requests, pc[r] = "reserving", pc'[r] = "refused"
      PROVE  Underway(Slot(r)) # {}
  <2>1. ASSUME NEW s \in Requests, Step(s) PROVE ReserveTaken(r)
    <3>1. s = r
      BY <1>1, <2>1 DEF Step, Reserve, ReserveTaken, ReserveFails, Refuse, Create,
         Release, Raise, Announce, AnswerReplay, Publish, Respond, Goto, FlowInv,
         FlowTypeOK
    <3> QED BY <1>1, <2>1, <3>1 DEF Step, Reserve, ReserveFails, Refuse, Create, Release,
               Raise, Announce, AnswerReplay, Publish, Goto, FlowInv, FlowTypeOK
  <2>2. ~ \E s \in Requests, call \in Arguments : Arrive(s, call) \/ ServeDegraded(s, call)
    BY <1>1 DEF Arrive, ServeDegraded, Goto, FlowInv, FlowTypeOK
  <2>3. ~ \E s \in Requests : Retry(s)
    BY <1>1 DEF Retry, Goto, FlowInv, FlowTypeOK
  <2>4. ~ Restart
    BY <1>1 DEF Restart
  <2>5. ReserveTaken(r)
    BY <1>1, <2>1, <2>2, <2>3, <2>4 DEF PatientNext, FlowNext, Expire, OtherRequest,
       OtherRefused, Quiet, allVars, flowVars
  <2> QED BY <1>1, <2>5 DEF ReserveTaken, Attended, Underway, Holding
<1>2. FlowInv /\ (InService => Attended) /\ [PatientNext]_allVars
        => [\A r \in Requests :
              (pc[r] = "reserving" /\ pc'[r] = "refused")
                => Underway(Slot(r)) # {}]_allVars
  BY <1>1
<1>3. [FlowNext]_allVars => [PatientNext]_allVars
  BY DEF PatientNext
<1> QED BY <1>2, <1>3, ReservesCorrect, PTL DEF FlowSpec, PatientSpec, InProgressIsTrue

-----------------------------------------------------------------------------
(* The shop keeps its promises under the flow *)

\* Every step of the flow is, for the shop, one of its requests or nothing; a
\* restart makes its store a new one.
LEMMA FlowIsShop ==
  FlowInv /\ [PatientNext]_allVars => [Next]_vars \/ Fresh'
<1> SUFFICES ASSUME FlowInv, [PatientNext]_allVars PROVE [Next]_vars \/ Fresh'
  OBVIOUS
<1>1. ASSUME NEW r \in Requests, Step(r) PROVE [Next]_vars
  <2>1. CASE Create(r)
    <3>1. /\ args[r] \in Arguments /\ verdict[r] = None /\ purchase[r] = None
          /\ CreatePurchase(r, args[r], "shared")
      BY <2>1, NoText DEF Create, FlowInv, Stages
    <3> QED BY <3>1, CreateFacts
  <2>2. CASE ~Create(r)
    BY <1>1, <2>2 DEF Step, Reserve, ReserveTaken, ReserveFails, Refuse, Release,
       Raise, Announce, AnswerReplay, Publish, Respond
  <2> QED BY <2>1, <2>2
<1>2. ASSUME NEW r \in Requests, NEW call \in Arguments,
             Arrive(r, call) \/ ServeDegraded(r, call)
      PROVE  [Next]_vars
  <2>1. CASE ServeDegraded(r, call)
    <3>1. /\ verdict[r] = None /\ purchase[r] = None
          /\ CreatePurchase(r, call, None)
      BY <2>1, NoText DEF ServeDegraded, FlowInv, Stages
    <3> QED BY <3>1, CreateFacts
  <2>2. CASE Arrive(r, call)
    BY <2>2 DEF Arrive
  <2> QED BY <1>2, <2>1, <2>2
<1>3. ASSUME Restart PROVE Fresh'
  BY <1>3 DEF Restart, Reset, Fresh, FlowInv, ShopInv, TypeOK
<1> QED BY <1>1, <1>2, <1>3
        DEF PatientNext, FlowNext, Expire, OtherRequest, OtherRefused, Retry, Quiet,
            Next, allVars

\* Whatever Redis loses and however often the process stops, the shop between
\* two steps of the flow is sound: purchases in flight, answers that get lost
\* and a store that begins anew break none of its promises.
THEOREM FlowShopSound == FlowSpec \/ PatientSpec => []ShopSound
<1>1. FlowInit => ShopSafe
  BY InitFresh, SafeFresh DEF FlowInit
<1>2. FlowInv /\ ShopSafe /\ [PatientNext]_allVars => ShopSafe' \/ Fresh'
  BY FlowIsShop, SafeNext
<1>3. [FlowNext]_allVars => [PatientNext]_allVars
  BY DEF PatientNext
<1> QED BY <1>1, <1>2, <1>3, SafeFresh, SafeMeaning, FlowInvCorrect, PTL
        DEF FlowSpec, PatientSpec

-----------------------------------------------------------------------------
(* The flow implements PurchaseApi *)

Payloads == [user : Users, item : ItemIds, quantity : Quantities]

LEMMA ElsewhereKeepsKeys == Elsewhere => idempotency' = idempotency
<1>1. \A a, i, edited : EditItem(a, i, edited) => idempotency' = idempotency
  BY DEF EditItem, orderVars
<1>2. \A a \in Users, sku \in Skus, price \in Prices, stock \in Optional(Stocks) :
        CreateItem(a, sku, price, stock) => idempotency' = idempotency
  BY DEF CreateItem, orderVars
<1>3. AdminRequest => idempotency' = idempotency
  BY <1>1, <1>2, Zenon DEF AdminRequest, UpdateItem, DeleteItem, ToggleActive
<1>4. \A u \in Users : Register(u) \/ GrantAdmin(u) => idempotency' = idempotency
  BY DEF Register, GrantAdmin, orderVars
<1>5. TopupRequest => idempotency' = idempotency
  BY DEF TopupRequest, Topup, orderVars
<1>6. RefundRequest => idempotency' = idempotency
  BY DEF RefundRequest, RequestRefund
<1>7. Tick => idempotency' = idempotency
  BY DEF Tick, orderVars
<1> QED BY <1>3, <1>4, <1>5, <1>6, <1>7 DEF Elsewhere

\* Steps the promise does not speak of.
LEMMA Unseen ==
  ASSUME UNCHANGED <<args, verdict, idempotency>>
  PROVE  UNCHANGED Api!apiVars
BY DEF Asked, Outcome, Order, Api!apiVars

\* What create_purchase does to the key.
LEMMA CreateSeen ==
  ASSUME FlowInv, NEW r \in Requests, NEW call \in Arguments, NEW object,
         CreatePurchase(r, call, object)
  PROVE  LET payload == PayloadOf(call.user, call.item, call.quantity) IN
         /\ \A s \in Requests : s # r => verdict'[s] = verdict[s]
         /\ verdict'[r] # None
         /\ \/ /\ verdict'[r] = "created" /\ Order[call.key] = None
               /\ Order' = [Order EXCEPT ![call.key] = payload]
            \/ /\ verdict'[r] = "replayed" /\ Order[call.key] = payload
               /\ Order' = Order
            \/ verdict'[r] \notin {"created", "replayed"} /\ Order' = Order
<1> DEFINE u == call.user
           i == call.item
           q == call.quantity
           k == call.key
<1>1. u \in Users /\ i \in ItemIds /\ q \in Quantities /\ k \in Keys
  BY DEF Arguments
<1>2. /\ verdict' = [verdict EXCEPT ![r] = BuyVerdict(u, i, q, k)]
      /\ verdict'[r] = BuyVerdict(u, i, q, k)
      /\ \A s \in Requests : s # r => verdict'[s] = verdict[s]
  BY DEF CreatePurchase, FlowInv, FlowTypeOK
<1>3. \/ BuyNew(u, i, q, k) \/ BuyReplay(u, i, q, k) \/ BuyRefused(u, i, q, k)
  BY DEF CreatePurchase
<1> HIDE DEF u, i, q, k
<1>4. verdict'[r] # None
  BY <1>1, <1>2, VerdictIsOutcome, NoCallAssumption
<1>5. CASE BuyNew(u, i, q, k)
  <2>1. verdict'[r] = "created"
    BY <1>2, <1>5 DEF BuyNew
  <2>2. idempotency[k] = None
    BY <1>1, <1>5, FreeKeyIsNew DEF FlowInv, ShopInv
  <2>3. /\ idempotency'[k].payload = PayloadOf(u, i, q)
        /\ \A x \in Keys : x # k => idempotency'[x] = idempotency[x]
    BY <1>1, <1>5 DEF BuyNew, InProgress, FlowInv, ShopInv, TypeOK
  <2>4. idempotency'[k] # None
    <3>1. Len(purchases) + 1 \in DOMAIN purchases'
          /\ purchases'[Len(purchases) + 1].key = k
      <4>1. /\ DOMAIN purchases' = 1 .. Len(purchases) + 1 /\ Len(purchases) \in Nat
            /\ purchases'[Len(purchases) + 1] = BoughtRow(u, i, q, k)
        BY <1>1, <1>5, BuyNewRows DEF FlowInv, ShopInv
      <4> QED BY <4>1 DEF BoughtRow
    <3>2. IdempotencyExact'
      BY <1>1, <1>5, BuyNewKeepsShop DEF FlowInv, ShopKept, ShopInv
    <3> QED BY <3>1, <3>2 DEF IdempotencyExact
  <2>5. Order[k] = None
    BY <1>1, <2>2 DEF Order
  <2>6. Order' = [Order EXCEPT ![k] = PayloadOf(u, i, q)]
    BY <1>1, <2>3, <2>4 DEF Order
  <2> QED BY <1>2, <1>4, <2>1, <2>5, <2>6 DEF u, i, q, k
<1>6. CASE BuyReplay(u, i, q, k)
  <2>1. verdict'[r] = "replayed" /\ idempotency' = idempotency
    BY <1>2, <1>6 DEF BuyReplay, vars, orderVars
  <2>2. KeyVerdict(u, i, q, k) = "replayed"
    <3>1. SaleVerdict(u, i, q) # "replayed"
      BY DEF SaleVerdict
    <3> QED BY <1>6, <3>1 DEF BuyReplay, BuyVerdict
  <2>3. idempotency[k] # None /\ idempotency[k].payload = PayloadOf(u, i, q)
    BY <2>2 DEF KeyVerdict
  <2>4. Order[k] = PayloadOf(u, i, q) /\ Order' = Order
    BY <1>1, <2>1, <2>3 DEF Order
  <2> QED BY <1>2, <1>4, <2>1, <2>4 DEF u, i, q, k
<1>7. CASE BuyRefused(u, i, q, k)
  <2>1. verdict'[r] \notin {"created", "replayed"} /\ idempotency' = idempotency
    BY <1>2, <1>7 DEF BuyRefused, Restored
  <2>2. Order' = Order
    BY <2>1 DEF Order
  <2> QED BY <1>2, <1>4, <2>1, <2>2
<1> QED BY <1>3, <1>5, <1>6, <1>7

LEMMA ArriveSeen ==
  ASSUME FlowInv, NEW r \in Requests, NEW call \in Arguments, Arrive(r, call)
  PROVE  Api!ApiNext
<1> DEFINE payload == PayloadOf(call.user, call.item, call.quantity)
<1>1. call.key \in Keys /\ payload \in Payloads /\ call # None
  BY NoCallAssumption DEF Arguments, Payloads, PayloadOf
<1>2. Asked[r] = None
  BY DEF Arrive, FlowInv, Stages, Asked
<1>3. Asked' = [Asked EXCEPT ![r] = [key |-> call.key, payload |-> payload]]
  BY <1>1 DEF Arrive, FlowInv, FlowTypeOK, Asked
<1>4. UNCHANGED <<Outcome, Order>>
  BY DEF Arrive, Outcome, Order, vars, orderVars
<1> HIDE DEF payload
<1>5. Api!Ask(r, call.key, payload)
  BY <1>2, <1>3, <1>4 DEF Api!Ask
<1> QED BY <1>1, <1>5 DEF Api!ApiNext, Payloads

\* A request in flight is one the promise waits for.
LEMMA Waits ==
  ASSUME FlowInv, NEW r \in Requests, pc[r] \in {"refused", "creating"}
  PROVE  /\ Asked[r] = [key |-> args[r].key, payload |->
                         PayloadOf(args[r].user, args[r].item, args[r].quantity)]
         /\ Asked[r] # None /\ Outcome[r] = "pending" /\ Api!Waiting(r)
<1>1. args[r] \in Arguments /\ args[r] # None /\ verdict[r] = None
  BY NoCallAssumption DEF FlowInv, Stages
<1>2. Asked[r] = [key |-> args[r].key, payload |->
                  PayloadOf(args[r].user, args[r].item, args[r].quantity)]
  BY <1>1 DEF Asked
<1>3. Asked[r] # None
  <2> DEFINE payload == PayloadOf(args[r].user, args[r].item, args[r].quantity)
  <2>1. args[r].key \in Keys /\ payload \in Payload
    BY <1>1, StoreAssumption DEF Arguments, PayloadOf, Payload
  <2> HIDE DEF payload
  <2>2. [key |-> args[r].key, payload |-> payload] \in [key : Keys, payload : Payload]
    BY <2>1
  <2>3. Asked[r] = [key |-> args[r].key, payload |-> payload]
    BY <1>2 DEF payload
  <2> QED BY <2>2, <2>3, NoCallAssumption
<1>4. Outcome[r] = "pending"
  BY <1>1 DEF Outcome
<1> QED BY <1>2, <1>3, <1>4 DEF Api!Waiting

\* The 409 is the effect of a request that Redis refused.
LEMMA RefuseSeen ==
  ASSUME FlowInv, NEW r \in Requests, Refuse(r)
  PROVE  Api!ApiNext
<1>1. Api!Waiting(r)
  BY Waits DEF Refuse
<1>2. UNCHANGED <<Asked, Order>>
  BY DEF Refuse, Asked, Order, vars, orderVars
<1>3. Outcome' = [Outcome EXCEPT ![r] = "refused"]
  BY NoText DEF Refuse, FlowInv, FlowTypeOK, Outcome
<1> QED BY <1>1, <1>2, <1>3 DEF Api!Refuse, Api!ApiNext

LEMMA CreateStepSeen ==
  ASSUME FlowInv, NEW r \in Requests, Create(r)
  PROVE  Api!ApiNext
<1> DEFINE payload == PayloadOf(args[r].user, args[r].item, args[r].quantity)
           k == args[r].key
<1>1. /\ pc[r] = "creating" /\ args[r] \in Arguments
      /\ CreatePurchase(r, args[r], "shared") /\ args' = args
  BY DEF Create, FlowInv, Stages
<1>2. /\ Api!Waiting(r) /\ Asked[r] = [key |-> k, payload |-> payload]
  BY <1>1, Waits
<1>3. Asked' = Asked
  BY <1>1 DEF Asked
<1>4. /\ \A s \in Requests : s # r => verdict'[s] = verdict[s]
      /\ verdict'[r] # None
      /\ \/ /\ verdict'[r] = "created" /\ Order[k] = None
            /\ Order' = [Order EXCEPT ![k] = payload]
         \/ /\ verdict'[r] = "replayed" /\ Order[k] = payload /\ Order' = Order
         \/ verdict'[r] \notin {"created", "replayed"} /\ Order' = Order
  BY <1>1, CreateSeen
<1> HIDE DEF payload, k
<1>5. CASE verdict'[r] = "created"
  <2>1. Outcome' = [Outcome EXCEPT ![r] = "made"]
    BY <1>4, <1>5 DEF Outcome
  <2>2. Api!Make(r)
    BY <1>2, <1>3, <1>4, <1>5, <2>1 DEF Api!Make
  <2> QED BY <2>2 DEF Api!ApiNext
<1>6. CASE verdict'[r] = "replayed"
  <2>1. Outcome' = [Outcome EXCEPT ![r] = "given"]
    BY <1>4, <1>6 DEF Outcome
  <2>2. Api!Give(r)
    BY <1>2, <1>3, <1>4, <1>6, <2>1 DEF Api!Give
  <2> QED BY <2>2 DEF Api!ApiNext
<1>7. CASE verdict'[r] \notin {"created", "replayed"}
  <2>1. Outcome' = [Outcome EXCEPT ![r] = "refused"]
    BY <1>4, <1>7 DEF Outcome
  <2>2. Api!Refuse(r)
    BY <1>2, <1>3, <1>4, <1>7, <2>1 DEF Api!Refuse
  <2> QED BY <2>2 DEF Api!ApiNext
<1> QED BY <1>5, <1>6, <1>7

LEMMA ServeSeen ==
  ASSUME FlowInv, NEW r \in Requests, NEW call \in Arguments,
         ServeDegraded(r, call)
  PROVE  Api!ApiNext
<1> DEFINE payload == PayloadOf(call.user, call.item, call.quantity)
           k == call.key
<1>1. /\ pc[r] = "idle" /\ CreatePurchase(r, call, None)
      /\ args' = [args EXCEPT ![r] = call]
  BY DEF ServeDegraded
<1>2. k \in Keys /\ payload \in Payloads /\ call # None
  BY NoCallAssumption DEF Arguments, Payloads, PayloadOf
<1>3. Asked[r] = None
  BY <1>1 DEF FlowInv, Stages, Asked
<1>4. Asked' = [Asked EXCEPT ![r] = [key |-> k, payload |-> payload]]
  BY <1>1, <1>2 DEF FlowInv, FlowTypeOK, Asked
<1>5. /\ \A s \in Requests : s # r => verdict'[s] = verdict[s]
      /\ verdict'[r] # None
      /\ \/ /\ verdict'[r] = "created" /\ Order[k] = None
            /\ Order' = [Order EXCEPT ![k] = payload]
         \/ /\ verdict'[r] = "replayed" /\ Order[k] = payload /\ Order' = Order
         \/ verdict'[r] \notin {"created", "replayed"} /\ Order' = Order
  BY <1>1, CreateSeen
<1> HIDE DEF payload, k
<1>6. /\ verdict'[r] = "created" => Outcome' = [Outcome EXCEPT ![r] = "made"]
      /\ verdict'[r] = "replayed" => Outcome' = [Outcome EXCEPT ![r] = "given"]
      /\ verdict'[r] \notin {"created", "replayed"}
           => Outcome' = [Outcome EXCEPT ![r] = "refused"]
  BY <1>5 DEF Outcome
<1>7. Api!Serve(r, k, payload)
  BY <1>3, <1>4, <1>5, <1>6 DEF Api!Serve
<1> QED BY <1>2, <1>7 DEF Api!ApiNext, Payloads

LEMMA RetrySeen ==
  ASSUME FlowInv, NEW r \in Requests, Retry(r)
  PROVE  Api!ApiNext
<1>1. Outcome[r] = "refused" /\ Outcome' = [Outcome EXCEPT ![r] = "pending"]
  BY NoText DEF Retry, FlowInv, FlowTypeOK, Outcome
<1>2. UNCHANGED <<Asked, Order>>
  BY DEF Retry, Asked, Order, vars, orderVars
<1> QED BY <1>1, <1>2 DEF Api!Again, Api!ApiNext

LEMMA RestartSeen == ASSUME Restart PROVE Api!ApiNext
<1>1. /\ Asked' = [r \in Requests |-> None]
      /\ Outcome' = [r \in Requests |-> "pending"]
      /\ Order' = [k \in Keys |-> None]
  BY DEF Restart, Reset, NoRequests, Asked, Outcome, Order
<1> QED BY <1>1 DEF Api!Forget, Api!ApiNext

LEMMA FlowStepSeen ==
  FlowInv /\ [PatientNext]_allVars => [Api!ApiNext]_(Api!apiVars)
<1> SUFFICES ASSUME FlowInv, [PatientNext]_allVars
             PROVE  [Api!ApiNext]_(Api!apiVars)
  OBVIOUS
<1>1. ASSUME NEW r \in Requests, Step(r) PROVE [Api!ApiNext]_(Api!apiVars)
  <2>1. \/ Refuse(r) \/ Create(r) \/ UNCHANGED <<args, verdict, idempotency>>
    BY <1>1 DEF Step, Reserve, ReserveTaken, ReserveFails, Release, Raise, Announce,
       AnswerReplay, Publish, Respond, vars, orderVars
  <2> QED BY <2>1, RefuseSeen, CreateStepSeen, Unseen
<1>2. ASSUME \/ \E slot \in Slots : Expire(slot)
             \/ OtherRefused \/ UNCHANGED allVars
      PROVE  UNCHANGED Api!apiVars
  BY <1>2, Unseen DEF Expire, OtherRefused, allVars, flowVars, vars, orderVars
<1>3. ASSUME OtherRequest PROVE UNCHANGED Api!apiVars
  BY <1>3, ElsewhereKeepsKeys, Unseen DEF OtherRequest, flowVars
<1> QED BY <1>1, <1>2, <1>3, ArriveSeen, ServeSeen, RetrySeen, RestartSeen
        DEF PatientNext, FlowNext, Quiet

\* Each request takes effect at one instant: whatever happens to the commands of
\* Redis, to the reserves and to the process, the clients see what they would
\* see of a service that handles one request at a time.
THEOREM FlowKeepsApi == FlowSpec \/ PatientSpec => KeepsApi
<1>1. FlowInit => Api!ApiInit
  BY DEF FlowInit, Init, NoRequests, Api!ApiInit, Asked, Outcome, Order
<1>2. FlowInv /\ [FlowNext]_allVars => [Api!ApiNext]_(Api!apiVars)
  BY FlowStepSeen DEF PatientNext
<1>3. FlowSpec => KeepsApi
  BY <1>1, <1>2, FlowInvCorrect, PTL DEF FlowSpec, KeepsApi, Api!ApiSpec
<1>4. PatientSpec => KeepsApi
  BY <1>1, FlowStepSeen, FlowInvCorrect, PTL DEF PatientSpec, KeepsApi, Api!ApiSpec
<1> QED BY <1>3, <1>4
=============================================================================
