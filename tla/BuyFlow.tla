------------------------------ MODULE BuyFlow ------------------------------
(***************************************************************************)
(* PurchaseService.buy (app/services/purchase_service.py) with the Redis   *)
(* calls of app/core/redis.py.  A request is suspended at every await of a *)
(* Redis command; between two awaits it runs alone.  Meanwhile the other   *)
(* requests of the shop, and other purchases, go on.                       *)
(***************************************************************************)
EXTENDS Shop

CONSTANTS
  Requests,        \* the purchase requests of a run of the process
  RedisFails,      \* a Redis command may raise RedisError
  OutlivesReserve, \* a request may run longer than its reserve lives
  MaxRestarts      \* bound: how often the process stops and starts again

ASSUME FlowAssumption ==
  RedisFails \in BOOLEAN /\ OutlivesReserve \in BOOLEAN /\ MaxRestarts \in Nat

VARIABLES
  connected,   \* redis_client is not None
  reserve,     \* the keys purchase:reserve:<user>:<key> that exist in Redis
  published,   \* purchase ids in the events Redis accepted, in order
  restarts,    \* how often the process was started again
  pc,          \* the await each request is suspended at
  args,        \* its arguments
  verdict,     \* the outcome of create_purchase, or the exception it raised
  purchase,    \* its local variable `purchase`
  held,        \* the object behind it: "shared" with the store, or the status
               \* of a copy the store no longer has
  event,       \* the status in the payload of its event
  answer       \* the status in its response

environment == <<connected, restarts>>
objectVars == <<held, event, answer>>
flowVars == <<environment, reserve, published, pc, args, verdict, purchase,
              objectVars>>
allVars == <<vars, flowVars>>

Arguments == [user : Users, item : ItemIds, quantity : Quantities, key : Keys]
Slots == Users \X Keys

\* The outcomes of a request: two of success, and the codes of its refusals.
Outcomes ==
  {"created", "replayed", "IDEMPOTENCY_CONFLICT", "IDEMPOTENCY_IN_PROGRESS",
   "ITEM_NOT_FOUND", "ITEM_NOT_ACTIVE", "ITEM_OUT_OF_STOCK", "WALLET_NOT_FOUND",
   "INSUFFICIENT_FUNDS"}

\* None is no text, no call and no promise.
ASSUME NoCallAssumption ==
  /\ None \notin Outcomes \cup {"shared", "completed", "refunded"}
  /\ None \notin Arguments
  /\ None \notin [key : Keys, payload : Payload]

\* purchase_reserve_key: a reserve belongs to a user and a key.
FaultySlot(r) == <<args[r].key, args[r].user>>   \* parts swapped
Slot(r) == <<args[r].user, args[r].key>>

NoRequests == [r \in Requests |-> None]

\* init_redis: one ping at start-up decides for the life of the process.
Ping == IF RedisFails THEN BOOLEAN ELSE {TRUE}

FlowInit ==
  /\ Init
  /\ connected \in Ping /\ restarts = 0
  /\ reserve = {} /\ published = << >>
  /\ pc = [r \in Requests |-> "idle"]
  /\ args = NoRequests /\ verdict = NoRequests /\ purchase = NoRequests
  /\ held = NoRequests /\ event = NoRequests /\ answer = NoRequests

\* The module creates its store again: reset().
Reset ==
  /\ role' = [u \in Users |-> "absent"] /\ wallet' = [u \in Users |-> None]
  /\ items' = [i \in DOMAIN Seed |-> NewItem(Seed[i].sku, Seed[i].price, None)]
  /\ topups' = << >> /\ topupByRef' = [x \in Refs |-> None]
  /\ purchases' = << >>
  /\ inventory' = [u \in Users |-> [i \in ItemIds |-> 0]]
  /\ refunds' = << >> /\ refundByPurchase' = [p \in PurchaseIds |-> None]
  /\ ledger' = << >>
  /\ idempotency' = [k \in Keys |-> None]
  /\ UNCHANGED now

\* The process stops at whatever point its requests are, and starts again with
\* an empty store: the clients in flight get no answer, the ids begin anew.
\* Redis keeps the reserves.
Restart ==
  /\ restarts < MaxRestarts /\ restarts' = restarts + 1
  /\ Reset
  /\ connected' \in Ping
  /\ published' = << >>
  /\ pc' = [r \in Requests |-> "idle"]
  /\ args' = NoRequests /\ verdict' = NoRequests /\ purchase' = NoRequests
  /\ held' = NoRequests /\ event' = NoRequests /\ answer' = NoRequests
  /\ UNCHANGED reserve

Goto(r, await) == pc' = [pc EXCEPT ![r] = await]

-----------------------------------------------------------------------------
\* An authenticated request calls acquire_purchase_reserve.
Arrive(r, call) ==
  /\ connected
  /\ pc[r] = "idle" /\ call.user \in Registered
  /\ Goto(r, "reserving")
  /\ args' = [args EXCEPT ![r] = call]
  /\ UNCHANGED <<vars, environment, reserve, published, verdict, purchase,
                 objectVars>>

FaultyReserve(r) ==   \* SET without NX
  /\ pc[r] = "reserving"
  /\ reserve' = reserve \cup {Slot(r)}
  /\ Goto(r, "creating")
  /\ UNCHANGED <<vars, environment, published, args, verdict, purchase,
                 objectVars>>

\* SET NX on a key that does not exist.
Reserve(r) ==
  /\ pc[r] = "reserving" /\ Slot(r) \notin reserve
  /\ reserve' = reserve \cup {Slot(r)}
  /\ Goto(r, "creating")
  /\ UNCHANGED <<vars, environment, published, args, verdict, purchase,
                 objectVars>>

\* SET NX on a key that exists: Redis replies nil.
ReserveTaken(r) ==
  /\ pc[r] = "reserving" /\ Slot(r) \in reserve
  /\ Goto(r, "refused")
  /\ UNCHANGED <<vars, environment, reserve, published, args, verdict, purchase,
                 objectVars>>

\* The request resumes with the nil and is answered with 409, whatever the
\* others have done since.
Refuse(r) ==
  /\ pc[r] = "refused"
  /\ verdict' = [verdict EXCEPT ![r] = "IDEMPOTENCY_IN_PROGRESS"]
  /\ Goto(r, "done")
  /\ UNCHANGED <<vars, environment, reserve, published, args, purchase,
                 objectVars>>

\* SET raises; Redis may have executed it all the same.  The code goes on.
ReserveFails(r) ==
  /\ RedisFails
  /\ pc[r] = "reserving"
  /\ reserve' \in {reserve, reserve \cup {Slot(r)}}
  /\ Goto(r, "creating")
  /\ UNCHANGED <<vars, environment, published, args, verdict, purchase,
                 objectVars>>

\* _map_purchase and the payload read the object the request holds.
Status(r) == purchases[purchase[r]].status
Seen(r) == IF held[r] = "shared" THEN Status(r) ELSE held[r]

\* A restore replaces the tables by copies: whoever holds a row from before no
\* longer sees what becomes of it.
Detached == [r \in Requests |-> Seen(r)]

\* create_purchase returns its object or raises, without a suspension inside.
CreatePurchase(r, call, object) ==
  /\ verdict' = [verdict EXCEPT ![r] =
                   BuyVerdict(call.user, call.item, call.quantity, call.key)]
  /\ \/ /\ BuyNew(call.user, call.item, call.quantity, call.key)
        /\ purchase' = [purchase EXCEPT ![r] = Len(purchases) + 1]
        /\ held' = [held EXCEPT ![r] = object]
     \/ /\ BuyReplay(call.user, call.item, call.quantity, call.key)
        /\ purchase' = [purchase EXCEPT ![r] = idempotency[call.key].result]
        /\ held' = [held EXCEPT ![r] = object]
     \/ /\ BuyRefused(call.user, call.item, call.quantity, call.key)
        /\ held' = Detached
        /\ UNCHANGED purchase

Create(r) ==
  /\ pc[r] = "creating"
  /\ CreatePurchase(r, args[r], "shared")
  /\ Goto(r, "releasing")
  /\ UNCHANGED <<environment, reserve, published, args, event, answer>>

FaultyFreed(r) ==   \* released after a success only, not in `finally`
  IF purchase[r] = None THEN reserve ELSE reserve \ {Slot(r)}
\* The unconditional DELETE.
Freed(r) == reserve \ {Slot(r)}

FaultyRelease(r) ==   \* an exception is answered by trying again
  /\ pc[r] = "releasing"
  /\ reserve' = Freed(r)
  /\ Goto(r, IF purchase[r] = None THEN "reserving" ELSE "released")
  /\ UNCHANGED <<vars, environment, published, args, verdict, purchase, objectVars>>

\* release_purchase_reserve.  When DELETE raises and Redis has not executed it,
\* the key stays until it expires.
Release(r) ==
  /\ pc[r] = "releasing"
  /\ \/ reserve' = Freed(r)
     \/ RedisFails /\ UNCHANGED reserve
  /\ Goto(r, "released")
  /\ UNCHANGED <<vars, environment, published, args, verdict, purchase, objectVars>>

\* `finally` is left: the exception of create_purchase ends the request.
Raise(r) ==
  /\ pc[r] = "released" /\ purchase[r] = None
  /\ Goto(r, "done")
  /\ UNCHANGED <<vars, environment, reserve, published, args, verdict, purchase,
                 objectVars>>

FaultyToPublish(r) == verdict[r] = "replayed"   \* the flag is inverted
\* is_new_purchase
ToPublish(r) == verdict[r] = "created"

\* The row is fetched again for the event.
FaultyPayloadStatus(r) == Status(r)
\* _build_purchase_created_payload
PayloadStatus(r) == Seen(r)

\* The release has returned: a new purchase is put into its event.
Announce(r) ==
  /\ pc[r] = "released" /\ ToPublish(r)
  /\ event' = [event EXCEPT ![r] = PayloadStatus(r)]
  /\ Goto(r, "publishing")
  /\ UNCHANGED <<vars, environment, reserve, published, args, verdict, purchase,
                 held, answer>>

\* The response, after which nobody needs the object.
Respond(r) ==
  /\ answer' = [answer EXCEPT ![r] = Seen(r)]
  /\ held' = [held EXCEPT ![r] = None]
  /\ Goto(r, "done")
  /\ UNCHANGED <<vars, environment, reserve, args, verdict, purchase, event>>

\* A replay is answered without an event.
AnswerReplay(r) ==
  /\ pc[r] = "released" /\ purchase[r] # None /\ ~ToPublish(r)
  /\ Respond(r)
  /\ UNCHANGED published

\* publish_purchase_created; an error is logged and the event is gone.  One step
\* with the answer: nothing reads the reply, and what the others do between the
\* execution of the command and the resumption they may as well do before it.
Publish(r) ==
  /\ pc[r] = "publishing"
  /\ \/ published' = Append(published, purchase[r])
     \/ RedisFails /\ UNCHANGED published
  /\ Respond(r)

\* In degraded mode nothing suspends the request: it is served in one step.
ServeDegraded(r, call) ==
  /\ ~connected
  /\ pc[r] = "idle" /\ call.user \in Registered
  /\ CreatePurchase(r, call, None)
  /\ answer' = [answer EXCEPT ![r] =
       IF purchase'[r] = None THEN None ELSE purchases'[purchase'[r]].status]
  /\ Goto(r, "done")
  /\ args' = [args EXCEPT ![r] = call]
  /\ UNCHANGED <<environment, reserve, published, event>>

\* Some request that still needs the slot's reserve.
Holders(slot) == {r \in Requests : pc[r] \in {"creating", "releasing"}
                                   /\ Slot(r) = slot}

\* SET without EX: the key never expires.
FaultyExpire(slot) == FALSE

\* The time to live of a reserve runs out.
Expire(slot) ==
  /\ slot \in reserve
  /\ OutlivesReserve \/ Holders(slot) = {}
  /\ reserve' = reserve \ {slot}
  /\ UNCHANGED <<vars, environment, published, pc, args, verdict, purchase,
                 objectVars>>

OtherRequest == Elsewhere /\ UNCHANGED flowVars

\* A top-up or a refund is refused inside its transaction.
OtherRefused ==
  /\ held # Detached /\ held' = Detached
  /\ UNCHANGED <<vars, environment, reserve, published, pc, args, verdict,
                 purchase, event, answer>>

\* The client that was told its purchase is in progress sends it again.
Retry(r) ==
  /\ pc[r] = "done" /\ verdict[r] = "IDEMPOTENCY_IN_PROGRESS"
  /\ verdict' = [verdict EXCEPT ![r] = None]
  /\ Goto(r, "reserving")
  /\ UNCHANGED <<vars, environment, reserve, published, args, purchase,
                 objectVars>>

\* Every request has been answered: the process waits for the next one.
Quiet == (\A r \in Requests : pc[r] = "done") /\ UNCHANGED allVars

Step(r) ==
  \/ Reserve(r) \/ ReserveTaken(r) \/ ReserveFails(r)
  \/ Refuse(r) \/ Create(r)
  \/ Release(r) \/ Raise(r) \/ Announce(r) \/ AnswerReplay(r)
  \/ Publish(r)

FlowNext ==
  \/ \E r \in Requests, call \in Arguments : Arrive(r, call) \/ ServeDegraded(r, call)
  \/ \E r \in Requests : Step(r)
  \/ \E slot \in Slots : Expire(slot)
  \/ OtherRequest \/ OtherRefused
  \/ Restart
  \/ Quiet

FlowSpec == FlowInit /\ [][FlowNext]_allVars

\* The event loop resumes every request whose Redis command has returned, and
\* the client's socket timeout makes every command return.
FairFlowSpec == FlowSpec /\ \A r \in Requests : WF_allVars(Step(r))

PatientNext == FlowNext \/ \E r \in Requests : Retry(r)

\* With clients that try again, and a Redis that ends the time to live of
\* every reserve it keeps.
PatientSpec ==
  /\ FlowInit /\ [][PatientNext]_allVars
  /\ \A r \in Requests : WF_allVars(Step(r)) /\ WF_allVars(Retry(r))
  /\ \A slot \in Slots : WF_allVars(Expire(slot))

-----------------------------------------------------------------------------
FlowTypeOK ==
  /\ connected \in BOOLEAN
  /\ reserve \subseteq Slots
  /\ published \in Seq(PurchaseIds)
  /\ pc \in [Requests -> {"idle", "reserving", "refused", "creating",
                          "releasing", "released", "publishing", "done"}]
  /\ args \in [Requests -> Optional(Arguments)]
  /\ verdict \in [Requests -> Optional(Outcomes)]
  /\ purchase \in [Requests -> Optional(PurchaseIds)]
  /\ held \in [Requests -> Optional({"shared", "completed", "refunded"})]
  /\ event \in [Requests -> Optional({"completed", "refunded"})]
  /\ answer \in [Requests -> Optional({"completed", "refunded"})]
  /\ restarts \in 0 .. MaxRestarts

\* Requests under one key that got a purchase got the same one, those under two
\* keys two, and at most one of them was told that it made it: also when
\* reserves fail, expire or are deleted by another request.
SameAnswer ==
  \A r, s \in Requests :
    (purchase[r] # None /\ purchase[s] # None) =>
      /\ args[r].key = args[s].key <=> purchase[r] = purchase[s]
      /\ (purchase[r] = purchase[s] /\ verdict[r] = "created"
            /\ verdict[s] = "created") => r = s

\* An event is sent for a purchase the store holds, and at most once per
\* purchase, however often its request is repeated.
PublishedOnce ==
  /\ \A n \in DOMAIN published : published[n] \in DOMAIN purchases
  /\ \A m, n \in DOMAIN published : published[m] = published[n] => m = n

\* As long as Redis works and requests are faster than the time to live of a
\* reserve, no two requests of a user and a key are between the await of SET
\* and the await of DELETE.
Exclusive ==
  (~RedisFails /\ ~OutlivesReserve) =>
    \A slot \in Slots : Cardinality(Holders(slot)) <= 1

\* The requests of a slot that have passed SET and are not answered yet.
Underway(slot) ==
  {r \in Requests : pc[r] \in {"creating", "releasing", "released", "publishing"}
                    /\ Slot(r) = slot}

\* purchase_service.py:36: "Purchase request is already in progress" is the
\* answer only of a request that, when Redis replied nil to it, met another
\* request of the user and key in progress.  (Between the nil and the 409 that
\* other request may end: of the moment of the answer nothing is claimed.)
InProgressIsTrue ==
  [][\A r \in Requests :
       (pc[r] = "reserving" /\ pc'[r] = "refused") => Underway(Slot(r)) # {}]_allVars

\* Every request that arrives is answered.
EveryoneAnswered ==
  \A r \in Requests : pc[r] # "idle" ~> pc[r] = "done"

\* A reserve does not outlast the requests that wanted it: whatever their
\* outcome, the key can be used again without waiting for the time to live.
ReserveFreed ==
  \A slot \in Slots : slot \in reserve ~> slot \notin reserve

\* Nobody is locked out of a key: a client that keeps trying gets an answer of
\* create_purchase in the end, also when a DELETE failed or the process stopped
\* between SET and DELETE.  (A request that a restart cut off is idle again.)
NobodyLockedOut ==
  \A r \in Requests :
    pc[r] # "idle" ~> \/ pc[r] = "done" /\ verdict[r] # "IDEMPOTENCY_IN_PROGRESS"
                     \/ pc[r] = "idle"

\* The event and the answer of a request are read from one object at two
\* moments, while refunds and rollbacks of other requests go on: the answer
\* never contradicts an event that said "refunded", and neither of them says it
\* unless the refund exists.
AnswerTrue ==
  \A r \in Requests :
    /\ event[r] = "refunded" /\ answer[r] # None => answer[r] = "refunded"
    /\ "refunded" \in {event[r], answer[r]}
         => refundByPurchase[purchase[r]] # None

\* What PurchaseApi sees of the flow.
Asked ==
  [r \in Requests |->
     IF args[r] = None THEN None
     ELSE [key |-> args[r].key,
           payload |-> PayloadOf(args[r].user, args[r].item, args[r].quantity)]]

Outcome ==
  [r \in Requests |-> IF verdict[r] = None THEN "pending"
                      ELSE IF verdict[r] = "created" THEN "made"
                      ELSE IF verdict[r] = "replayed" THEN "given"
                      ELSE "refused"]

Order ==
  [k \in Keys |-> IF idempotency[k] = None THEN None ELSE idempotency[k].payload]

Api == INSTANCE PurchaseApi WITH
  Payloads <- [user : Users, item : ItemIds, quantity : Quantities],
  asked <- Asked, outcome <- Outcome, order <- Order

\* The flow keeps the promise of PurchaseApi: each request takes effect at one
\* instant, where create_purchase runs or where the reserve refuses it.
KeepsApi == Api!ApiSpec
=============================================================================
