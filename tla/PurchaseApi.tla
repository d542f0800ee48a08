----------------------------- MODULE PurchaseApi -----------------------------
(***************************************************************************)
(* What POST /purchases promises to its callers, whatever interleaves with *)
(* it: each request takes effect at one instant.  The first accepted       *)
(* request of a key makes its purchase; a later one with the same payload  *)
(* is given that purchase; every other request has no effect.              *)
(***************************************************************************)
CONSTANTS Requests, Keys, Payloads, None

VARIABLES
  asked,     \* [key, payload] of a request that has arrived, else None
  outcome,   \* "pending", "made", "given" or "refused"
  order      \* the payload of the purchase made under a key, else None

apiVars == <<asked, outcome, order>>

ApiInit ==
  /\ asked = [r \in Requests |-> None]
  /\ outcome = [r \in Requests |-> "pending"]
  /\ order = [k \in Keys |-> None]

Ask(r, k, payload) ==
  /\ asked[r] = None
  /\ asked' = [asked EXCEPT ![r] = [key |-> k, payload |-> payload]]
  /\ UNCHANGED <<outcome, order>>

Waiting(r) == asked[r] # None /\ outcome[r] = "pending"

Make(r) ==
  /\ Waiting(r) /\ order[asked[r].key] = None
  /\ order' = [order EXCEPT ![asked[r].key] = asked[r].payload]
  /\ outcome' = [outcome EXCEPT ![r] = "made"]
  /\ UNCHANGED asked

Give(r) ==
  /\ Waiting(r) /\ order[asked[r].key] = asked[r].payload
  /\ outcome' = [outcome EXCEPT ![r] = "given"]
  /\ UNCHANGED <<asked, order>>

Refuse(r) ==
  /\ Waiting(r)
  /\ outcome' = [outcome EXCEPT ![r] = "refused"]
  /\ UNCHANGED <<asked, order>>

\* A client may send a request again that was refused.
Again(r) ==
  /\ outcome[r] = "refused"
  /\ outcome' = [outcome EXCEPT ![r] = "pending"]
  /\ UNCHANGED <<asked, order>>

\* Without a connection to Redis a request arrives and is served in one step.
Serve(r, k, payload) ==
  /\ asked[r] = None
  /\ asked' = [asked EXCEPT ![r] = [key |-> k, payload |-> payload]]
  /\ \/ /\ order[k] = None
        /\ order' = [order EXCEPT ![k] = payload]
        /\ outcome' = [outcome EXCEPT ![r] = "made"]
     \/ /\ order[k] = payload
        /\ outcome' = [outcome EXCEPT ![r] = "given"]
        /\ UNCHANGED order
     \/ /\ outcome' = [outcome EXCEPT ![r] = "refused"]
        /\ UNCHANGED order

\* The promise holds for one life of the process: a restart forgets all of it.
Forget ==
  /\ asked' = [r \in Requests |-> None]
  /\ outcome' = [r \in Requests |-> "pending"]
  /\ order' = [k \in Keys |-> None]

ApiNext ==
  \/ \E r \in Requests :
       \/ \E k \in Keys, payload \in Payloads :
            Ask(r, k, payload) \/ Serve(r, k, payload)
       \/ Make(r) \/ Give(r) \/ Refuse(r) \/ Again(r)
  \/ Forget

ApiSpec == ApiInit /\ [][ApiNext]_apiVars
=============================================================================
