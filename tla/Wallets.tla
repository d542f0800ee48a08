------------------------------ MODULE Wallets ------------------------------
(***************************************************************************)
(* Registration (which opens a wallet) and the top-up of a wallet:         *)
(* app/services/auth_service.py, app/db/repositories/wallet.py.            *)
(***************************************************************************)
EXTENDS Store

FaultyOpenedBalance(u) == 0   \* a new wallet replaces the old one

\* get_or_create_wallet: a wallet that does not exist yet starts at zero.
OpenedBalance(u) == IF wallet[u] = None THEN 0 ELSE wallet[u]

\* POST /auth/register: the user row, then its wallet.
Register(u) ==
  /\ role[u] = "absent"
  /\ role' = [role EXCEPT ![u] = "player"]
  /\ wallet' = [wallet EXCEPT ![u] = OpenedBalance(u)]
  /\ UNCHANGED <<topups, topupByRef, ledger, orderVars, refundVars, items, now>>

\* The program has no operation that changes a role: an operator edits the
\* store, as the fixture admin_headers of tests/conftest.py does.
GrantAdmin(u) ==
  /\ u \in Admins /\ role[u] = "player"
  /\ role' = [role EXCEPT ![u] = "admin"]
  /\ UNCHANGED <<walletVars, orderVars, refundVars, items, now>>

\* Only an immediate repetition is noticed.
FaultyRefTaken(ref) ==
  ref \in Refs /\ topups # << >> /\ topups[Len(topups)].ref = ref

\* A reference is claimed once, by any user.  The code tests its truth: neither
\* a missing reference nor the empty one is looked up, or claimed.
RefTaken(ref) == ref \in Refs /\ topupByRef[ref] # None

\* POST /wallet/topup by u.
Topup(u, amount, ref) ==
  /\ u \in Registered
  /\ ~RefTaken(ref)
  /\ Len(topups) < MaxTopups
  /\ topups' = Append(topups, [user |-> u, amount |-> amount, ref |-> ref])
  /\ topupByRef' = [r \in Refs |-> IF r = ref THEN Len(topups) + 1
                                               ELSE topupByRef[r]]
  /\ wallet' = [wallet EXCEPT ![u] = OpenedBalance(u) + amount]
  /\ RecordTransaction(u, "topup_credit", None, None, amount,
                       OpenedBalance(u), OpenedBalance(u) + amount)
  /\ UNCHANGED <<role, orderVars, refundVars, items, now>>

\* Any body that WalletTopupRequest admits, from any user.
TopupRequest ==
  \E u \in Users, amount \in Amounts, ref \in ExternalRefs :
    Topup(u, amount, ref)
=============================================================================
