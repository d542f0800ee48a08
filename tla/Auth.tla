-------------------------------- MODULE Auth --------------------------------
(***************************************************************************)
(* Accounts and tokens: app/services/auth_service.py with                  *)
(* app/db/repositories/auth.py and the claims of app/core/security.py.     *)
(* A service method does not suspend after its arguments are there, so     *)
(* each one is a step.  A request that raises before it writes is left     *)
(* out: its answer is the value of a verdict.                              *)
(***************************************************************************)
EXTENDS Integers, Sequences, FiniteSets

CONSTANTS
  Emails, Names,           \* spellings of e-mails and user names
  LowerEmail, LowerName,   \* strip and lower on them
  None,                    \* no entry in a dict
  AccessTtl, RefreshTtl,   \* settings: life of a token
  Skew,                    \* settings.token_clock_skew_seconds
  MaxUsers, MaxPairs, MaxClock   \* bounds of the exploration

\* Normalising twice is normalising once.
ASSUME AuthAssumption ==
  /\ LowerEmail \in [Emails -> Emails] /\ LowerName \in [Names -> Names]
  /\ \A e \in Emails : LowerEmail[LowerEmail[e]] = LowerEmail[e]
  /\ AccessTtl \in Nat /\ RefreshTtl \in Nat /\ Skew \in Nat
  /\ MaxUsers \in Nat /\ MaxPairs \in Nat /\ MaxClock \in Nat
  /\ None \notin Nat

VARIABLES
  users,            \* the users table, a row per id
  byEmail, byName,  \* users_by_email, users_by_username
  pairs,            \* the token pairs handed out, in order; `from` is the pair
                    \* whose refresh token was exchanged for it
  refreshTokens,    \* refresh_tokens: the owner of each pair's refresh token
  clock,            \* datetime.now(UTC)
  latest            \* the highest value the clock has had

accountVars == <<users, byEmail, byName>>
tokenVars == <<pairs, refreshTokens>>
authVars == <<accountVars, tokenVars, clock, latest>>

UserIds == 1 .. MaxUsers
PairIds == 1 .. MaxPairs
Opt(S) == S \cup {None}

UserRecord == [email : Emails, username : Names, status : {"active", "blocked"}]
PairRecord == [user : Nat, iat : Nat, from : Opt(Nat)]

AuthInit ==
  /\ users = << >>
  /\ byEmail = [e \in Emails |-> None] /\ byName = [n \in Names |-> None]
  /\ pairs = << >>
  /\ refreshTokens = [t \in PairIds |-> None]
  /\ clock = 0 /\ latest = 0

-----------------------------------------------------------------------------
(* Accounts *)

FaultyRegisterVerdict(e, n) ==   \* names are compared as they are spelled
  IF byEmail[LowerEmail[e]] # None THEN "EMAIL_ALREADY_EXISTS"
  ELSE IF byName[n] # None THEN "USERNAME_ALREADY_EXISTS"
  ELSE "created"

\* create_user looks at the e-mail first.
RegisterVerdict(e, n) ==
  IF byEmail[LowerEmail[e]] # None THEN "EMAIL_ALREADY_EXISTS"
  ELSE IF byName[LowerName[n]] # None THEN "USERNAME_ALREADY_EXISTS"
  ELSE "created"

FaultyBackdated(u, from, rest) ==   \* issued early enough for any clock
  /\ Len(pairs) < MaxPairs
  /\ pairs' = Append(pairs, [user |-> u, iat |-> clock - Skew, from |-> from])
  /\ refreshTokens' = [rest EXCEPT ![Len(pairs) + 1] = u]

FaultyOneSession(u, from, rest) ==   \* a new pair ends the other sessions
  /\ Len(pairs) < MaxPairs
  /\ pairs' = Append(pairs, [user |-> u, iat |-> clock, from |-> from])
  /\ refreshTokens' = [t \in PairIds |-> IF t = Len(pairs) + 1 THEN u
                                         ELSE IF rest[t] = u THEN None
                                         ELSE rest[t]]

\* A new pair, its refresh token stored for u; `rest` is what remains of
\* refresh_tokens otherwise.
Issue(u, from, rest) ==
  /\ Len(pairs) < MaxPairs
  /\ pairs' = Append(pairs, [user |-> u, iat |-> clock, from |-> from])
  /\ refreshTokens' = [rest EXCEPT ![Len(pairs) + 1] = u]

FaultyIndexed(index, key, id) ==   \* the id of the row before
  [index EXCEPT ![key] = id - 1]
Indexed(index, key, id) == [index EXCEPT ![key] = id]

\* The name keeps its case in the row and loses it in the index.
Register(e, n) ==
  LET id == Len(users) + 1 IN
  /\ RegisterVerdict(e, n) = "created"
  /\ id <= MaxUsers
  /\ users' = Append(users, [email |-> LowerEmail[e], username |-> n,
                             status |-> "active"])
  /\ byEmail' = Indexed(byEmail, LowerEmail[e], id)
  /\ byName' = Indexed(byName, LowerName[n], id)
  /\ Issue(id, None, refreshTokens)
  /\ UNCHANGED <<clock, latest>>

Active(u) == users[u].status = "active"

\* With the right password: a wrong one is refused like an unknown e-mail.
Login(e) ==
  LET u == byEmail[LowerEmail[e]] IN
  /\ u # None
  /\ Active(u)
  /\ Issue(u, None, refreshTokens)
  /\ UNCHANGED <<accountVars, clock, latest>>

\* No operation of the program blocks a user; whoever administers the store may.
SetStatus(u, status) ==
  /\ u \in DOMAIN users
  /\ users' = [users EXCEPT ![u].status = status]
  /\ UNCHANGED <<byEmail, byName, tokenVars, clock, latest>>

-----------------------------------------------------------------------------
(* Tokens *)

Ttl(kind) == IF kind = "access" THEN AccessTtl ELSE RefreshTtl

FaultyDecodeVerdict(t, kind, expected) ==   \* nbf is compared without the skew
  IF kind # expected THEN "INVALID_TOKEN_TYPE"
  ELSE IF clock > pairs[t].iat + Ttl(kind) + Skew THEN "TOKEN_EXPIRED"
  ELSE IF clock < pairs[t].iat THEN "TOKEN_NOT_ACTIVE"
  ELSE "valid"

\* decode_token on a token of pair t that the program signed; nbf is iat.
DecodeVerdict(t, kind, expected) ==
  IF kind # expected THEN "INVALID_TOKEN_TYPE"
  ELSE IF clock > pairs[t].iat + Ttl(kind) + Skew THEN "TOKEN_EXPIRED"
  ELSE IF clock + Skew < pairs[t].iat THEN "TOKEN_NOT_ACTIVE"
  ELSE IF pairs[t].iat > clock + Skew THEN "INVALID_TOKEN_IAT"
  ELSE "valid"

\* consume_refresh_token and the checks around it.  The code answers
\* INVALID_REFRESH_TOKEN to the next three cases; they are told apart because in
\* the last two the token has been popped by then.
RefreshVerdict(t, kind) ==
  IF DecodeVerdict(t, kind, "refresh") # "valid"
    THEN DecodeVerdict(t, kind, "refresh")
  ELSE IF refreshTokens[t] = None          THEN "INVALID_REFRESH_TOKEN"
  ELSE IF refreshTokens[t] # pairs[t].user THEN "SUBJECT_MISMATCH"
  ELSE IF pairs[t].user \notin DOMAIN users THEN "USER_GONE"
  ELSE IF ~Active(pairs[t].user)           THEN "USER_BLOCKED"
  ELSE "rotated"

FaultyConsumed(t) ==   \* a dict.get
  refreshTokens
\* dict.pop
Consumed(t) == [refreshTokens EXCEPT ![t] = None]

Refresh(t, kind) ==
  /\ RefreshVerdict(t, kind) = "rotated"
  /\ Issue(pairs[t].user, t, Consumed(t))
  /\ UNCHANGED <<accountVars, clock, latest>>

\* The token is gone although no new one is issued.
RefreshRefused(t, kind) ==
  /\ RefreshVerdict(t, kind) \in {"SUBJECT_MISMATCH", "USER_GONE", "USER_BLOCKED"}
  /\ refreshTokens' = Consumed(t)
  /\ UNCHANGED <<accountVars, pairs, clock, latest>>

\* get_current_user with the access token of pair t.
AccessVerdict(t, kind) ==
  IF DecodeVerdict(t, kind, "access") # "valid"
    THEN DecodeVerdict(t, kind, "access")
  ELSE IF pairs[t].user \notin DOMAIN users THEN "USER_NOT_FOUND"
  ELSE IF ~Active(pairs[t].user)            THEN "USER_BLOCKED"
  ELSE "authenticated"

\* The wall clock advances, or is corrected backwards.
Tick ==
  /\ clock < MaxClock
  /\ clock' = clock + 1
  /\ latest' = IF clock' > latest THEN clock' ELSE latest
  /\ UNCHANGED <<accountVars, tokenVars>>

SetBack ==
  /\ clock > 0
  /\ clock' = clock - 1
  /\ UNCHANGED <<accountVars, tokenVars, latest>>

AuthNext ==
  \/ \E e \in Emails, n \in Names : Register(e, n)
  \/ \E e \in Emails : Login(e)
  \/ \E u \in UserIds, status \in {"active", "blocked"} : SetStatus(u, status)
  \/ \E t \in DOMAIN pairs, kind \in {"access", "refresh"} :
       Refresh(t, kind) \/ RefreshRefused(t, kind)
  \/ Tick \/ SetBack

AuthSpec == AuthInit /\ [][AuthNext]_authVars

-----------------------------------------------------------------------------
AuthTypeOK ==
  /\ users \in Seq(UserRecord) /\ Len(users) <= MaxUsers
  /\ byEmail \in [Emails -> Opt(Nat)] /\ byName \in [Names -> Opt(Nat)]
  /\ pairs \in Seq(PairRecord) /\ Len(pairs) <= MaxPairs
  /\ refreshTokens \in [PairIds -> Opt(Nat)]
  /\ clock \in Nat /\ latest \in Nat

\* No two accounts share an e-mail or a user name, whatever the case in which
\* they were registered.
AccountsUnique ==
  \A u, v \in DOMAIN users :
    \/ LowerEmail[users[u].email] = LowerEmail[users[v].email]
    \/ LowerName[users[u].username] = LowerName[users[v].username]
    => u = v

\* The indices and the table say the same: every account is found under its
\* e-mail and its name, and nothing else is found.
IndexExact ==
  /\ \A u \in DOMAIN users :
       /\ byEmail[users[u].email] = u /\ LowerEmail[users[u].email] = users[u].email
       /\ byName[LowerName[users[u].username]] = u
  /\ \A e \in Emails : byEmail[e] # None =>
       byEmail[e] \in DOMAIN users /\ users[byEmail[e]].email = e
  /\ \A n \in Names : byName[n] # None =>
       /\ byName[n] \in DOMAIN users
       /\ LowerName[users[byName[n]].username] = n

\* A refresh token is exchanged once: a second pair never comes from the same
\* token, however many copies of it are presented.
SpentOnce ==
  \A s, t \in DOMAIN pairs :
    pairs[s].from # None /\ pairs[s].from = pairs[t].from => s = t

\* An exchanged token cannot be used again, and every stored one belongs to the
\* user it names: a token never opens another account.
StoredTokensSound ==
  /\ \A t \in DOMAIN pairs : pairs[t].from # None =>
       /\ pairs[t].from \in 1 .. t - 1
       /\ refreshTokens[pairs[t].from] = None
       /\ pairs[pairs[t].from].user = pairs[t].user
  /\ \A t \in PairIds : refreshTokens[t] # None =>
       /\ t \in DOMAIN pairs
       /\ refreshTokens[t] = pairs[t].user
       /\ pairs[t].user \in DOMAIN users

\* A clock set back by no more than the tolerance makes no token, however new,
\* look issued in the future; an access token then works until it expires,
\* whatever became of its refresh token, unless the user is blocked.
SkewTolerated ==
  latest - clock <= Skew =>
    \A t \in DOMAIN pairs :
      /\ DecodeVerdict(t, "refresh", "refresh") \in {"valid", "TOKEN_EXPIRED"}
      /\ AccessVerdict(t, "access") \in
           {"authenticated", "TOKEN_EXPIRED", "USER_BLOCKED"}

\* A session ends in one of two ways only: its token was exchanged for a new
\* pair, or presented while the user was blocked.
SessionEndsExplained ==
  [][\A t \in PairIds :
       refreshTokens[t] # None /\ refreshTokens'[t] = None =>
         \/ ~Active(refreshTokens[t])
         \/ \E s \in DOMAIN pairs' \ DOMAIN pairs : pairs'[s].from = t]_authVars

-----------------------------------------------------------------------------
\* Codes that the handlers of Auth answer with 409.
ConflictCodes == {"EMAIL_ALREADY_EXISTS", "USERNAME_ALREADY_EXISTS"}

\* docs/api_contract_mvp.md:222: a refresh token that was used already is
\* answered with 409, "token replay detected".
ReplayConflicts ==
  \A t \in DOMAIN pairs :
    DecodeVerdict(t, "refresh", "refresh") = "valid"
      /\ (\E s \in DOMAIN pairs : pairs[s].from = t)
      => RefreshVerdict(t, "refresh") \in ConflictCodes
=============================================================================
