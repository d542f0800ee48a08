----------------------------- MODULE AuthProofs -----------------------------
(***************************************************************************)
(* Proofs about Auth, for every value of its constants.                    *)
(***************************************************************************)
EXTENDS Auth, TLAPS, SequenceTheorems

\* A row appended to a table gets the next id and leaves the others alone.
LEMMA RowAdded ==
  ASSUME NEW S, NEW s \in Seq(S), NEW e \in S
  PROVE  /\ Append(s, e) \in Seq(S) /\ Len(s) \in Nat
         /\ Len(Append(s, e)) = Len(s) + 1
         /\ DOMAIN Append(s, e) = DOMAIN s \cup {Len(s) + 1}
         /\ Len(s) + 1 \notin DOMAIN s
         /\ \A i \in DOMAIN s : i \in Nat /\ i < Len(s) + 1
         /\ \A i \in DOMAIN s : Append(s, e)[i] = s[i]
         /\ Append(s, e)[Len(s) + 1] = e
<1>1. /\ Len(s) \in Nat /\ DOMAIN s = 1 .. Len(s)
  BY LenProperties
<1>2. /\ Append(s, e) \in Seq(S) /\ Len(Append(s, e)) = Len(s) + 1
      /\ DOMAIN Append(s, e) = 1 .. Len(s) + 1
      /\ \A i \in 1 .. Len(s) : Append(s, e)[i] = s[i]
      /\ Append(s, e)[Len(s) + 1] = e
  BY AppendProperties
<1> QED BY <1>1, <1>2

-----------------------------------------------------------------------------
(* Types *)

LEMMA RowTypes ==
  ASSUME AuthTypeOK
  PROVE  /\ \A u \in DOMAIN users : users[u] \in UserRecord
         /\ \A t \in DOMAIN pairs : pairs[t] \in PairRecord
         /\ DOMAIN pairs \subseteq PairIds
<1>1. /\ Len(pairs) \in Nat /\ DOMAIN pairs = 1 .. Len(pairs)
      /\ Len(users) \in Nat /\ DOMAIN users = 1 .. Len(users)
  BY LenProperties DEF AuthTypeOK
<1> QED BY <1>1, ElementOfSeq, AuthAssumption DEF AuthTypeOK, PairIds

\* Issuing a pair keeps the shape of the token tables, and names the new pair.
LEMMA Issued ==
  ASSUME AuthTypeOK, NEW u \in Nat, NEW from \in Opt(Nat),
         NEW rest \in [PairIds -> Opt(Nat)], Issue(u, from, rest)
  PROVE  LET id == Len(pairs) + 1 IN
         /\ pairs' \in Seq(PairRecord) /\ Len(pairs') <= MaxPairs
         /\ refreshTokens' \in [PairIds -> Opt(Nat)]
         /\ id \in PairIds /\ id \notin DOMAIN pairs
         /\ DOMAIN pairs' = DOMAIN pairs \cup {id}
         /\ \A t \in DOMAIN pairs : t \in Nat /\ t < id /\ pairs'[t] = pairs[t]
         /\ pairs'[id] = [user |-> u, iat |-> clock, from |-> from]
         /\ refreshTokens'[id] = u
         /\ \A t \in PairIds : t # id => refreshTokens'[t] = rest[t]
<1> DEFINE row == [user |-> u, iat |-> clock, from |-> from]
<1>1. row \in PairRecord
  BY DEF PairRecord, AuthTypeOK
<1>2. pairs \in Seq(PairRecord) /\ pairs' = Append(pairs, row)
  BY DEF AuthTypeOK, Issue
<1>3. /\ pairs' \in Seq(PairRecord) /\ Len(pairs) \in Nat
      /\ Len(pairs') = Len(pairs) + 1
      /\ DOMAIN pairs' = DOMAIN pairs \cup {Len(pairs) + 1}
      /\ Len(pairs) + 1 \notin DOMAIN pairs
      /\ \A t \in DOMAIN pairs : t \in Nat /\ t < Len(pairs) + 1
      /\ \A t \in DOMAIN pairs : pairs'[t] = pairs[t]
      /\ pairs'[Len(pairs) + 1] = row
  BY <1>1, <1>2, RowAdded
<1>4. Len(pairs) + 1 \in PairIds /\ Len(pairs') <= MaxPairs
  BY <1>3, AuthAssumption DEF Issue, PairIds
<1>5. refreshTokens' = [rest EXCEPT ![Len(pairs) + 1] = u]
  BY DEF Issue
<1>6. u \in Opt(Nat)
  BY DEF Opt
<1> QED BY <1>3, <1>4, <1>5, <1>6

\* What a registration adds to the table of users.
LEMMA Registered ==
  ASSUME AuthTypeOK, NEW e \in Emails, NEW n \in Names, Register(e, n)
  PROVE  LET id == Len(users) + 1 IN
         /\ users' \in Seq(UserRecord) /\ Len(users') <= MaxUsers /\ id \in Nat
         /\ DOMAIN users' = DOMAIN users \cup {id} /\ id \notin DOMAIN users
         /\ \A u \in DOMAIN users : users'[u] = users[u]
         /\ users'[id] = [email |-> LowerEmail[e], username |-> n,
                          status |-> "active"]
<1> DEFINE row == [email |-> LowerEmail[e], username |-> n, status |-> "active"]
<1>1. row \in UserRecord
  BY AuthAssumption DEF UserRecord
<1>2. users \in Seq(UserRecord) /\ users' = Append(users, row)
  BY DEF AuthTypeOK, Register
<1>3. Len(users) + 1 <= MaxUsers
  BY DEF Register
<1> QED BY <1>1, <1>2, <1>3, RowAdded

\* A change of a status keeps everything else of the table.
LEMMA StatusSet ==
  ASSUME AuthTypeOK, NEW u \in UserIds, NEW status \in {"active", "blocked"},
         SetStatus(u, status)
  PROVE  /\ users' \in Seq(UserRecord) /\ Len(users') <= MaxUsers
         /\ DOMAIN users' = DOMAIN users
         /\ \A v \in DOMAIN users : /\ users'[v].email = users[v].email
                                   /\ users'[v].username = users[v].username
<1>1. u \in DOMAIN users /\ users' = [users EXCEPT ![u].status = status]
  BY DEF SetStatus
<1>2. \A v \in DOMAIN users : users[v] \in UserRecord
  BY RowTypes
<1>3. [users[u] EXCEPT !.status = status] \in UserRecord
  BY <1>1, <1>2 DEF UserRecord
<1>4. users' = [users EXCEPT ![u] = [users[u] EXCEPT !.status = status]]
  BY <1>1
<1>5. /\ users' \in Seq(UserRecord) /\ Len(users') = Len(users)
      /\ DOMAIN users' = DOMAIN users
  BY <1>1, <1>3, <1>4, ExceptSeq DEF AuthTypeOK
<1>6. \A v \in DOMAIN users : /\ users'[v].email = users[v].email
                              /\ users'[v].username = users[v].username
  BY <1>1, <1>2, <1>4 DEF UserRecord
<1> QED BY <1>5, <1>6 DEF AuthTypeOK

\* Who issues a pair, and for whom: every step that does is one of these.
LEMMA ConsumedType ==
  ASSUME AuthTypeOK, NEW t \in PairIds
  PROVE  /\ Consumed(t) \in [PairIds -> Opt(Nat)] /\ Consumed(t)[t] = None
         /\ \A s \in PairIds : s # t => Consumed(t)[s] = refreshTokens[s]
BY DEF AuthTypeOK, Consumed, Opt

LEMMA RegisterIssues ==
  ASSUME AuthTypeOK, NEW e \in Emails, NEW n \in Names, Register(e, n)
  PROVE  /\ Len(users) + 1 \in Nat /\ None \in Opt(Nat)
         /\ refreshTokens \in [PairIds -> Opt(Nat)]
         /\ Issue(Len(users) + 1, None, refreshTokens)
BY Registered DEF Register, AuthTypeOK, Opt

LEMMA LoginIssues ==
  ASSUME AuthTypeOK, NEW e \in Emails, Login(e)
  PROVE  /\ byEmail[LowerEmail[e]] \in Nat /\ None \in Opt(Nat)
         /\ refreshTokens \in [PairIds -> Opt(Nat)]
         /\ Issue(byEmail[LowerEmail[e]], None, refreshTokens)
BY AuthAssumption DEF Login, AuthTypeOK, Opt

LEMMA RefreshIssues ==
  ASSUME AuthTypeOK, NEW t \in DOMAIN pairs, NEW kind \in {"access", "refresh"},
         Refresh(t, kind)
  PROVE  /\ pairs[t].user \in Nat /\ t \in Opt(Nat)
         /\ Consumed(t) \in [PairIds -> Opt(Nat)]
         /\ Issue(pairs[t].user, t, Consumed(t))
         /\ refreshTokens[t] # None /\ refreshTokens[t] = pairs[t].user
<1>1. t \in PairIds /\ pairs[t] \in PairRecord
  BY RowTypes
<1>2. t \in Nat
  BY <1>1, AuthAssumption DEF PairIds
<1>3. refreshTokens[t] # None /\ refreshTokens[t] = pairs[t].user
  BY DEF Refresh, RefreshVerdict, DecodeVerdict
<1> QED BY <1>1, <1>2, <1>3, ConsumedType DEF Refresh, PairRecord, Opt

\* The shape of every table is kept.
THEOREM AuthTypeCorrect == AuthSpec => []AuthTypeOK
<1>1. AuthInit => AuthTypeOK
  BY AuthAssumption DEF AuthInit, AuthTypeOK, Opt
<1>2. AuthTypeOK /\ [AuthNext]_authVars => AuthTypeOK'
  <2> SUFFICES ASSUME AuthTypeOK, [AuthNext]_authVars PROVE AuthTypeOK'
    OBVIOUS
  <2>1. ASSUME NEW e \in Emails, NEW n \in Names, Register(e, n) PROVE AuthTypeOK'
    <3>1. users' \in Seq(UserRecord) /\ Len(users') <= MaxUsers /\ Len(users) + 1 \in Nat
      BY <2>1, Registered
    <3>2. pairs' \in Seq(PairRecord) /\ Len(pairs') <= MaxPairs
          /\ refreshTokens' \in [PairIds -> Opt(Nat)]
      BY <2>1, RegisterIssues, Issued
    <3>3. byEmail' \in [Emails -> Opt(Nat)] /\ byName' \in [Names -> Opt(Nat)]
      BY <2>1, <3>1 DEF Register, Indexed, AuthTypeOK, Opt
    <3> QED BY <2>1, <3>1, <3>2, <3>3 DEF Register, AuthTypeOK
  <2>2. ASSUME NEW e \in Emails, Login(e) PROVE AuthTypeOK'
    <3>1. pairs' \in Seq(PairRecord) /\ Len(pairs') <= MaxPairs
          /\ refreshTokens' \in [PairIds -> Opt(Nat)]
      BY <2>2, LoginIssues, Issued
    <3> QED BY <2>2, <3>1 DEF Login, AuthTypeOK, accountVars
  <2>3. ASSUME NEW u \in UserIds, NEW status \in {"active", "blocked"},
               SetStatus(u, status)
        PROVE  AuthTypeOK'
    BY <2>3, StatusSet DEF SetStatus, AuthTypeOK, tokenVars
  <2>4. ASSUME NEW t \in DOMAIN pairs, NEW kind \in {"access", "refresh"},
               Refresh(t, kind)
        PROVE  AuthTypeOK'
    <3>1. pairs' \in Seq(PairRecord) /\ Len(pairs') <= MaxPairs
          /\ refreshTokens' \in [PairIds -> Opt(Nat)]
      BY <2>4, RefreshIssues, Issued
    <3> QED BY <2>4, <3>1 DEF Refresh, AuthTypeOK, accountVars
  <2>5. ASSUME NEW t \in DOMAIN pairs, NEW kind \in {"access", "refresh"},
               RefreshRefused(t, kind)
        PROVE  AuthTypeOK'
    <3>1. refreshTokens' \in [PairIds -> Opt(Nat)]
      BY <2>5, RowTypes, ConsumedType DEF RefreshRefused
    <3> QED BY <2>5, <3>1 DEF RefreshRefused, AuthTypeOK, accountVars
  <2>6. CASE Tick
    BY <2>6 DEF Tick, AuthTypeOK, accountVars, tokenVars
  <2>7. CASE SetBack
    BY <2>7 DEF SetBack, AuthTypeOK, accountVars, tokenVars
  <2>8. CASE UNCHANGED authVars
    BY <2>8 DEF authVars, AuthTypeOK, accountVars, tokenVars
  <2> QED BY <2>1, <2>2, <2>3, <2>4, <2>5, <2>6, <2>7, <2>8 DEF AuthNext
<1> QED BY <1>1, <1>2, PTL DEF AuthSpec

-----------------------------------------------------------------------------
(* Accounts *)

LEMMA RegisterKeepsIndex ==
  ASSUME AuthTypeOK, IndexExact, NEW e \in Emails, NEW n \in Names, Register(e, n)
  PROVE  IndexExact'
<1> DEFINE id == Len(users) + 1
           mail == LowerEmail[e]
           name == LowerName[n]
<1>1. /\ DOMAIN users' = DOMAIN users \cup {id} /\ id \notin DOMAIN users
      /\ \A u \in DOMAIN users : users'[u] = users[u]
      /\ users'[id].email = mail /\ users'[id].username = n
      /\ id \in Nat /\ id # None
  <2>1. /\ DOMAIN users' = DOMAIN users \cup {id} /\ id \notin DOMAIN users
        /\ \A u \in DOMAIN users : users'[u] = users[u] /\ id \in Nat
        /\ users'[id] = [email |-> mail, username |-> n, status |-> "active"]
        /\ id \in Nat
    BY Registered
  <2> QED BY <2>1, AuthAssumption
<1>2. /\ mail \in Emails /\ name \in Names /\ LowerEmail[mail] = mail
      /\ byEmail[mail] = None /\ byName[name] = None
  BY AuthAssumption DEF Register, RegisterVerdict
<1>3. /\ byEmail'[mail] = id /\ \A x \in Emails : x # mail => byEmail'[x] = byEmail[x]
      /\ byName'[name] = id /\ \A x \in Names : x # name => byName'[x] = byName[x]
  BY <1>2 DEF Register, Indexed, AuthTypeOK
<1>4. \A u \in DOMAIN users : /\ u # None /\ users[u].email \in Emails
                              /\ LowerName[users[u].username] \in Names
  <2> TAKE u \in DOMAIN users
  <2>1. users[u] \in UserRecord /\ u \in Nat
    BY RowTypes, LenProperties DEF AuthTypeOK
  <2> QED BY <2>1, AuthAssumption DEF UserRecord
<1> HIDE DEF id, mail, name
<1>5. ASSUME NEW u \in DOMAIN users'
      PROVE  /\ byEmail'[users'[u].email] = u
             /\ LowerEmail[users'[u].email] = users'[u].email
             /\ byName'[LowerName[users'[u].username]] = u
  <2>1. CASE u = id
    BY <1>1, <1>2, <1>3, <2>1 DEF name
  <2>2. CASE u \in DOMAIN users
    <3>1. /\ byEmail[users[u].email] = u /\ LowerEmail[users[u].email] = users[u].email
          /\ byName[LowerName[users[u].username]] = u
      BY <2>2 DEF IndexExact
    <3>2. users[u].email # mail /\ LowerName[users[u].username] # name
      BY <1>2, <1>4, <2>2, <3>1
    <3> QED BY <1>1, <1>3, <1>4, <2>2, <3>1, <3>2
  <2> QED BY <1>1, <2>1, <2>2
<1>6. ASSUME NEW x \in Emails, byEmail'[x] # None
      PROVE  byEmail'[x] \in DOMAIN users' /\ users'[byEmail'[x]].email = x
  <2>1. CASE x = mail
    BY <1>1, <1>3, <2>1
  <2>2. CASE x # mail
    <3>1. byEmail'[x] = byEmail[x]
      BY <1>3, <2>2
    <3>2. byEmail[x] \in DOMAIN users /\ users[byEmail[x]].email = x
      BY <1>6, <3>1 DEF IndexExact
    <3> QED BY <1>1, <3>1, <3>2
  <2> QED BY <2>1, <2>2
<1>7. ASSUME NEW x \in Names, byName'[x] # None
      PROVE  /\ byName'[x] \in DOMAIN users'
             /\ LowerName[users'[byName'[x]].username] = x
  <2>1. CASE x = name
    BY <1>1, <1>3, <2>1 DEF name
  <2>2. CASE x # name
    <3>1. byName'[x] = byName[x]
      BY <1>3, <2>2
    <3>2. /\ byName[x] \in DOMAIN users
          /\ LowerName[users[byName[x]].username] = x
      BY <1>7, <3>1 DEF IndexExact
    <3> QED BY <1>1, <3>1, <3>2
  <2> QED BY <2>1, <2>2
<1> QED BY <1>5, <1>6, <1>7 DEF IndexExact

\* A step leaves the accounts alone, registers one, or sets a status.
LEMMA AccountSteps ==
  ASSUME [AuthNext]_authVars
  PROVE  \/ UNCHANGED accountVars
         \/ \E e \in Emails, n \in Names : Register(e, n)
         \/ \E u \in UserIds, status \in {"active", "blocked"} : SetStatus(u, status)
BY DEF AuthNext, authVars, Login, Refresh, RefreshRefused, Tick, SetBack, accountVars

\* The indices agree with the table for any number of registrations.
THEOREM IndexCorrect == AuthSpec => []IndexExact
<1>1. AuthInit => IndexExact
  BY DEF AuthInit, IndexExact
<1>2. AuthTypeOK /\ IndexExact /\ [AuthNext]_authVars => IndexExact'
  <2> SUFFICES ASSUME AuthTypeOK, IndexExact, [AuthNext]_authVars PROVE IndexExact'
    OBVIOUS
  <2>1. CASE UNCHANGED accountVars
    BY <2>1 DEF accountVars, IndexExact
  <2>2. ASSUME NEW u \in UserIds, NEW status \in {"active", "blocked"},
               SetStatus(u, status)
        PROVE  IndexExact'
    <3>1. byEmail' = byEmail /\ byName' = byName
      BY <2>2 DEF SetStatus
    <3>2. /\ DOMAIN users' = DOMAIN users
          /\ \A v \in DOMAIN users : /\ users'[v].email = users[v].email
                                     /\ users'[v].username = users[v].username
      BY <2>2, StatusSet
    <3> QED BY <3>1, <3>2 DEF IndexExact
  <2> QED BY <2>1, <2>2, AccountSteps, RegisterKeepsIndex
<1> QED BY <1>1, <1>2, AuthTypeCorrect, PTL DEF AuthSpec

\* No two accounts share an e-mail or a name: a consequence of the indices.
THEOREM UniqueCorrect == AuthSpec => []AccountsUnique
<1>1. IndexExact => AccountsUnique
  BY DEF IndexExact, AccountsUnique
<1> QED BY <1>1, IndexCorrect, PTL

-----------------------------------------------------------------------------
(* Tokens *)

\* SpentOnce and StoredTokensSound need one another: that a stored token was
\* never exchanged is why exchanging it makes its first successor.  The times
\* and owners are what SkewTolerated needs.
TokenInv ==
  /\ SpentOnce
  /\ StoredTokensSound
  /\ \A t \in DOMAIN pairs : pairs[t].user \in DOMAIN users /\ pairs[t].iat <= latest
  /\ clock <= latest

LEMMA IssueKeepsTokens ==
  ASSUME AuthTypeOK, TokenInv, NEW u \in Nat, NEW from \in Opt(Nat),
         NEW rest \in [PairIds -> Opt(Nat)], Issue(u, from, rest),
         u \in DOMAIN users', DOMAIN users \subseteq DOMAIN users',
         UNCHANGED <<clock, latest>>,
         \A t \in PairIds : rest[t] = refreshTokens[t] \/ rest[t] = None,
         from # None => /\ from \in DOMAIN pairs /\ pairs[from].user = u
                        /\ refreshTokens[from] # None /\ rest[from] = None
  PROVE  TokenInv'
<1> DEFINE id == Len(pairs) + 1
<1>1. /\ id \in PairIds /\ id \notin DOMAIN pairs
      /\ DOMAIN pairs' = DOMAIN pairs \cup {id}
      /\ \A t \in DOMAIN pairs : t \in Nat /\ t < id /\ pairs'[t] = pairs[t]
      /\ pairs'[id] = [user |-> u, iat |-> clock, from |-> from]
      /\ refreshTokens'[id] = u
      /\ \A t \in PairIds : t # id => refreshTokens'[t] = rest[t]
  BY Issued
<1>2. DOMAIN pairs \subseteq PairIds
  BY RowTypes
<1> HIDE DEF id
<1>3. pairs'[id].user = u /\ pairs'[id].iat = clock /\ pairs'[id].from = from
  BY <1>1
<1>4. \A t \in DOMAIN pairs : pairs[t].from # None => pairs[t].from # from
  BY DEF TokenInv, StoredTokensSound
<1>5. SpentOnce'
  <2> SUFFICES ASSUME NEW s \in DOMAIN pairs', NEW t \in DOMAIN pairs',
                      pairs'[s].from # None, pairs'[s].from = pairs'[t].from
               PROVE  s = t
    BY DEF SpentOnce
  <2>1. CASE s \in DOMAIN pairs /\ t \in DOMAIN pairs
    BY <1>1, <2>1 DEF TokenInv, SpentOnce
  <2>2. CASE s = id \/ t = id
    BY <1>1, <1>3, <1>4, <2>2
  <2> QED BY <1>1, <2>1, <2>2
<1>6. ASSUME NEW t \in DOMAIN pairs', pairs'[t].from # None
      PROVE  /\ pairs'[t].from \in 1 .. t - 1
             /\ refreshTokens'[pairs'[t].from] = None
             /\ pairs'[pairs'[t].from].user = pairs'[t].user
  <2>1. CASE t = id
    <3>1. /\ from \in DOMAIN pairs /\ pairs[from].user = u /\ rest[from] = None
      BY <1>3, <1>6, <2>1
    <3>2. from \in PairIds /\ from # t /\ from \in 1 .. t - 1
      <4>1. DOMAIN pairs = 1 .. Len(pairs) /\ Len(pairs) \in Nat
        BY LenProperties DEF AuthTypeOK
      <4> QED BY <1>2, <2>1, <3>1, <4>1 DEF id
    <3> QED BY <1>1, <1>3, <2>1, <3>1, <3>2
  <2>2. CASE t \in DOMAIN pairs
    <3> DEFINE f == pairs[t].from
    <3>1. /\ f # None /\ f \in 1 .. t - 1 /\ refreshTokens[f] = None
          /\ pairs[f].user = pairs[t].user
      BY <1>1, <1>6, <2>2 DEF TokenInv, StoredTokensSound
    <3>2. f \in DOMAIN pairs
      <4>1. DOMAIN pairs = 1 .. Len(pairs) /\ Len(pairs) \in Nat
        BY LenProperties DEF AuthTypeOK
      <4> QED BY <2>2, <3>1, <4>1
    <3>3. f # id /\ f \in PairIds
      BY <1>1, <1>2, <3>2
    <3> QED BY <1>1, <2>2, <3>1, <3>2, <3>3
  <2> QED BY <1>1, <2>1, <2>2
<1>7. ASSUME NEW t \in PairIds, refreshTokens'[t] # None
      PROVE  /\ t \in DOMAIN pairs'
             /\ refreshTokens'[t] = pairs'[t].user
             /\ pairs'[t].user \in DOMAIN users'
  <2>1. CASE t = id
    BY <1>1, <1>3, <2>1
  <2>2. CASE t # id
    <3>1. refreshTokens'[t] = refreshTokens[t] /\ refreshTokens[t] # None
      BY <1>1, <1>7, <2>2
    <3> QED BY <1>1, <3>1 DEF TokenInv, StoredTokensSound
  <2> QED BY <2>1, <2>2
<1>8. \A t \in DOMAIN pairs' : pairs'[t].user \in DOMAIN users' /\ pairs'[t].iat <= latest'
  BY <1>1, <1>3 DEF TokenInv
<1>9. clock' <= latest'
  BY DEF TokenInv
<1> QED BY <1>5, <1>6, <1>7, <1>8, <1>9 DEF TokenInv, StoredTokensSound

LEMMA RegisterKeepsTokens ==
  ASSUME AuthTypeOK, TokenInv, NEW e \in Emails, NEW n \in Names, Register(e, n)
  PROVE  TokenInv'
<1> DEFINE id == Len(users) + 1
<1>1. id \in DOMAIN users' /\ DOMAIN users \subseteq DOMAIN users'
  BY Registered
<1>2. /\ id \in Nat /\ None \in Opt(Nat) /\ refreshTokens \in [PairIds -> Opt(Nat)]
      /\ Issue(id, None, refreshTokens)
  BY RegisterIssues
<1>3. UNCHANGED <<clock, latest>>
  BY DEF Register
<1> HIDE DEF id
<1> QED BY <1>1, <1>2, <1>3, IssueKeepsTokens

LEMMA LoginKeepsTokens ==
  ASSUME AuthTypeOK, IndexExact, TokenInv, NEW e \in Emails, Login(e)
  PROVE  TokenInv'
<1> DEFINE u == byEmail[LowerEmail[e]]
<1>1. /\ u \in Nat /\ None \in Opt(Nat) /\ refreshTokens \in [PairIds -> Opt(Nat)]
      /\ Issue(u, None, refreshTokens)
  BY LoginIssues
<1>2. u \in DOMAIN users /\ users' = users /\ UNCHANGED <<clock, latest>>
  BY AuthAssumption DEF Login, IndexExact, accountVars
<1> HIDE DEF u
<1> QED BY <1>1, <1>2, IssueKeepsTokens

LEMMA RefreshKeepsTokens ==
  ASSUME AuthTypeOK, TokenInv, NEW t \in DOMAIN pairs,
         NEW kind \in {"access", "refresh"}, Refresh(t, kind)
  PROVE  TokenInv'
<1>1. /\ pairs[t].user \in Nat /\ t \in Opt(Nat)
      /\ Consumed(t) \in [PairIds -> Opt(Nat)]
      /\ Issue(pairs[t].user, t, Consumed(t))
      /\ refreshTokens[t] # None /\ refreshTokens[t] = pairs[t].user
  BY RefreshIssues
<1>2. /\ Consumed(t)[t] = None
      /\ \A s \in PairIds : Consumed(t)[s] = refreshTokens[s] \/ Consumed(t)[s] = None
  BY RowTypes, ConsumedType
<1>3. /\ pairs[t].user \in DOMAIN users
      /\ users' = users /\ UNCHANGED <<clock, latest>>
  BY DEF TokenInv, Refresh, accountVars
<1> QED BY <1>1, <1>2, <1>3, IssueKeepsTokens

LEMMA RefusalKeepsTokens ==
  ASSUME AuthTypeOK, TokenInv, NEW t \in DOMAIN pairs,
         NEW kind \in {"access", "refresh"}, RefreshRefused(t, kind)
  PROVE  TokenInv'
<1>1. /\ refreshTokens'[t] = None
      /\ \A s \in PairIds : s # t => refreshTokens'[s] = refreshTokens[s]
  BY RowTypes, ConsumedType DEF RefreshRefused
<1>2. pairs' = pairs /\ users' = users /\ clock' = clock /\ latest' = latest
  BY DEF RefreshRefused, accountVars
<1>3. \A s \in PairIds : refreshTokens'[s] # None => refreshTokens'[s] = refreshTokens[s]
  BY <1>1
<1>4. \A s \in DOMAIN pairs : pairs[s].from # None => pairs[s].from \in PairIds
  <2> SUFFICES ASSUME NEW s \in DOMAIN pairs, pairs[s].from # None
               PROVE  pairs[s].from \in PairIds
    OBVIOUS
  <2>1. DOMAIN pairs = 1 .. Len(pairs) /\ Len(pairs) \in Nat /\ Len(pairs) <= MaxPairs
    BY LenProperties DEF AuthTypeOK
  <2>2. pairs[s].from \in 1 .. s - 1
    BY DEF TokenInv, StoredTokensSound
  <2> QED BY <2>1, <2>2, AuthAssumption DEF PairIds
<1>5. StoredTokensSound'
  BY <1>1, <1>2, <1>3, <1>4 DEF TokenInv, StoredTokensSound
<1> QED BY <1>2, <1>5 DEF TokenInv, SpentOnce

LEMMA TokenInvariant == AuthSpec => []TokenInv
<1>1. AuthInit => TokenInv
  BY DEF AuthInit, TokenInv, SpentOnce, StoredTokensSound
<1>2. AuthTypeOK /\ IndexExact /\ TokenInv /\ [AuthNext]_authVars => TokenInv'
  <2> SUFFICES ASSUME AuthTypeOK, IndexExact, TokenInv, [AuthNext]_authVars
               PROVE  TokenInv'
    OBVIOUS
  <2>1. ASSUME DOMAIN users' = DOMAIN users, UNCHANGED tokenVars,
               latest' >= latest, clock' <= latest', latest' \in Nat
        PROVE  TokenInv'
    <3>1. /\ SpentOnce' /\ StoredTokensSound'
      BY <2>1 DEF TokenInv, SpentOnce, StoredTokensSound, tokenVars
    <3>2. \A t \in DOMAIN pairs : pairs[t].iat \in Nat
      BY RowTypes DEF PairRecord
    <3>3. \A t \in DOMAIN pairs' :
            pairs'[t].user \in DOMAIN users' /\ pairs'[t].iat <= latest'
      BY <2>1, <3>2 DEF TokenInv, tokenVars, AuthTypeOK
    <3> QED BY <2>1, <3>1, <3>3 DEF TokenInv
  <2>2. ASSUME NEW u \in UserIds, NEW status \in {"active", "blocked"},
               SetStatus(u, status)
        PROVE  TokenInv'
    <3>1. DOMAIN users' = DOMAIN users
      BY <2>2, StatusSet
    <3> QED BY <2>1, <2>2, <3>1 DEF SetStatus, TokenInv, AuthTypeOK
  <2>3. CASE Tick
    BY <2>1, <2>3 DEF Tick, TokenInv, AuthTypeOK, accountVars
  <2>4. CASE SetBack
    BY <2>1, <2>4 DEF SetBack, TokenInv, AuthTypeOK, accountVars
  <2>5. CASE UNCHANGED authVars
    BY <2>1, <2>5 DEF authVars, TokenInv, AuthTypeOK, accountVars
  <2> QED BY <2>2, <2>3, <2>4, <2>5, RegisterKeepsTokens, LoginKeepsTokens,
             RefreshKeepsTokens, RefusalKeepsTokens DEF AuthNext
<1> QED BY <1>1, <1>2, AuthTypeCorrect, IndexCorrect, PTL DEF AuthSpec

\* However many copies of a refresh token are presented, one is exchanged.
THEOREM SpentCorrect == AuthSpec => []SpentOnce
<1>1. TokenInv => SpentOnce
  BY DEF TokenInv
<1> QED BY <1>1, TokenInvariant, PTL

\* A stored token is unspent and belongs to the user it names.
THEOREM StoredCorrect == AuthSpec => []StoredTokensSound
<1>1. TokenInv => StoredTokensSound
  BY DEF TokenInv
<1> QED BY <1>1, TokenInvariant, PTL

\* A clock set back within the tolerance makes no token look too new.
THEOREM SkewCorrect == AuthSpec => []SkewTolerated
<1>1. AuthTypeOK /\ TokenInv => SkewTolerated
  <2> SUFFICES ASSUME AuthTypeOK, TokenInv, latest - clock <= Skew,
                      NEW t \in DOMAIN pairs
               PROVE  /\ DecodeVerdict(t, "refresh", "refresh") \in
                           {"valid", "TOKEN_EXPIRED"}
                      /\ AccessVerdict(t, "access") \in
                           {"authenticated", "TOKEN_EXPIRED", "USER_BLOCKED"}
    BY DEF SkewTolerated
  <2>1. /\ pairs[t].iat \in Nat /\ pairs[t].iat <= latest
        /\ pairs[t].user \in DOMAIN users
    BY RowTypes DEF PairRecord, TokenInv
  <2>2. ~(clock + Skew < pairs[t].iat) /\ ~(pairs[t].iat > clock + Skew)
    BY <2>1, AuthAssumption DEF AuthTypeOK
  <2>3. \A kind \in {"access", "refresh"} :
          DecodeVerdict(t, kind, kind) \in {"valid", "TOKEN_EXPIRED"}
    BY <2>2 DEF DecodeVerdict
  <2> QED BY <2>1, <2>3 DEF AccessVerdict
<1> QED BY <1>1, AuthTypeCorrect, TokenInvariant, PTL

\* A session ends by an exchange or by a presentation while blocked only.
THEOREM SessionEndsCorrect == AuthSpec => SessionEndsExplained
<1>1. AuthTypeOK /\ TokenInv /\ [AuthNext]_authVars =>
        [\A t \in PairIds :
           refreshTokens[t] # None /\ refreshTokens'[t] = None =>
             \/ ~Active(refreshTokens[t])
             \/ \E s \in DOMAIN pairs' \ DOMAIN pairs : pairs'[s].from = t]_authVars
  <2> SUFFICES ASSUME AuthTypeOK, TokenInv, [AuthNext]_authVars, NEW t \in PairIds,
                      refreshTokens[t] # None, refreshTokens'[t] = None
               PROVE  \/ ~Active(refreshTokens[t])
                      \/ \E s \in DOMAIN pairs' \ DOMAIN pairs : pairs'[s].from = t
    OBVIOUS
  <2>1. ASSUME NEW u \in Nat, Issue(u, None, refreshTokens) PROVE FALSE
    <3>1. None \in Opt(Nat) /\ refreshTokens \in [PairIds -> Opt(Nat)]
      BY DEF AuthTypeOK, Opt
    <3>2. /\ refreshTokens'[Len(pairs) + 1] = u
          /\ \A s \in PairIds : s # Len(pairs) + 1 => refreshTokens'[s] = refreshTokens[s]
      BY <2>1, <3>1, Issued
    <3> QED BY <2>1, <3>2, AuthAssumption
  <2>2. ASSUME NEW x \in DOMAIN pairs, NEW kind \in {"access", "refresh"},
               Refresh(x, kind)
        PROVE  \E s \in DOMAIN pairs' \ DOMAIN pairs : pairs'[s].from = t
    <3> DEFINE id == Len(pairs) + 1
    <3>1. /\ pairs[x].user \in Nat /\ x \in Opt(Nat)
          /\ Consumed(x) \in [PairIds -> Opt(Nat)]
          /\ Issue(pairs[x].user, x, Consumed(x))
      BY <2>2, RefreshIssues
    <3>2. /\ id \in DOMAIN pairs' \ DOMAIN pairs
          /\ pairs'[id] = [user |-> pairs[x].user, iat |-> clock, from |-> x]
          /\ refreshTokens'[id] = pairs[x].user
          /\ \A s \in PairIds : s # id => refreshTokens'[s] = Consumed(x)[s]
      BY <3>1, Issued
    <3>3. \A s \in PairIds : s # x => Consumed(x)[s] = refreshTokens[s]
      BY RowTypes, ConsumedType
    <3> HIDE DEF id
    <3>4. t # id
      BY <3>1, <3>2, AuthAssumption
    <3>5. t = x
      BY <3>2, <3>3, <3>4
    <3> QED BY <3>2, <3>5
  <2>3. ASSUME NEW x \in DOMAIN pairs, NEW kind \in {"access", "refresh"},
               RefreshRefused(x, kind)
        PROVE  ~Active(refreshTokens[t])
    <3>1. x = t
      BY <2>3, RowTypes, ConsumedType DEF RefreshRefused
    <3>2. refreshTokens[t] = pairs[t].user
      BY DEF TokenInv, StoredTokensSound
    <3>3. RefreshVerdict(t, kind) = "USER_BLOCKED"
      BY <2>3, <3>1, <3>2 DEF RefreshRefused, RefreshVerdict, DecodeVerdict, TokenInv
    <3>4. ~Active(pairs[t].user)
      BY <3>3 DEF RefreshVerdict, DecodeVerdict
    <3> QED BY <3>2, <3>4
  <2>4. ASSUME UNCHANGED refreshTokens PROVE FALSE
    BY <2>4
  <2>5. ASSUME NEW e \in Emails, NEW n \in Names, Register(e, n) PROVE FALSE
    BY <2>1, <2>5, RegisterIssues
  <2>6. ASSUME NEW e \in Emails, Login(e) PROVE FALSE
    BY <2>1, <2>6, LoginIssues
  <2> QED BY <2>2, <2>3, <2>4, <2>5, <2>6
             DEF AuthNext, authVars, tokenVars, SetStatus, Tick, SetBack
<1> QED BY <1>1, AuthTypeCorrect, TokenInvariant, PTL DEF AuthSpec, SessionEndsExplained
=============================================================================
