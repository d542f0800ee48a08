------------------------- MODULE ConservationProofs -------------------------
(***************************************************************************)
(* What is conserved: money between top-ups, wallets and purchases, units  *)
(* of an item between purchases and inventories.  Both are sums over the   *)
(* rows of a table, so the module starts with what it takes to reason      *)
(* about a sum over a finite set.                                          *)
(***************************************************************************)
EXTENDS SchemaProofs, FiniteSetTheorems

-----------------------------------------------------------------------------
(* Induction and sums *)

\* A set of naturals that is not empty has a least element.
LEMMA LeastElement ==
  ASSUME NEW T \in SUBSET Nat, T # {}
  PROVE  \E x \in T : \A y \in T : x <= y
<1> DEFINE Before == {ss \in Nat \X Nat : ss[1] < ss[2]}
<1>1. IsWellFoundedOn(Before, Nat)
  BY NatLessThanWellFounded DEF OpToRel
<1>2. \A x, y \in Nat : y < x => <<y, x>> \in Before
  OBVIOUS
<1> HIDE DEF Before
<1>3. PICK x \in T : \A y \in T : ~ (<<y, x>> \in Before)
  BY <1>1, WFMin
<1>4. ASSUME NEW y \in T PROVE x <= y
  <2>1. x \in Nat /\ y \in Nat
    OBVIOUS
  <2>2. <<y, x>> \notin Before
    BY <1>3
  <2>3. ~ (y < x)
    BY <1>2, <2>1, <2>2
  <2> QED BY <2>1, <2>3
<1> QED BY <1>4

\* Induction over the naturals, with a set for the property: the provers find
\* the instance, which they cannot for a property that is an operator.
LEMMA NatSetInduction ==
  ASSUME NEW N, 0 \in N, \A n \in Nat : n \in N => n + 1 \in N
  PROVE  Nat \subseteq N
<1> SUFFICES ASSUME Nat \ N # {} PROVE FALSE
  OBVIOUS
<1>1. PICK m \in Nat \ N : \A n \in Nat \ N : m <= n
  BY LeastElement
<1>2. m # 0 /\ m - 1 \in Nat
  BY <1>1
<1>3. m - 1 \in N
  BY <1>1, <1>2
<1> QED BY <1>1, <1>2, <1>3

Choice(s) == CHOOSE x \in s : TRUE

\* g holds the sums of f over the sets of D.
Sums(f, D, g) ==
  g = [s \in D |-> IF s = {} THEN 0
                   ELSE f[Choice(s)] + g[s \ {Choice(s)}]]

LEMMA ChoiceIn == ASSUME NEW s, s # {} PROVE Choice(s) \in s
BY DEF Choice

LEMMA SumUnfolds ==
  ASSUME NEW f, NEW S
  PROVE  SumFunctionOnSet(f, S) = (CHOOSE g : Sums(f, SUBSET S, g))[S]
BY DEF SumFunctionOnSet, FoldFunctionOnSet, MapThenFoldSet, Sums, Choice

\* The sums exist.
LEMMA SumsExist ==
  ASSUME NEW f, NEW S, IsFiniteSet(S)
  PROVE  \E g : Sums(f, SUBSET S, g)
<1> DEFINE Small(n) == {s \in SUBSET S : Cardinality(s) <= n}
           N == {n \in Nat : \E g : Sums(f, Small(n), g)}
<1>1. \A s \in SUBSET S : IsFiniteSet(s) /\ Cardinality(s) \in Nat
  BY FS_Subset, FS_CardinalityType
<1>2. \A s \in SUBSET S : Cardinality(s) = 0 => s = {}
  BY <1>1, FS_EmptySet
<1>3. 0 \in N
  <2>1. \A s \in Small(0) : s = {}
    BY <1>1, <1>2
  <2>2. Sums(f, Small(0), [s \in Small(0) |-> 0])
    BY <2>1 DEF Sums
  <2> QED BY <2>2
<1>4. ASSUME NEW n \in Nat, n \in N PROVE n + 1 \in N
  <2>1. PICK g : Sums(f, Small(n), g)
    BY <1>4
  <2> DEFINE h == [s \in Small(n + 1) |->
                     IF s = {} THEN 0 ELSE f[Choice(s)] + g[s \ {Choice(s)}]]
  <2>2. ASSUME NEW s \in Small(n + 1), s # {}
        PROVE  s \ {Choice(s)} \in Small(n) /\ s \ {Choice(s)} \in Small(n + 1)
    <3>1. Cardinality(s \ {Choice(s)}) = Cardinality(s) - 1
      BY <1>1, <2>2, ChoiceIn, FS_RemoveElement
    <3> QED BY <1>1, <3>1
  <2> HIDE DEF Small
  <2>3. ASSUME NEW s \in Small(n), s \in Small(n + 1) PROVE h[s] = g[s]
    BY <2>1, <2>3 DEF Sums
  <2>4. \A s \in Small(n + 1) : s # {} => h[s \ {Choice(s)}] = g[s \ {Choice(s)}]
    BY <2>2, <2>3
  <2>5. Sums(f, Small(n + 1), h)
    BY <2>4 DEF Sums
  <2> QED BY <2>5
<1>5. Cardinality(S) \in N
  <2> HIDE DEF N
  <2> QED BY <1>1, <1>3, <1>4, NatSetInduction
<1>6. Small(Cardinality(S)) = SUBSET S
  BY <1>1, FS_Subset
<1> QED BY <1>5, <1>6

Agree(f, g, S) == \A x \in S : f[x] = g[x]

\* Sums of functions that agree are equal.
LEMMA SumsAgree ==
  ASSUME NEW f, NEW g, NEW S, NEW F, NEW G, NEW T \in SUBSET S, IsFiniteSet(S),
         Sums(f, SUBSET S, F), Sums(g, SUBSET T, G), Agree(f, g, T)
  PROVE  F[T] = G[T]
<1> DEFINE N == {n \in Nat : \A s \in SUBSET T : Cardinality(s) = n => F[s] = G[s]}
<1>1. \A s \in SUBSET T : IsFiniteSet(s) /\ Cardinality(s) \in Nat
  BY FS_Subset, FS_CardinalityType
<1>2. 0 \in N
  BY <1>1, FS_EmptySet DEF Sums
<1>3. ASSUME NEW n \in Nat, n \in N PROVE n + 1 \in N
  <2> SUFFICES ASSUME NEW s \in SUBSET T, Cardinality(s) = n + 1 PROVE F[s] = G[s]
    OBVIOUS
  <2> DEFINE c == Choice(s)
  <2>1. s # {}
    BY FS_EmptySet
  <2>2. c \in T /\ c \in s
    BY <2>1, ChoiceIn
  <2>3. s \ {c} \in SUBSET T /\ Cardinality(s \ {c}) = n
    <3> HIDE DEF c
    <3>1. Cardinality(s \ {c}) = Cardinality(s) - 1
      BY <1>1, <2>2, FS_RemoveElement
    <3> QED BY <3>1
  <2>4. F[s \ {c}] = G[s \ {c}]
    BY <1>3, <2>3
  <2>5. F[s] = f[c] + F[s \ {c}] /\ G[s] = g[c] + G[s \ {c}]
    BY <2>1 DEF Sums
  <2> QED BY <2>2, <2>4, <2>5 DEF Agree
<1>4. Cardinality(T) \in N
  <2> HIDE DEF N
  <2> QED BY <1>1, <1>2, <1>3, NatSetInduction
<1> QED BY <1>4

\* The sum over a set is that of some such g.
LEMMA SumIs ==
  ASSUME NEW f, NEW S, IsFiniteSet(S), NEW T \in SUBSET S
  PROVE  \E F : Sums(f, SUBSET S, F) /\ F[T] = SumFunctionOnSet(f, T)
<1>1. PICK F : Sums(f, SUBSET S, F)
  BY SumsExist
<1> DEFINE G == CHOOSE g : Sums(f, SUBSET T, g)
<1>2. Sums(f, SUBSET T, G)
  BY SumsExist, FS_Subset
<1>3. SumFunctionOnSet(f, T) = G[T]
  BY SumUnfolds
<1>4. Agree(f, f, T)
  BY DEF Agree
<1> HIDE DEF G
<1>5. F[T] = G[T]
  BY <1>1, <1>2, <1>4, SumsAgree
<1> QED BY <1>1, <1>3, <1>5

\* Equal terms have equal sums.
LEMMA SumEqual ==
  ASSUME NEW f, NEW g, NEW S, IsFiniteSet(S), \A x \in S : f[x] = g[x]
  PROVE  SumFunctionOnSet(f, S) = SumFunctionOnSet(g, S)
<1>1. PICK F : Sums(f, SUBSET S, F) /\ F[S] = SumFunctionOnSet(f, S)
  BY SumIs
<1>2. PICK G : Sums(g, SUBSET S, G) /\ G[S] = SumFunctionOnSet(g, S)
  BY SumIs
<1>3. Agree(f, g, S)
  BY DEF Agree
<1>4. F[S] = G[S]
  BY <1>1, <1>2, <1>3, SumsAgree
<1> QED BY <1>1, <1>2, <1>4

LEMMA SumEmpty == ASSUME NEW f PROVE SumFunctionOnSet(f, {}) = 0
<1>1. PICK F : Sums(f, SUBSET {}, F) /\ F[{}] = SumFunctionOnSet(f, {})
  BY SumIs, FS_EmptySet
<1> QED BY <1>1 DEF Sums

LEMMA SumChoice ==
  ASSUME NEW f, NEW S, IsFiniteSet(S), S # {}
  PROVE  SumFunctionOnSet(f, S) = f[Choice(S)] + SumFunctionOnSet(f, S \ {Choice(S)})
<1> DEFINE R == S \ {Choice(S)}
<1>1. PICK F : Sums(f, SUBSET S, F) /\ F[S] = SumFunctionOnSet(f, S)
  BY SumIs
<1>2. PICK G : Sums(f, SUBSET R, G) /\ G[R] = SumFunctionOnSet(f, R)
  BY SumIs, FS_RemoveElement
<1>3. F[R] = G[R]
  <2>1. R \in SUBSET S /\ Agree(f, f, R)
    BY DEF Agree
  <2> HIDE DEF R
  <2> QED BY <1>1, <1>2, <2>1, SumsAgree
<1>4. F[S] = f[Choice(S)] + F[R]
  BY <1>1 DEF Sums
<1> QED BY <1>1, <1>2, <1>3, <1>4

\* A sum of integers is an integer, ...
LEMMA SumType ==
  ASSUME NEW f, NEW S, IsFiniteSet(S), \A x \in S : f[x] \in Int
  PROVE  SumFunctionOnSet(f, S) \in Int
<1> DEFINE N == {n \in Nat : \A s \in SUBSET S :
                   Cardinality(s) = n => SumFunctionOnSet(f, s) \in Int}
<1>1. \A s \in SUBSET S : IsFiniteSet(s) /\ Cardinality(s) \in Nat
  BY FS_Subset, FS_CardinalityType
<1>2. 0 \in N
  BY <1>1, SumEmpty, FS_EmptySet
<1>3. ASSUME NEW n \in Nat, n \in N PROVE n + 1 \in N
  <2> SUFFICES ASSUME NEW s \in SUBSET S, Cardinality(s) = n + 1
               PROVE  SumFunctionOnSet(f, s) \in Int
    OBVIOUS
  <2> DEFINE c == Choice(s)
  <2>1. s # {}
    BY FS_EmptySet
  <2>2. c \in s /\ SumFunctionOnSet(f, s) = f[c] + SumFunctionOnSet(f, s \ {c})
    BY <1>1, <2>1, ChoiceIn, SumChoice
  <2> HIDE DEF c
  <2>3. Cardinality(s \ {c}) = Cardinality(s) - 1
    BY <1>1, <2>2, FS_RemoveElement
  <2>4. SumFunctionOnSet(f, s \ {c}) \in Int
    BY <1>3, <2>3
  <2> QED BY <2>2, <2>4
<1>4. Cardinality(S) \in N
  <2> HIDE DEF N
  <2> QED BY <1>1, <1>2, <1>3, NatSetInduction
<1> QED BY <1>4

\* ... and any of its terms can be taken out.
LEMMA SumRemove ==
  ASSUME NEW f, NEW S, IsFiniteSet(S), \A x \in S : f[x] \in Int, NEW a \in S
  PROVE  SumFunctionOnSet(f, S) = f[a] + SumFunctionOnSet(f, S \ {a})
<1> DEFINE Out(s, x) ==
             SumFunctionOnSet(f, s) = f[x] + SumFunctionOnSet(f, s \ {x})
           N == {n \in Nat : \A s \in SUBSET S :
                   Cardinality(s) = n => \A x \in s : Out(s, x)}
<1>1. \A s \in SUBSET S : IsFiniteSet(s) /\ Cardinality(s) \in Nat
  BY FS_Subset, FS_CardinalityType
<1>2. 0 \in N
  BY <1>1, FS_EmptySet
<1>3. ASSUME NEW n \in Nat, n \in N PROVE n + 1 \in N
  <2> SUFFICES ASSUME NEW s \in SUBSET S, Cardinality(s) = n + 1, NEW x \in s
               PROVE  Out(s, x)
    OBVIOUS
  <2> DEFINE c == Choice(s)
             rest == s \ {c, x}
  <2>1. s # {}
    BY FS_EmptySet
  <2>2. c \in s /\ Out(s, c)
    BY <1>1, <2>1, ChoiceIn, SumChoice
  <2> HIDE DEF c
  <2>3. Cardinality(s \ {c}) = n /\ Cardinality(s \ {x}) = n
    <3>1. /\ Cardinality(s \ {c}) = Cardinality(s) - 1
          /\ Cardinality(s \ {x}) = Cardinality(s) - 1
      BY <1>1, <2>2, FS_RemoveElement
    <3> QED BY <3>1
  <2>4. CASE x # c
    <3>1. (s \ {c}) \ {x} = rest /\ (s \ {x}) \ {c} = rest
      OBVIOUS
    <3>2. Out(s \ {c}, x) /\ Out(s \ {x}, c)
      BY <1>3, <2>2, <2>3, <2>4
    <3>3. /\ f[c] \in Int /\ f[x] \in Int
          /\ SumFunctionOnSet(f, rest) \in Int
      <4>1. rest \in SUBSET S
        OBVIOUS
      <4> HIDE DEF rest
      <4>2. f[c] \in Int /\ f[x] \in Int
        BY <2>2
      <4> QED BY <1>1, <4>1, <4>2, SumType
    <3> HIDE DEF rest
    <3> QED BY <2>2, <3>1, <3>2, <3>3
  <2> QED BY <2>2, <2>4
<1>4. Cardinality(S) \in N
  <2> HIDE DEF N
  <2> QED BY <1>1, <1>2, <1>3, NatSetInduction
<1> QED BY <1>4

\* A sum of naturals is a natural, no smaller than any of its terms.
LEMMA SumOfNaturals ==
  ASSUME NEW f, NEW S, IsFiniteSet(S), \A x \in S : f[x] \in Nat
  PROVE  /\ SumFunctionOnSet(f, S) \in Nat
         /\ \A x \in S : SumFunctionOnSet(f, S) >= f[x]
<1> DEFINE N == {n \in Nat : \A s \in SUBSET S :
                   Cardinality(s) = n => SumFunctionOnSet(f, s) \in Nat}
<1>1. \A s \in SUBSET S : IsFiniteSet(s) /\ Cardinality(s) \in Nat
  BY FS_Subset, FS_CardinalityType
<1>2. 0 \in N
  BY <1>1, SumEmpty, FS_EmptySet
<1>3. ASSUME NEW n \in Nat, n \in N PROVE n + 1 \in N
  <2> SUFFICES ASSUME NEW s \in SUBSET S, Cardinality(s) = n + 1
               PROVE  SumFunctionOnSet(f, s) \in Nat
    OBVIOUS
  <2>1. PICK c \in s : TRUE
    BY FS_EmptySet
  <2>2. Cardinality(s \ {c}) = Cardinality(s) - 1
    BY <1>1, FS_RemoveElement
  <2>3. SumFunctionOnSet(f, s \ {c}) \in Nat
    BY <1>3, <2>2
  <2>4. SumFunctionOnSet(f, s) = f[c] + SumFunctionOnSet(f, s \ {c})
    BY <1>1, SumRemove
  <2> QED BY <2>3, <2>4
<1>4. \A s \in SUBSET S : SumFunctionOnSet(f, s) \in Nat
  <2>1. Nat \subseteq N
    <3> HIDE DEF N
    <3> QED BY <1>2, <1>3, NatSetInduction
  <2> QED BY <1>1, <2>1
<1>5. \A x \in S : /\ SumFunctionOnSet(f, S) = f[x] + SumFunctionOnSet(f, S \ {x})
                   /\ SumFunctionOnSet(f, S \ {x}) \in Nat
  BY <1>4, SumRemove
<1>6. SumFunctionOnSet(f, S) \in Nat
  BY <1>4
<1>7. ASSUME NEW x \in S PROVE SumFunctionOnSet(f, S) >= f[x]
  <2> DEFINE sum == SumFunctionOnSet(f, S)
             rest == SumFunctionOnSet(f, S \ {x})
  <2>1. sum = f[x] + rest /\ rest \in Nat /\ f[x] \in Nat
    BY <1>5
  <2> HIDE DEF sum, rest
  <2> QED BY <2>1 DEF sum
<1> QED BY <1>6, <1>7

\* A table gains a row, ...
LEMMA SumGrows ==
  ASSUME NEW f, NEW g, NEW S, IsFiniteSet(S), NEW x, x \notin S,
         \A y \in S : f[y] = g[y] /\ g[y] \in Int, g[x] \in Int
  PROVE  SumFunctionOnSet(g, S \cup {x}) = SumFunctionOnSet(f, S) + g[x]
<1> DEFINE T == S \cup {x}
<1>1. IsFiniteSet(T) /\ x \in T /\ (\A y \in T : g[y] \in Int) /\ T \ {x} = S
  BY FS_AddElement
<1> HIDE DEF T
<1>2. SumFunctionOnSet(g, T) = g[x] + SumFunctionOnSet(g, S)
  BY <1>1, SumRemove
<1>3. SumFunctionOnSet(f, S) = SumFunctionOnSet(g, S)
  BY SumEqual
<1>4. SumFunctionOnSet(g, S) \in Int
  BY SumType
<1> QED BY <1>2, <1>3, <1>4 DEF T

\* ... or one of its rows no longer counts.
LEMMA SumShrinks ==
  ASSUME NEW f, NEW S, IsFiniteSet(S), NEW x \in S, \A y \in S : f[y] \in Int
  PROVE  SumFunctionOnSet(f, S \ {x}) = SumFunctionOnSet(f, S) - f[x]
<1>1. SumFunctionOnSet(f, S) = f[x] + SumFunctionOnSet(f, S \ {x})
  BY SumRemove
<1>2. SumFunctionOnSet(f, S \ {x}) \in Int
  BY SumType, FS_RemoveElement
<1> QED BY <1>1, <1>2

-----------------------------------------------------------------------------
(* The open purchases of a user *)

Quantity == [p \in DOMAIN purchases |-> purchases[p].quantity]
Cost     == [p \in DOMAIN purchases |-> purchases[p].total]
OpenOf(u, i) == {p \in OpenPurchasesOf(u) : purchases[p].item = i}

\* What the sums are taken of: finite sets, and naturals.
LEMMA OpenTyped ==
  ASSUME TypeOK, NEW u
  PROVE  /\ IsFiniteSet(OpenPurchasesOf(u))
         /\ \A i : IsFiniteSet(OpenOf(u, i)) /\ OpenOf(u, i) \subseteq OpenPurchasesOf(u)
         /\ \A p \in OpenPurchasesOf(u) : /\ p \in DOMAIN purchases
                                          /\ Quantity[p] = purchases[p].quantity
                                          /\ Quantity[p] \in Nat
                                          /\ Cost[p] = purchases[p].total
                                          /\ Cost[p] \in Nat
<1>1. DOMAIN purchases = 1 .. Len(purchases) /\ Len(purchases) \in Nat
  BY LenProperties DEF TypeOK
<1>2. IsFiniteSet(DOMAIN purchases)
  BY <1>1, FS_Interval
<1>3. OpenPurchasesOf(u) \in SUBSET DOMAIN purchases
      /\ \A i : /\ OpenOf(u, i) \in SUBSET DOMAIN purchases
               /\ OpenOf(u, i) \subseteq OpenPurchasesOf(u)
  BY DEF OpenPurchasesOf, OpenOf
<1>4. \A p \in DOMAIN purchases : purchases[p] \in PurchaseRecord
  BY PurchaseType
<1> QED BY <1>2, <1>3, <1>4, FS_Subset DEF Quantity, Cost, PurchaseRecord

\* A purchase adds one to those of its buyer, ...
LEMMA OpenAfterPurchase ==
  ASSUME TypeOK, NEW u \in Users, NEW i \in ItemIds, NEW q \in Quantities,
         NEW k \in Keys, BuyNew(u, i, q, k)
  PROVE  LET new == Len(purchases) + 1 IN
         /\ new \notin DOMAIN purchases
         /\ Quantity'[new] = q /\ Cost'[new] = Total(i, q)
         /\ q \in Nat /\ Total(i, q) \in Nat
         /\ \A p \in DOMAIN purchases :
              Quantity'[p] = Quantity[p] /\ Cost'[p] = Cost[p]
         /\ OpenPurchasesOf(u)' = OpenPurchasesOf(u) \cup {new}
         /\ OpenOf(u, i)' = OpenOf(u, i) \cup {new}
         /\ \A v : v # u => OpenPurchasesOf(v)' = OpenPurchasesOf(v)
         /\ \A v, j : v # u \/ j # i => OpenOf(v, j)' = OpenOf(v, j)
<1> DEFINE new == Len(purchases) + 1
<1>1. /\ DOMAIN purchases = 1 .. Len(purchases) /\ Len(purchases) \in Nat
      /\ DOMAIN purchases' = 1 .. new
      /\ \A p \in DOMAIN purchases : purchases'[p] = purchases[p]
      /\ purchases'[new] = BoughtRow(u, i, q, k)
  BY BuyNewRows
<1>2. DOMAIN purchases' = DOMAIN purchases \cup {new} /\ new \notin DOMAIN purchases
  BY <1>1
<1>3. /\ purchases'[new].user = u /\ purchases'[new].item = i
      /\ purchases'[new].status = "completed"
      /\ purchases'[new].quantity = q /\ purchases'[new].total = Total(i, q)
  BY <1>1 DEF BoughtRow
<1>4. q \in Nat /\ Total(i, q) \in Nat
  BY CreatedVerdict DEF BuyNew
<1> HIDE DEF new
<1>5. /\ Quantity'[new] = q /\ Cost'[new] = Total(i, q)
      /\ \A p \in DOMAIN purchases :
              Quantity'[p] = Quantity[p] /\ Cost'[p] = Cost[p]
  BY <1>1, <1>2, <1>3 DEF Quantity, Cost
<1>6. /\ OpenPurchasesOf(u)' = OpenPurchasesOf(u) \cup {new}
      /\ \A v : v # u => OpenPurchasesOf(v)' = OpenPurchasesOf(v)
  BY <1>1, <1>2, <1>3 DEF OpenPurchasesOf
<1>7. /\ OpenOf(u, i)' = OpenOf(u, i) \cup {new}
      /\ \A v, j : v # u \/ j # i => OpenOf(v, j)' = OpenOf(v, j)
  BY <1>1, <1>2, <1>3 DEF OpenPurchasesOf, OpenOf
<1> QED BY <1>2, <1>4, <1>5, <1>6, <1>7 DEF new

\* ... and a refund takes one away.
LEMMA OpenAfterRefund ==
  ASSUME TypeOK, NEW actor \in Users, NEW p \in PurchaseIds,
         RequestRefund(actor, p)
  PROVE  LET u == purchases[p].user
             i == purchases[p].item
         IN
         /\ p \in OpenPurchasesOf(u) /\ p \in OpenOf(u, i)
         /\ Quantity' = Quantity /\ Cost' = Cost
         /\ \A v : p \in OpenPurchasesOf(v) => v = u
         /\ \A v, j : p \in OpenOf(v, j) => v = u /\ j = i
         /\ \A v : OpenPurchasesOf(v)' = OpenPurchasesOf(v) \ {p}
         /\ \A v, j : OpenOf(v, j)' = OpenOf(v, j) \ {p}
<1>1. /\ p \in DOMAIN purchases /\ purchases[p] \in PurchaseRecord
      /\ DOMAIN purchases' = DOMAIN purchases
      /\ \A x \in DOMAIN purchases : x # p => purchases'[x] = purchases[x]
      /\ purchases'[p] = [purchases[p] EXCEPT !.status = "refunded"]
      /\ purchases[p].status = "completed"
  BY RefundRows, PurchaseType
<1>2. /\ purchases'[p].status # "completed" /\ purchases'[p].user = purchases[p].user
      /\ purchases'[p].item = purchases[p].item
      /\ purchases'[p].quantity = purchases[p].quantity
      /\ purchases'[p].total = purchases[p].total
  BY <1>1 DEF PurchaseRecord
<1>3. Quantity' = Quantity /\ Cost' = Cost
  BY <1>1, <1>2 DEF Quantity, Cost
<1>4. /\ p \in OpenPurchasesOf(purchases[p].user)
      /\ p \in OpenOf(purchases[p].user, purchases[p].item)
      /\ \A v : p \in OpenPurchasesOf(v) => v = purchases[p].user
      /\ \A v, j : p \in OpenOf(v, j) => v = purchases[p].user /\ j = purchases[p].item
  BY <1>1 DEF OpenPurchasesOf, OpenOf
<1>5. \A v : OpenPurchasesOf(v)' = OpenPurchasesOf(v) \ {p}
  <2> SUFFICES ASSUME NEW v, NEW x
               PROVE  x \in OpenPurchasesOf(v)' <=> x \in OpenPurchasesOf(v) /\ x # p
    OBVIOUS
  <2>1. CASE x = p
    BY <1>2, <2>1 DEF OpenPurchasesOf
  <2>2. CASE x # p
    BY <1>1, <2>2 DEF OpenPurchasesOf
  <2> QED BY <2>1, <2>2
<1>6. \A v, j : OpenOf(v, j)' = OpenOf(v, j) \ {p}
  <2> SUFFICES ASSUME NEW v, NEW j, NEW x
               PROVE  x \in OpenOf(v, j)' <=> x \in OpenOf(v, j) /\ x # p
    OBVIOUS
  <2>1. x \in OpenPurchasesOf(v)' <=> x \in OpenPurchasesOf(v) /\ x # p
    BY <1>5
  <2>2. x \in OpenPurchasesOf(v)' => purchases'[x].item = purchases[x].item
    BY <1>1, <1>2 DEF OpenPurchasesOf
  <2> QED BY <2>1, <2>2 DEF OpenOf
<1> QED BY <1>3, <1>4, <1>5, <1>6

-----------------------------------------------------------------------------
(* Units: what a user owns is what the open purchases delivered *)

LEMMA InventoryStays ==
  ASSUME InventoryExact, UNCHANGED <<purchases, inventory>> PROVE InventoryExact'
BY DEF InventoryExact, OpenPurchasesOf

LEMMA BuyNewKeepsInventory ==
  ASSUME TypeOK, InventoryExact, NEW u \in Users, NEW i \in ItemIds,
         NEW q \in Quantities, NEW k \in Keys, BuyNew(u, i, q, k)
  PROVE  InventoryExact'
<1> SUFFICES ASSUME NEW v \in Users, NEW j \in ItemIds
             PROVE  inventory'[v][j] = SumFunctionOnSet(Quantity', OpenOf(v, j)')
  BY DEF InventoryExact, Quantity, OpenOf
<1> DEFINE new == Len(purchases) + 1
<1>1. inventory[v][j] = SumFunctionOnSet(Quantity, OpenOf(v, j))
  BY DEF InventoryExact, Quantity, OpenOf
<1>2. inventory' = [inventory EXCEPT ![u][i] = @ + q] /\ inventory[v][j] \in Nat
  BY DEF BuyNew, TypeOK
<1>3. /\ new \notin DOMAIN purchases /\ Quantity'[new] = q /\ q \in Nat
      /\ \A p \in DOMAIN purchases : Quantity'[p] = Quantity[p]
      /\ OpenOf(u, i)' = OpenOf(u, i) \cup {new}
      /\ v # u \/ j # i => OpenOf(v, j)' = OpenOf(v, j)
  BY OpenAfterPurchase
<1>4. /\ IsFiniteSet(OpenOf(v, j)) /\ new \notin OpenOf(v, j)
      /\ \A p \in OpenOf(v, j) : Quantity[p] = Quantity'[p] /\ Quantity'[p] \in Int
  BY <1>3, OpenTyped
<1> HIDE DEF new
<1>5. CASE v = u /\ j = i
  <2>1. SumFunctionOnSet(Quantity', OpenOf(v, j) \cup {new}) =
          SumFunctionOnSet(Quantity, OpenOf(v, j)) + Quantity'[new]
    BY <1>3, <1>4, SumGrows
  <2>2. inventory'[v][j] = inventory[v][j] + q
    BY <1>2, <1>5 DEF TypeOK
  <2> QED BY <1>1, <1>3, <1>5, <2>1, <2>2
<1>6. CASE v # u \/ j # i
  <2>1. SumFunctionOnSet(Quantity', OpenOf(v, j)) = SumFunctionOnSet(Quantity, OpenOf(v, j))
    BY <1>4, SumEqual
  <2>2. inventory'[v][j] = inventory[v][j]
    BY <1>2, <1>6 DEF TypeOK
  <2> QED BY <1>1, <1>3, <1>6, <2>1, <2>2
<1> QED BY <1>5, <1>6

\* What InventoryExact says of one open purchase: its units are still there,
\* however many others of the same user and item were refunded.
LEMMA OpenIsHeld ==
  ASSUME TypeOK, InventoryExact, NEW p \in DOMAIN purchases,
         purchases[p].status = "completed"
  PROVE  Held(p) >= purchases[p].quantity
<1> DEFINE u == purchases[p].user
           i == purchases[p].item
<1>1. u \in Users /\ i \in ItemIds
  BY PurchaseType DEF PurchaseRecord
<1>2. p \in OpenOf(u, i) /\ p \in OpenPurchasesOf(u)
  BY DEF OpenOf, OpenPurchasesOf
<1>3. IsFiniteSet(OpenOf(u, i)) /\ \A x \in OpenOf(u, i) : Quantity[x] \in Nat
  BY OpenTyped DEF OpenOf
<1>4. SumFunctionOnSet(Quantity, OpenOf(u, i)) >= Quantity[p]
  <2> HIDE DEF u, i
  <2> QED BY <1>2, <1>3, SumOfNaturals
<1>5. Held(p) = SumFunctionOnSet(Quantity, OpenOf(u, i))
  BY <1>1 DEF InventoryExact, Quantity, OpenOf, Held
<1>6. Quantity[p] = purchases[p].quantity
  BY DEF Quantity
<1> QED BY <1>4, <1>5, <1>6

LEMMA RefundKeepsInventory ==
  ASSUME TypeOK, InventoryExact, NEW actor \in Users, NEW p \in PurchaseIds,
         RequestRefund(actor, p)
  PROVE  InventoryExact'
<1> SUFFICES ASSUME NEW v \in Users, NEW j \in ItemIds
             PROVE  inventory'[v][j] = SumFunctionOnSet(Quantity', OpenOf(v, j)')
  BY DEF InventoryExact, Quantity, OpenOf
<1> DEFINE u == purchases[p].user
           i == purchases[p].item
           q == purchases[p].quantity
<1>1. inventory[v][j] = SumFunctionOnSet(Quantity, OpenOf(v, j))
  BY DEF InventoryExact, Quantity, OpenOf
<1>2. /\ inventory' = [inventory EXCEPT ![u][i] = Less(@, q)]
      /\ inventory[v][j] \in Nat
  BY DEF RequestRefund, TypeOK
<1>3. /\ p \in OpenPurchasesOf(u) /\ p \in OpenOf(u, i) /\ Quantity' = Quantity
      /\ OpenOf(v, j)' = OpenOf(v, j) \ {p}
      /\ p \in OpenOf(v, j) => v = u /\ j = i
  BY OpenAfterRefund
<1>4. /\ IsFiniteSet(OpenOf(v, j)) /\ \A x \in OpenOf(v, j) : Quantity[x] \in Int
      /\ Quantity[p] = q /\ q \in Nat
  BY <1>3, OpenTyped
<1>5. u \in Users /\ i \in ItemIds /\ inventory[u][i] >= q /\ inventory[u][i] \in Nat
  <2>1. p \in DOMAIN purchases /\ purchases[p].status = "completed"
    BY <1>3 DEF OpenPurchasesOf
  <2> QED BY <2>1, OpenIsHeld, PurchaseType DEF PurchaseRecord, Held, TypeOK
<1>6. CASE v = u /\ j = i
  <2>1. SumFunctionOnSet(Quantity, OpenOf(v, j) \ {p}) =
          SumFunctionOnSet(Quantity, OpenOf(v, j)) - Quantity[p]
    <3>1. p \in OpenOf(v, j)
      BY <1>3, <1>6
    <3> HIDE DEF u, i, q
    <3> QED BY <1>4, <3>1, SumShrinks
  <2>2. inventory'[v][j] = inventory[v][j] - q
    BY <1>2, <1>5, <1>6 DEF TypeOK, Less
  <2> HIDE DEF u, i, q
  <2> QED BY <1>1, <1>3, <1>4, <1>6, <2>1, <2>2
<1>7. CASE v # u \/ j # i
  <2>1. inventory'[v][j] = inventory[v][j] /\ OpenOf(v, j) \ {p} = OpenOf(v, j)
    BY <1>2, <1>3, <1>7 DEF TypeOK
  <2> HIDE DEF u, i, q
  <2> QED BY <1>1, <1>3, <1>7, <2>1
<1> HIDE DEF u, i, q
<1> QED BY <1>6, <1>7

LEMMA InventoryFresh == Fresh => InventoryExact
<1> SUFFICES ASSUME Fresh PROVE InventoryExact
  OBVIOUS
<1>1. \A u : OpenPurchasesOf(u) = {}
  BY DEF Fresh, OpenPurchasesOf
<1>2. \A u, i : SumFunctionOnSet(Quantity, OpenOf(u, i)) = 0
  <2>1. \A u, i : OpenOf(u, i) = {}
    BY <1>1 DEF OpenOf
  <2> QED BY <2>1, SumEmpty
<1> QED BY <1>2 DEF InventoryExact, Quantity, OpenOf, Fresh

LEMMA InventoryNext ==
  TypeOK /\ InventoryExact /\ [Next]_vars => InventoryExact'
<1> SUFFICES ASSUME TypeOK, InventoryExact, [Next]_vars PROVE InventoryExact'
  OBVIOUS
<1>1. \/ UNCHANGED <<purchases, inventory>>
      \/ \E u \in Users, i \in ItemIds, q \in Quantities, k \in Keys :
           BuyNew(u, i, q, k)
      \/ \E actor \in Users, p \in PurchaseIds : RequestRefund(actor, p)
  BY DEF Next, Elsewhere, TopupRequest, AdminRequest, RefundRequest,
     PurchaseRequest, vars, walletVars, orderVars, refundVars, Register,
     GrantAdmin, Topup, CreateItem, EditItem, UpdateItem, DeleteItem,
     ToggleActive, BuyReplay, BuyRefused, Restored, Tick
<1> QED BY <1>1, InventoryStays, BuyNewKeepsInventory, RefundKeepsInventory

\* Whatever was bought, refunded and bought again, by whomever and of however
\* many items: nobody owns a unit too many or too few.
THEOREM InventoryCorrect == Spec => []InventoryExact
<1> QED BY InitFresh, InventoryFresh, InventoryNext, TypeCorrect, PTL DEF Spec

-----------------------------------------------------------------------------
(* Money: a wallet holds what was topped up and is not spent *)

\* BalanceConservation is about registered users only, so a registration would
\* break it if somebody unregistered could have topped up or bought.  For
\* everybody, with a wallet that does not exist yet counted as empty, the
\* balance is inductive.
BalanceExact == \A u \in Users : OpenedBalance(u) = ToppedUp(u) - Spent(u)

Credited == [t \in DOMAIN topups |-> topups[t].amount]
TopupsOf(u) == {t \in DOMAIN topups : topups[t].user = u}

LEMMA TopupsTyped ==
  ASSUME TypeOK, NEW u
  PROVE  /\ IsFiniteSet(TopupsOf(u))
         /\ \A t \in TopupsOf(u) : t \in DOMAIN topups /\ Credited[t] \in Nat
<1>1. DOMAIN topups = 1 .. Len(topups) /\ Len(topups) \in Nat
  BY LenProperties DEF TypeOK
<1>2. IsFiniteSet(DOMAIN topups)
  BY <1>1, FS_Interval
<1>3. \A t \in DOMAIN topups : topups[t] \in TopupRecord
  BY ElementOfSeq, LenProperties DEF TypeOK
<1>4. TopupsOf(u) \in SUBSET DOMAIN topups
  BY DEF TopupsOf
<1> QED BY <1>2, <1>3, <1>4, FS_Subset DEF Credited, TopupRecord

LEMMA BalanceTyped ==
  ASSUME TypeOK, NEW u \in Users
  PROVE  ToppedUp(u) \in Nat /\ Spent(u) \in Nat /\ OpenedBalance(u) \in Nat
<1>1. ToppedUp(u) = SumFunctionOnSet(Credited, TopupsOf(u))
  BY DEF ToppedUp, Credited, TopupsOf
<1>2. Spent(u) = SumFunctionOnSet(Cost, OpenPurchasesOf(u))
  BY DEF Spent, Cost
<1>3. SumFunctionOnSet(Credited, TopupsOf(u)) \in Nat
  BY TopupsTyped, SumOfNaturals
<1>4. SumFunctionOnSet(Cost, OpenPurchasesOf(u)) \in Nat
  BY OpenTyped, SumOfNaturals
<1> QED BY <1>1, <1>2, <1>3, <1>4 DEF OpenedBalance, TypeOK, Optional

\* A top-up adds its amount to what its user topped up.
LEMMA TopupAdds ==
  ASSUME TypeOK, NEW u \in Users, NEW amount \in Amounts,
         NEW ref \in ExternalRefs, Topup(u, amount, ref), NEW v \in Users
  PROVE  /\ amount \in Nat
         /\ ToppedUp(v)' = ToppedUp(v) + (IF v = u THEN amount ELSE 0)
<1> DEFINE row == [user |-> u, amount |-> amount, ref |-> ref]
           new == Len(topups) + 1
<1>1. amount \in Nat /\ row \in TopupRecord
  BY StoreAssumption DEF TopupRecord
<1>2. topups' = Append(topups, row) /\ row.user = u /\ row.amount = amount
  BY DEF Topup
<1>3. DOMAIN topups = 1 .. Len(topups) /\ Len(topups) \in Nat
  BY LenProperties DEF TypeOK
<1> HIDE DEF row
<1>4. /\ DOMAIN topups' = 1 .. new /\ topups'[new] = row
      /\ \A t \in DOMAIN topups : topups'[t] = topups[t]
  BY <1>1, <1>2, RowAppended DEF TypeOK
<1>5. DOMAIN topups' = DOMAIN topups \cup {new} /\ new \notin DOMAIN topups
  BY <1>3, <1>4
<1> HIDE DEF new
<1>6. Credited'[new] = amount /\ \A t \in DOMAIN topups : Credited'[t] = Credited[t]
  BY <1>2, <1>4, <1>5 DEF Credited
<1>7. /\ v = u => TopupsOf(v)' = TopupsOf(v) \cup {new}
      /\ v # u => TopupsOf(v)' = TopupsOf(v)
  BY <1>2, <1>4, <1>5 DEF TopupsOf
<1>8. ToppedUp(v) = SumFunctionOnSet(Credited, TopupsOf(v))
      /\ ToppedUp(v)' = SumFunctionOnSet(Credited', TopupsOf(v)')
  BY DEF ToppedUp, Credited, TopupsOf
<1>9. /\ IsFiniteSet(TopupsOf(v)) /\ new \notin TopupsOf(v)
      /\ \A t \in TopupsOf(v) : Credited[t] = Credited'[t] /\ Credited'[t] \in Int
  BY <1>5, <1>6, TopupsTyped
<1>10. SumFunctionOnSet(Credited', TopupsOf(v) \cup {new}) =
         SumFunctionOnSet(Credited, TopupsOf(v)) + amount
  BY <1>1, <1>6, <1>9, SumGrows
<1>11. SumFunctionOnSet(Credited', TopupsOf(v)) = SumFunctionOnSet(Credited, TopupsOf(v))
  BY <1>9, SumEqual
<1>12. CASE v = u
  BY <1>1, <1>7, <1>8, <1>10, <1>12
<1>13. CASE v # u
  <2>1. ToppedUp(v)' = ToppedUp(v) /\ ToppedUp(v) \in Nat
    BY <1>7, <1>8, <1>11, <1>13, BalanceTyped
  <2> QED BY <1>1, <1>13, <2>1
<1> QED BY <1>12, <1>13

\* A purchase adds its price to what its buyer spent, ...
LEMMA PurchaseSpends ==
  ASSUME TypeOK, NEW u \in Users, NEW i \in ItemIds, NEW q \in Quantities,
         NEW k \in Keys, BuyNew(u, i, q, k), NEW v \in Users
  PROVE  Spent(v)' = Spent(v) + (IF v = u THEN Total(i, q) ELSE 0)
<1> DEFINE new == Len(purchases) + 1
           total == Total(i, q)
<1>1. /\ new \notin DOMAIN purchases /\ Cost'[new] = total /\ total \in Nat
      /\ \A p \in DOMAIN purchases : Cost'[p] = Cost[p]
      /\ v = u => OpenPurchasesOf(v)' = OpenPurchasesOf(v) \cup {new}
      /\ v # u => OpenPurchasesOf(v)' = OpenPurchasesOf(v)
  BY OpenAfterPurchase
<1> HIDE DEF new, total
<1>2. /\ IsFiniteSet(OpenPurchasesOf(v)) /\ new \notin OpenPurchasesOf(v)
      /\ \A p \in OpenPurchasesOf(v) : Cost[p] = Cost'[p] /\ Cost'[p] \in Int
  BY <1>1, OpenTyped
<1>3. SumFunctionOnSet(Cost', OpenPurchasesOf(v) \cup {new}) =
        SumFunctionOnSet(Cost, OpenPurchasesOf(v)) + total
  BY <1>1, <1>2, SumGrows
<1>4. SumFunctionOnSet(Cost', OpenPurchasesOf(v)) =
        SumFunctionOnSet(Cost, OpenPurchasesOf(v))
  BY <1>2, SumEqual
<1>5. Spent(v) = SumFunctionOnSet(Cost, OpenPurchasesOf(v))
      /\ Spent(v)' = SumFunctionOnSet(Cost', OpenPurchasesOf(v)')
  BY DEF Spent, Cost
<1>6. CASE v = u
  BY <1>1, <1>3, <1>5, <1>6 DEF total
<1>7. CASE v # u
  <2>1. Spent(v)' = Spent(v) /\ Spent(v) \in Nat
    BY <1>1, <1>4, <1>5, <1>7, BalanceTyped
  <2> QED BY <1>7, <2>1
<1> QED BY <1>6, <1>7

\* ... and a refund takes it off.
LEMMA RefundUnspends ==
  ASSUME TypeOK, NEW actor \in Users, NEW p \in PurchaseIds,
         RequestRefund(actor, p), NEW v \in Users
  PROVE  Spent(v)' = Spent(v) - (IF v = purchases[p].user THEN Credit(p) ELSE 0)
<1>1. /\ p \in OpenPurchasesOf(purchases[p].user) /\ Cost' = Cost
      /\ p \in OpenPurchasesOf(v) => v = purchases[p].user
      /\ OpenPurchasesOf(v)' = OpenPurchasesOf(v) \ {p}
  BY OpenAfterRefund
<1>2. /\ IsFiniteSet(OpenPurchasesOf(v))
      /\ \A x \in OpenPurchasesOf(v) : Cost[x] \in Int
  BY OpenTyped
<1>3. Spent(v) = SumFunctionOnSet(Cost, OpenPurchasesOf(v))
      /\ Spent(v)' = SumFunctionOnSet(Cost, OpenPurchasesOf(v) \ {p})
  BY <1>1 DEF Spent, Cost
<1>4. CASE v = purchases[p].user
  <2>1. p \in OpenPurchasesOf(v) /\ Cost[p] = Credit(p)
    BY <1>1, <1>4, OpenTyped DEF Credit
  <2>2. SumFunctionOnSet(Cost, OpenPurchasesOf(v) \ {p}) =
          SumFunctionOnSet(Cost, OpenPurchasesOf(v)) - Cost[p]
    BY <1>2, <2>1, SumShrinks
  <2> QED BY <1>3, <1>4, <2>1, <2>2
<1>5. CASE v # purchases[p].user
  <2>1. OpenPurchasesOf(v) \ {p} = OpenPurchasesOf(v)
    BY <1>1, <1>5
  <2> QED BY <1>3, <1>5, <2>1, BalanceTyped
<1> QED BY <1>4, <1>5

LEMMA BalanceStays ==
  ASSUME TypeOK, BalanceExact, UNCHANGED <<topups, purchases>>,
         \A u \in Users : OpenedBalance(u)' = OpenedBalance(u)
  PROVE  BalanceExact'
BY DEF BalanceExact, ToppedUp, Spent, OpenPurchasesOf

LEMMA BalanceKept ==
  ASSUME TypeOK, BalanceExact, [Next]_vars PROVE BalanceExact'
<1>1. \A v \in Users : /\ OpenedBalance(v) = ToppedUp(v) - Spent(v)
                       /\ OpenedBalance(v) \in Nat
                       /\ ToppedUp(v) \in Nat /\ Spent(v) \in Nat
  BY BalanceTyped DEF BalanceExact
<1>2. CASE UNCHANGED <<wallet, topups, purchases>>
  BY <1>2, BalanceStays DEF OpenedBalance
<1>3. ASSUME NEW u \in Users, Register(u) PROVE BalanceExact'
  <2>1. \A v \in Users : OpenedBalance(v)' = OpenedBalance(v)
    BY <1>3, NoneAssumption DEF Register, OpenedBalance, TypeOK, Optional
  <2> QED BY <1>3, <2>1, BalanceStays DEF Register, orderVars
<1>4. ASSUME NEW u \in Users, NEW amount \in Amounts, NEW ref \in ExternalRefs,
             Topup(u, amount, ref)
      PROVE  BalanceExact'
  <2> SUFFICES ASSUME NEW v \in Users
               PROVE  OpenedBalance(v)' = ToppedUp(v)' - Spent(v)'
    BY DEF BalanceExact
  <2>1. amount \in Nat /\ ToppedUp(v)' = ToppedUp(v) + (IF v = u THEN amount ELSE 0)
    BY <1>4, TopupAdds
  <2>2. Spent(v)' = Spent(v)
    BY <1>4 DEF Topup, Spent, OpenPurchasesOf, orderVars
  <2>3. wallet' = [wallet EXCEPT ![u] = OpenedBalance(u) + amount]
    BY <1>4 DEF Topup
  <2>4. OpenedBalance(v)' = IF v = u THEN OpenedBalance(u) + amount ELSE OpenedBalance(v)
    <3>1. OpenedBalance(u) + amount # None
      BY <1>1, <2>1, NoneAssumption
    <3> QED BY <2>3, <3>1 DEF OpenedBalance, TypeOK
  <2> QED BY <1>1, <2>1, <2>2, <2>4
<1>5. ASSUME NEW u \in Users, NEW i \in ItemIds, NEW q \in Quantities,
             NEW k \in Keys, BuyNew(u, i, q, k)
      PROVE  BalanceExact'
  <2> SUFFICES ASSUME NEW v \in Users
               PROVE  OpenedBalance(v)' = ToppedUp(v)' - Spent(v)'
    BY DEF BalanceExact
  <2>1. Spent(v)' = Spent(v) + (IF v = u THEN Total(i, q) ELSE 0)
    BY <1>5, PurchaseSpends
  <2>2. ToppedUp(v)' = ToppedUp(v)
    BY <1>5 DEF BuyNew, ToppedUp
  <2>3. wallet[u] \in Nat /\ Total(i, q) \in Nat /\ wallet[u] >= Total(i, q)
    BY <1>5, CreatedVerdict DEF BuyNew
  <2>4. wallet' = [wallet EXCEPT ![u] = wallet[u] - Total(i, q)]
    BY <1>5 DEF BuyNew
  <2>5. OpenedBalance(v)' = IF v = u THEN OpenedBalance(u) - Total(i, q)
                                     ELSE OpenedBalance(v)
    BY <2>3, <2>4, NoneAssumption DEF OpenedBalance, TypeOK
  <2> QED BY <1>1, <2>1, <2>2, <2>3, <2>5
<1>6. ASSUME NEW actor \in Users, NEW p \in PurchaseIds, RequestRefund(actor, p)
      PROVE  BalanceExact'
  <2> SUFFICES ASSUME NEW v \in Users
               PROVE  OpenedBalance(v)' = ToppedUp(v)' - Spent(v)'
    BY DEF BalanceExact
  <2> DEFINE owner == purchases[p].user
  <2>1. Spent(v)' = Spent(v) - (IF v = owner THEN Credit(p) ELSE 0)
    BY <1>6, RefundUnspends
  <2>2. ToppedUp(v)' = ToppedUp(v)
    BY <1>6 DEF RequestRefund, ToppedUp
  <2>3. owner \in Users /\ wallet[owner] \in Nat /\ Credit(p) \in Nat
    BY <1>6, RefundableVerdict DEF RequestRefund, Credit
  <2>4. wallet' = [wallet EXCEPT ![owner] = wallet[owner] + Credit(p)]
    BY <1>6 DEF RequestRefund
  <2> HIDE DEF owner
  <2>5. OpenedBalance(v)' = IF v = owner THEN OpenedBalance(v) + Credit(p)
                                         ELSE OpenedBalance(v)
    BY <2>3, <2>4, NoneAssumption DEF OpenedBalance, TypeOK
  <2> QED BY <1>1, <2>1, <2>2, <2>3, <2>5
<1>7. \/ UNCHANGED <<wallet, topups, purchases>>
      \/ \E u \in Users : Register(u)
      \/ \E u \in Users, amount \in Amounts, ref \in ExternalRefs :
           Topup(u, amount, ref)
      \/ \E u \in Users, i \in ItemIds, q \in Quantities, k \in Keys :
           BuyNew(u, i, q, k)
      \/ \E actor \in Users, p \in PurchaseIds : RequestRefund(actor, p)
  BY DEF Next, Elsewhere, TopupRequest, AdminRequest, RefundRequest,
     PurchaseRequest, vars, walletVars, orderVars, GrantAdmin, CreateItem,
     EditItem, UpdateItem, DeleteItem, ToggleActive, BuyReplay, BuyRefused, Tick
<1> QED BY <1>2, <1>3, <1>4, <1>5, <1>6, <1>7

LEMMA BalanceFresh == Fresh => BalanceExact
<1> SUFFICES ASSUME Fresh, NEW u \in Users
             PROVE  OpenedBalance(u) = ToppedUp(u) - Spent(u)
  BY DEF BalanceExact
<1>1. TopupsOf(u) = {} /\ OpenPurchasesOf(u) = {}
  BY DEF Fresh, TopupsOf, OpenPurchasesOf
<1>2. SumFunctionOnSet(Credited, TopupsOf(u)) = 0
      /\ SumFunctionOnSet(Cost, OpenPurchasesOf(u)) = 0
  BY <1>1, SumEmpty
<1>3. OpenedBalance(u) = 0
  BY DEF Fresh, OpenedBalance
<1> QED BY <1>2, <1>3 DEF ToppedUp, Spent, Credited, Cost, TopupsOf

LEMMA BalanceNext ==
  TypeOK /\ BalanceExact /\ [Next]_vars => BalanceExact'
BY BalanceKept

LEMMA BalanceMeaning == BalanceExact /\ LedgerChain => BalanceConservation
BY DEF BalanceExact, BalanceConservation, LedgerChain, OpenedBalance, Registered

\* No history of top-ups, purchases, replays, refunds and refusals makes or
\* loses a cent, for any prices, amounts and number of users.
THEOREM BalanceCorrect == Spec => []BalanceConservation
<1> QED BY BalanceMeaning, InitFresh, BalanceFresh, BalanceNext, TypeCorrect,
           LedgerCorrect, PTL DEF Spec

-----------------------------------------------------------------------------
(* Refunds *)

LEMMA GuaranteeMeaning ==
  ASSUME TypeOK, InventoryExact, RowsSound, RefundExact
  PROVE  OwnerRefundGuaranteed
<1> SUFFICES ASSUME NEW p \in DOMAIN purchases,
                    purchases[p].status = "completed", Age(p) <= RefundWindow
             PROVE  RefundVerdict(purchases[p].user, p) = "created"
  BY DEF OwnerRefundGuaranteed
<1>1. refundByPurchase[p] = None
  BY DEF RefundExact
<1>2. Age(p) \in Int
  <2>1. purchases[p].createdAt \in Time /\ now \in Time
    BY PurchaseType DEF PurchaseRecord, TypeOK
  <2> QED BY <2>1, StoreAssumption DEF Age, Time
<1>3. ~Expired(p)
  BY <1>2, StoreAssumption DEF Expired
<1>4. ~(Held(p) < purchases[p].quantity)
  <2>1. Held(p) \in Nat /\ purchases[p].quantity \in Nat
    BY PurchaseType DEF Held, PurchaseRecord, TypeOK
  <2>2. Held(p) >= purchases[p].quantity
    BY OpenIsHeld
  <2> QED BY <2>1, <2>2
<1>5. wallet[purchases[p].user] # None
  BY DEF RowsSound, PurchasesSound, Owned, Wallet
<1> QED BY <1>1, <1>3, <1>4, <1>5 DEF RefundVerdict

\* Within the window the owner of a completed purchase is always refunded: the
\* units are still in the inventory, because every other refund took only its
\* own (InventoryExact), the wallet exists and nobody refunded it before.
THEOREM RefundGuaranteed == Spec => []OwnerRefundGuaranteed
<1> QED BY GuaranteeMeaning, TypeCorrect, InventoryCorrect, RowsCorrect,
           RefundCorrect, PTL

\* Answers the code has a branch for and never gives, in the shop as it is
\* between requests: no key is found in progress by create_purchase, nobody
\* registered lacks a wallet, no refund is stopped by an existing refund row,
\* which the status reveals before, or by units that are not held.
DeadAnswers ==
  /\ \A u \in Registered, i \in ItemIds, q \in Quantities, k \in Keys :
       BuyVerdict(u, i, q, k)
         \notin {"IDEMPOTENCY_IN_PROGRESS", "WALLET_NOT_FOUND"}
  /\ \A actor \in Users, p \in PurchaseIds :
       RefundVerdict(actor, p)
         \notin {"REFUND_ALREADY_EXISTS", "REFUND_INVENTORY_CONDITION_FAILED",
                 "WALLET_NOT_FOUND"}

LEMMA DeadAnswersMeaning ==
  ASSUME TypeOK, IdempotencyExact, LedgerChain, InventoryExact, RowsSound,
         RefundExact
  PROVE  DeadAnswers
<1>1. ASSUME NEW u \in Registered, NEW i \in ItemIds, NEW q \in Quantities,
             NEW k \in Keys
      PROVE  BuyVerdict(u, i, q, k)
               \notin {"IDEMPOTENCY_IN_PROGRESS", "WALLET_NOT_FOUND"}
  <2>1. KeyVerdict(u, i, q, k) \notin {"IDEMPOTENCY_IN_PROGRESS", "WALLET_NOT_FOUND"}
    BY DEF KeyVerdict, IdempotencyExact
  <2>2. wallet[u] # None
    BY DEF LedgerChain, Registered
  <2>3. SaleVerdict(u, i, q) \notin {"IDEMPOTENCY_IN_PROGRESS", "WALLET_NOT_FOUND"}
    BY <2>2 DEF SaleVerdict
  <2> QED BY <2>1, <2>3 DEF BuyVerdict
<1>2. ASSUME NEW actor \in Users, NEW p \in PurchaseIds
      PROVE  RefundVerdict(actor, p)
               \notin {"REFUND_ALREADY_EXISTS", "WALLET_NOT_FOUND",
                       "REFUND_INVENTORY_CONDITION_FAILED"}
  <2>1. CASE p \notin DOMAIN purchases \/ purchases[p].status # "completed"
    BY <2>1 DEF RefundVerdict
  <2>2. CASE p \in DOMAIN purchases /\ purchases[p].status = "completed"
    <3>1. refundByPurchase[p] = None
      BY <2>2 DEF RefundExact
    <3>2. ~(Held(p) < purchases[p].quantity)
      <4>1. Held(p) \in Nat /\ purchases[p].quantity \in Nat
        BY <2>2, PurchaseType DEF Held, PurchaseRecord, TypeOK
      <4>2. Held(p) >= purchases[p].quantity
        BY <2>2, OpenIsHeld
      <4> QED BY <4>1, <4>2
    <3>3. wallet[purchases[p].user] # None
      BY <2>2 DEF RowsSound, PurchasesSound, Owned, Wallet
    <3> QED BY <2>2, <3>1, <3>2, <3>3 DEF RefundVerdict
  <2> QED BY <2>1, <2>2
<1> QED BY <1>1, <1>2 DEF DeadAnswers

\* Between requests none of these answers can be given: the branches behind them
\* are unreachable for as long as each request is one step.
THEOREM DeadAnswersCorrect == Spec => []DeadAnswers
<1> QED BY DeadAnswersMeaning, TypeCorrect, IdempotencyCorrect, LedgerCorrect,
           InventoryCorrect, RowsCorrect, RefundCorrect, PTL
=============================================================================
