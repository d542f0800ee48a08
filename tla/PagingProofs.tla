---------------------------- MODULE PagingProofs ----------------------------
(***************************************************************************)
(* What is proved about a reader of a list that changes meanwhile: how     *)
(* many rows can be missed or received twice, and that a history is read   *)
(* exactly.  The argument counts rows, so the module starts with the ranks *)
(* of the members of a finite set of numbers.                              *)
(***************************************************************************)
EXTENDS Paging, ShopProofs, FiniteSetTheorems

-----------------------------------------------------------------------------
(* Ranks *)

\* Ranks count from 1 ...
LEMMA RankRange ==
  ASSUME NEW S \in SUBSET Nat, IsFiniteSet(S)
  PROVE  /\ Cardinality(S) \in Nat
         /\ \A x \in Nat : Rank(S, x) \in Nat /\ Rank(S, x) <= Cardinality(S)
         /\ \A x \in S : Rank(S, x) \in 1 .. Cardinality(S)
<1> DEFINE Upto(x) == {y \in S : y <= x}
<1>1. Cardinality(S) \in Nat
  BY FS_CardinalityType
<1>2. ASSUME NEW x \in Nat
      PROVE  Rank(S, x) \in Nat /\ Rank(S, x) <= Cardinality(S) /\ IsFiniteSet(Upto(x))
  <2>1. Upto(x) \in SUBSET S
    OBVIOUS
  <2>2. Rank(S, x) = Cardinality(Upto(x))
    BY DEF Rank
  <2> HIDE DEF Upto
  <2> QED BY <2>1, <2>2, FS_Subset, FS_CardinalityType
<1>3. ASSUME NEW x \in S PROVE Rank(S, x) # 0
  <2>1. x \in Upto(x) /\ Rank(S, x) = Cardinality(Upto(x))
    BY DEF Rank
  <2> HIDE DEF Upto
  <2> QED BY <1>2, <2>1, FS_EmptySet
<1> HIDE DEF Upto
<1>4. ASSUME NEW x \in S PROVE Rank(S, x) \in 1 .. Cardinality(S)
  <2>1. x \in Nat
    OBVIOUS
  <2> QED BY <1>1, <1>2, <1>3, <2>1
<1> QED BY <1>1, <1>2, <1>4

\* ... and increase strictly along the list.
LEMMA RankIncreases ==
  ASSUME NEW S \in SUBSET Nat, IsFiniteSet(S), NEW x \in Nat, NEW y \in S, x < y
  PROVE  Rank(S, x) < Rank(S, y)
<1> DEFINE X == {z \in S : z <= x}
           Y == {z \in S : z <= y}
<1>1. X \in SUBSET Y /\ Y \in SUBSET S /\ y \in Y /\ y \notin X
  <2>1. y \in Nat /\ \A z \in S : z \in Nat
    OBVIOUS
  <2>2. \A z \in S : z <= x => z <= y
    BY <2>1
  <2>3. ~(y <= x) /\ y <= y
    BY <2>1
  <2> QED BY <2>2, <2>3
<1>2. Rank(S, x) = Cardinality(X) /\ Rank(S, y) = Cardinality(Y)
  BY DEF Rank
<1> HIDE DEF X, Y
<1>3. IsFiniteSet(Y)
  BY <1>1, FS_Subset
<1>4. Cardinality(X) <= Cardinality(Y) /\ (Cardinality(Y) = Cardinality(X) => X = Y)
  BY <1>1, <1>3, FS_Subset
<1>5. Cardinality(X) \in Nat /\ Cardinality(Y) \in Nat
  BY <1>1, <1>3, FS_Subset, FS_CardinalityType
<1>6. Cardinality(X) # Cardinality(Y)
  BY <1>1, <1>4
<1> QED BY <1>2, <1>4, <1>5, <1>6

\* Every place of the list is taken by one row.
LEMMA RankTaken ==
  ASSUME NEW S \in SUBSET Nat, IsFiniteSet(S), NEW k \in 1 .. Cardinality(S)
  PROVE  \E x \in S : Rank(S, x) = k
<1> DEFINE n == Cardinality(S)
           f == [x \in S |-> Rank(S, x)]
<1>1. n \in Nat /\ IsFiniteSet(1 .. n) /\ Cardinality(1 .. n) = n
  BY RankRange, FS_Interval
<1>2. f \in [S -> 1 .. n]
  BY RankRange
<1>3. ASSUME NEW x \in S, NEW y \in S, x # y PROVE f[x] # f[y]
  <2>1. x < y \/ y < x
    BY <1>3
  <2>2. \A a, b \in S : Rank(S, a) \in Nat /\ (a < b => Rank(S, a) < Rank(S, b))
    BY RankIncreases, RankRange
  <2> QED BY <2>1, <2>2
<1>4. f \in Injection(S, 1 .. n)
  BY <1>2, <1>3 DEF Injection, IsInjective
<1>5. f \in Surjection(S, 1 .. n)
  <2> HIDE DEF f
  <2> QED BY <1>1, <1>4, FS_Injection
<1> QED BY <1>5 DEF Surjection

\* The list is in that order.
LEMMA SortedRanks ==
  ASSUME NEW S \in SUBSET Nat, IsFiniteSet(S)
  PROVE  /\ DOMAIN Sorted(S) = 1 .. Cardinality(S)
         /\ \A k \in 1 .. Cardinality(S) :
              Sorted(S)[k] \in S /\ Rank(S, Sorted(S)[k]) = k
         /\ \A x \in S : Sorted(S)[Rank(S, x)] = x
<1>1. ASSUME NEW k \in 1 .. Cardinality(S)
      PROVE  Sorted(S)[k] \in S /\ Rank(S, Sorted(S)[k]) = k
  <2>1. \E x \in S : Rank(S, x) = k
    BY RankTaken
  <2>2. Sorted(S)[k] = CHOOSE x \in S : Rank(S, x) = k
    BY DEF Sorted
  <2> QED BY <2>1, <2>2
<1>2. ASSUME NEW x \in S PROVE Sorted(S)[Rank(S, x)] = x
  <2> DEFINE y == Sorted(S)[Rank(S, x)]
  <2>1. Rank(S, x) \in 1 .. Cardinality(S)
    BY RankRange
  <2>2. y \in S /\ Rank(S, y) = Rank(S, x)
    BY <1>1, <2>1
  <2> HIDE DEF y
  <2>3. ~(x < y) /\ ~(y < x)
    <3>1. \A a, b \in S : Rank(S, a) \in Nat /\ (a < b => Rank(S, a) < Rank(S, b))
      BY RankIncreases, RankRange
    <3> QED BY <2>2, <3>1
  <2>4. x = y
    BY <2>2, <2>3
  <2> QED BY <2>4 DEF y
<1> QED BY <1>1, <1>2 DEF Sorted

\* At most o rows of a list are at its first o places.
Early(S, o) == {x \in S : Rank(S, x) <= o}

LEMMA EarlyFull ==
  ASSUME NEW S \in SUBSET Nat, IsFiniteSet(S), NEW o \in Nat, o <= Cardinality(S)
  PROVE  IsFiniteSet(Early(S, o)) /\ Cardinality(Early(S, o)) = o
<1>1. Early(S, o) \in SUBSET S /\ IsFiniteSet(Early(S, o))
  BY FS_Subset DEF Early
<1>2. CASE o = 0
  <2>1. \A x \in S : Rank(S, x) \in Nat /\ Rank(S, x) >= 1
    BY RankRange
  <2>2. Early(S, o) = {}
    <3>1. \A x \in S : ~(Rank(S, x) <= o)
      BY <1>2, <2>1
    <3> QED BY <3>1 DEF Early
  <2> QED BY <1>1, <1>2, <2>2, FS_EmptySet
<1>3. CASE o # 0
  <2>1. o \in 1 .. Cardinality(S)
    BY <1>3, RankRange
  <2>2. PICK a \in S : Rank(S, a) = o
    BY <2>1, RankTaken
  <2>3. \A x \in S : Rank(S, x) <= o <=> x <= a
    <3>1. \A x, y \in S : Rank(S, x) \in Nat /\ (x < y => Rank(S, x) < Rank(S, y))
      BY RankIncreases, RankRange
    <3> QED BY <2>2, <3>1
  <2>4. Early(S, o) = {x \in S : x <= a}
    BY <2>3 DEF Early
  <2> QED BY <1>1, <2>2, <2>4 DEF Rank
<1> QED BY <1>2, <1>3

\* When a list L becomes M, as many rows move from behind the first o places
\* to among them as have left L from there, or fewer.
LEMMA MovedUp ==
  ASSUME NEW L \in SUBSET Nat, IsFiniteSet(L), NEW M \in SUBSET Nat, IsFiniteSet(M),
         NEW o \in Nat
  PROVE  LET moved == {x \in L \cap M : Rank(L, x) > o /\ Rank(M, x) <= o} IN
         \E left \in SUBSET (L \ M) :
           /\ Cardinality(moved) <= Cardinality(left)
           /\ \A w \in left : Rank(L, w) <= o /\ \E x \in moved : w < x
<1> DEFINE moved == {x \in L \cap M : Rank(L, x) > o /\ Rank(M, x) <= o}
           first == Early(L, o)
           left == first \ M
<1> SUFFICES \E t \in SUBSET (L \ M) :
               /\ Cardinality(moved) <= Cardinality(t)
               /\ \A w \in t : Rank(L, w) <= o /\ \E x \in moved : w < x
  OBVIOUS
<1>1. moved \in SUBSET L /\ moved \in SUBSET Nat /\ IsFiniteSet(moved)
  BY FS_Subset
<1>2. CASE moved = {}
  <2>1. Cardinality(moved) <= Cardinality({})
    BY <1>2, FS_EmptySet
  <2> HIDE DEF moved
  <2> QED BY <2>1
<1>3. CASE moved # {}
  <2>1. Cardinality(moved) \in Nat /\ Cardinality(moved) # 0
    BY <1>1, <1>3, FS_CardinalityType, FS_EmptySet
  <2>2. PICK m \in moved : Rank(moved, m) = Cardinality(moved)
    <3> HIDE DEF moved
    <3> QED BY <1>1, <2>1, RankTaken
  <2>3. \A x \in moved : x <= m
    <3> HIDE DEF moved
    <3>1. ASSUME NEW x \in moved, m < x PROVE FALSE
      <4>1. Rank(moved, m) < Rank(moved, x)
        BY <1>1, <3>1, RankIncreases
      <4>2. Rank(moved, x) <= Cardinality(moved) /\ Rank(moved, x) \in Nat
        BY <1>1, RankRange
      <4> QED BY <2>1, <2>2, <4>1, <4>2
    <3> QED BY <1>1, <3>1
  <2>4. m \in L /\ m \in M /\ Rank(L, m) > o /\ Rank(M, m) <= o
    OBVIOUS
  <2>5. Cardinality(first) = o /\ IsFiniteSet(first) /\ first \in SUBSET L
    <3>1. Rank(L, m) <= Cardinality(L) /\ Rank(L, m) \in Nat /\ Cardinality(L) \in Nat
      BY <2>4, RankRange
    <3>2. o <= Cardinality(L)
      BY <2>4, <3>1
    <3> QED BY <3>2, EarlyFull DEF Early
  <2>6. \A w \in first, x \in moved : w < x
    <3> SUFFICES ASSUME NEW w \in first, NEW x \in moved, ~(w < x) PROVE FALSE
      OBVIOUS
    <3>0. w \in Nat /\ x \in Nat
      BY DEF Early
    <3>1. Rank(L, w) <= o /\ Rank(L, x) > o /\ w \in L /\ x \in L
      BY DEF Early
    <3>2. x = w \/ x < w
      BY <3>0
    <3>3. x < w => Rank(L, x) < Rank(L, w)
      BY <3>1, RankIncreases
    <3>4. Rank(L, x) \in Nat /\ Rank(L, w) \in Nat
      BY <3>1, RankRange
    <3> QED BY <3>1, <3>2, <3>3, <3>4
  <2> DEFINE upto == {y \in M : y <= m}
             stay == first \cap M
  <2>7. stay \cup moved \in SUBSET upto
    <3>1. \A w \in first : w < m /\ w \in Nat /\ m \in Nat
      BY <2>4, <2>5, <2>6
    <3>2. \A w \in stay : w \in M /\ w <= m
      BY <3>1
    <3>3. \A x \in moved : x \in M /\ x <= m
      BY <2>3
    <3> QED BY <3>2, <3>3
  <2>8. IsFiniteSet(upto) /\ Cardinality(upto) = Rank(M, m) /\ Cardinality(upto) \in Nat
    <3>1. upto \in SUBSET M
      OBVIOUS
    <3> QED BY <3>1, FS_Subset, FS_CardinalityType DEF Rank
  <2>9. stay \cap moved = {}
    <3>1. \A w \in stay : w \in Nat /\ w \in first
      BY <2>5
    <3>2. \A w \in stay : w \notin moved
      BY <2>6, <3>1
    <3> QED BY <3>2
  <2>10. left = first \ M /\ stay = first \cap M /\ left \in SUBSET (L \ M)
    BY <2>5
  <2> HIDE DEF upto, stay, moved, first, left
  <2>11. IsFiniteSet(stay) /\ Cardinality(stay) \in Nat
    BY <2>5, <2>10, FS_Intersection, FS_CardinalityType
  <2>12. Cardinality(stay \cup moved) = Cardinality(stay) + Cardinality(moved)
    <3>1. Cardinality(stay \cap moved) = 0
      BY <2>9, FS_EmptySet
    <3> QED BY <1>1, <2>1, <2>11, <3>1, FS_Union
  <2>13. Cardinality(stay \cup moved) <= Cardinality(upto)
    BY <2>7, <2>8, FS_Subset
  <2>14. Cardinality(left) = o - Cardinality(stay)
    BY <2>5, <2>10, FS_Difference
  <2>15. Cardinality(moved) <= Cardinality(left)
    BY <2>1, <2>4, <2>8, <2>11, <2>12, <2>13, <2>14
  <2>16. \A w \in left : Rank(L, w) <= o /\ \E x \in moved : w < x
    BY <2>2, <2>6, <2>10 DEF first, Early
  <2> QED BY <2>10, <2>15, <2>16
<1> QED BY <1>2, <1>3

LEMMA UnionSize ==
  ASSUME NEW A, NEW B, IsFiniteSet(A), IsFiniteSet(B)
  PROVE  /\ IsFiniteSet(A \cup B)
         /\ Cardinality(A) \in Nat /\ Cardinality(B) \in Nat
         /\ Cardinality(A \cup B) \in Nat
         /\ Cardinality(A \cup B) <= Cardinality(A) + Cardinality(B)
         /\ A \cap B = {} => Cardinality(A \cup B) = Cardinality(A) + Cardinality(B)
<1>1. /\ IsFiniteSet(A \cup B)
      /\ Cardinality(A \cup B) =
           Cardinality(A) + Cardinality(B) - Cardinality(A \cap B)
  BY FS_Union
<1>2. IsFiniteSet(A \cap B) /\ (A \cap B = {} => Cardinality(A \cap B) = 0)
  BY FS_Intersection, FS_EmptySet
<1>3. /\ Cardinality(A) \in Nat /\ Cardinality(B) \in Nat
      /\ Cardinality(A \cap B) \in Nat
  BY <1>2, FS_CardinalityType
<1>4. Cardinality(A \cup B) \in Nat
  BY <1>1, FS_CardinalityType
<1> QED BY <1>1, <1>2, <1>3, <1>4

\* Those of T among the first o places of the list L that R does not hold.
Ahead(T, L, o, R) == {x \in T : Rank(L, x) <= o /\ x \notin R}

\* Of the rows T of a list L that becomes M, few more are lost before the
\* first o places: no more than have left the list.
LEMMA FewLost ==
  ASSUME NEW L \in SUBSET Nat, IsFiniteSet(L), NEW M \in SUBSET Nat, IsFiniteSet(M),
         NEW o \in Nat, NEW T \in SUBSET L, NEW R \in SUBSET Nat
  PROVE  /\ Cardinality(Ahead(T, L, o, R)) \in Nat /\ Cardinality(L \ M) \in Nat
         /\ Cardinality(Ahead(T \cap M, M, o, R)) \in Nat
         /\ Cardinality(Ahead(T \cap M, M, o, R)) <=
              Cardinality(Ahead(T, L, o, R)) + Cardinality(L \ M)
<1> DEFINE before == {x \in T : Rank(L, x) <= o /\ x \notin R}
           after == {x \in T \cap M : Rank(M, x) <= o /\ x \notin R}
           moved == {x \in L \cap M : Rank(L, x) > o /\ Rank(M, x) <= o}
<1>0. before = Ahead(T, L, o, R) /\ after = Ahead(T \cap M, M, o, R)
  BY DEF Ahead
<1>1. PICK left \in SUBSET (L \ M) : Cardinality(moved) <= Cardinality(left)
  BY MovedUp
<1>2. before \in SUBSET L /\ after \in SUBSET L /\ moved \in SUBSET L
      /\ L \ M \in SUBSET L
  OBVIOUS
<1>3. after \in SUBSET (before \cup moved)
  <2>1. \A x \in L : Rank(L, x) \in Nat
    BY RankRange
  <2>2. \A x \in after : ~(Rank(L, x) <= o) => Rank(L, x) > o
    BY <2>1
  <2> QED BY <2>2
<1> HIDE DEF before, after, moved
<1>4. /\ IsFiniteSet(before) /\ IsFiniteSet(after) /\ IsFiniteSet(moved)
      /\ IsFiniteSet(L \ M)
  BY <1>2, FS_Subset
<1>5. /\ Cardinality(left) <= Cardinality(L \ M) /\ Cardinality(left) \in Nat
      /\ Cardinality(L \ M) \in Nat
  BY <1>4, FS_Subset, FS_CardinalityType
<1>6. /\ Cardinality(before) \in Nat /\ Cardinality(moved) \in Nat
      /\ Cardinality(before \cup moved) \in Nat
      /\ IsFiniteSet(before \cup moved)
      /\ Cardinality(before \cup moved) <= Cardinality(before) + Cardinality(moved)
  BY <1>4, UnionSize
<1>7. Cardinality(after) <= Cardinality(before \cup moved) /\ Cardinality(after) \in Nat
  BY <1>3, <1>4, <1>6, FS_Subset, FS_CardinalityType
<1>8. Cardinality(after) <= Cardinality(before) + Cardinality(L \ M)
  BY <1>1, <1>5, <1>6, <1>7
<1> QED BY <1>5, <1>6, <1>7, <1>8, <1>0

\* Of the rows R of a table, few more are pushed behind the first o places:
\* no more than have come into the list from that table.
LEMMA FewAgain ==
  ASSUME NEW n \in Nat, NEW L \in SUBSET (1 .. n), NEW R \in SUBSET (1 .. n),
         NEW M \in SUBSET (Nat \ {0}), IsFiniteSet(M), NEW o \in Nat
  PROVE  LET before == {x \in R \cap L : Rank(L, x) > o}
             after == {x \in R \cap M : Rank(M, x) > o}
             back == (M \ L) \cap (1 .. n)
         IN  /\ Cardinality(before) \in Nat /\ Cardinality(back) \in Nat
             /\ Cardinality(after) \in Nat
             /\ Cardinality(after) <= Cardinality(before) + Cardinality(back)
<1> DEFINE before == {x \in R \cap L : Rank(L, x) > o}
           after == {x \in R \cap M : Rank(M, x) > o}
           back == (M \ L) \cap (1 .. n)
           moved == {x \in M \cap L : Rank(M, x) > o /\ Rank(L, x) <= o}
           late == {x \in R \cap (M \ L) : Rank(M, x) > o}
<1>1. /\ L \in SUBSET Nat /\ M \in SUBSET Nat /\ IsFiniteSet(L)
      /\ IsFiniteSet(1 .. n)
  <2>1. IsFiniteSet(1 .. n)
    BY FS_Interval
  <2>2. \A x \in 1 .. n : x \in Nat
    OBVIOUS
  <2> QED BY <2>1, <2>2, FS_Subset
<1>2. PICK left \in SUBSET (M \ L) :
        /\ Cardinality(moved) <= Cardinality(left)
        /\ \A w \in left : Rank(M, w) <= o /\ \E x \in moved : w < x
  <2>1. M \in SUBSET Nat /\ IsFiniteSet(M) /\ L \in SUBSET Nat /\ IsFiniteSet(L)
    BY <1>1
  <2> QED BY ONLY <2>1, o \in Nat, MovedUp
<1>3. left \cup late \in SUBSET back
  <2>1. \A w \in left : w \in M \ L /\ w \in Nat /\ w # 0 /\ \E x \in L : w < x
    BY <1>2
  <2>2. \A w \in left : w \in 1 .. n
    <3>1. \A w \in Nat, x \in 1 .. n : w # 0 /\ w < x => w \in 1 .. n
      OBVIOUS
    <3> QED BY <2>1, <3>1
  <2> QED BY <2>1, <2>2
<1>4. left \cap late = {}
  <2> SUFFICES ASSUME NEW w \in left \cap late PROVE FALSE
    OBVIOUS
  <2>1. w \in M /\ Rank(M, w) <= o /\ Rank(M, w) > o
    BY <1>2
  <2>2. Rank(M, w) \in Nat
    BY <1>1, <2>1, RankRange
  <2> QED BY <2>1, <2>2
<1>5. after \in SUBSET ((before \cup moved) \cup late)
  <2>1. \A x \in L : Rank(L, x) \in Nat
    BY <1>1, RankRange
  <2>2. \A x \in L : ~(Rank(L, x) > o) => Rank(L, x) <= o
    BY <2>1
  <2> QED BY <2>2
<1>6. before \in SUBSET L /\ moved \in SUBSET L /\ late \in SUBSET M
      /\ after \in SUBSET M /\ back \in SUBSET M
  OBVIOUS
<1> HIDE DEF before, after, moved, late, back
<1>7. /\ IsFiniteSet(before) /\ IsFiniteSet(after) /\ IsFiniteSet(moved)
      /\ IsFiniteSet(late) /\ IsFiniteSet(back) /\ IsFiniteSet(left)
  <2>1. IsFiniteSet(back)
    BY <1>6, FS_Subset
  <2>2. left \in SUBSET back
    BY <1>3
  <2> QED BY <1>1, <1>6, <2>1, <2>2, FS_Subset
<1>8. /\ Cardinality(left) \in Nat /\ Cardinality(late) \in Nat
      /\ Cardinality(back) \in Nat
      /\ Cardinality(left) + Cardinality(late) <= Cardinality(back)
  <2>1. /\ Cardinality(left \cup late) = Cardinality(left) + Cardinality(late)
        /\ Cardinality(left) \in Nat /\ Cardinality(late) \in Nat
    BY <1>4, <1>7, UnionSize
  <2>2. Cardinality(left \cup late) <= Cardinality(back) /\ Cardinality(back) \in Nat
    BY <1>3, <1>7, FS_Subset, FS_CardinalityType
  <2> QED BY <2>1, <2>2
<1>9. /\ Cardinality(before) \in Nat /\ Cardinality(moved) \in Nat
      /\ Cardinality(after) \in Nat
      /\ Cardinality(after) <=
           Cardinality(before) + Cardinality(moved) + Cardinality(late)
  <2>1. /\ IsFiniteSet(before \cup moved)
        /\ Cardinality(before) \in Nat /\ Cardinality(moved) \in Nat
        /\ Cardinality(before \cup moved) \in Nat
        /\ Cardinality(before \cup moved) <= Cardinality(before) + Cardinality(moved)
    BY <1>7, UnionSize
  <2>2. /\ IsFiniteSet((before \cup moved) \cup late)
        /\ Cardinality((before \cup moved) \cup late) \in Nat
        /\ Cardinality((before \cup moved) \cup late) <=
             Cardinality(before \cup moved) + Cardinality(late)
    BY <1>7, <2>1, UnionSize
  <2>3. Cardinality(after) <= Cardinality((before \cup moved) \cup late)
        /\ Cardinality(after) \in Nat
    BY <1>5, <1>7, <2>2, FS_Subset, FS_CardinalityType
  <2> QED BY <1>8, <2>1, <2>2, <2>3
<1>10. Cardinality(after) <= Cardinality(before) + Cardinality(back)
  BY <1>2, <1>8, <1>9
<1> QED BY <1>8, <1>9, <1>10 DEF before, after, back

-----------------------------------------------------------------------------
(* What holds of a reader *)

\* The rows of the table that is listed; a row that comes into the list and is
\* not one of them is new.
Table(v) == IF v = "history" THEN DOMAIN purchases ELSE DOMAIN items

Reading == view # None /\ ~finished

\* Rows that were there all the time, have not been received, and are now
\* before the offset: no page will show them any more.
Skipped ==
  {x \in stayed : Rank(Shown(view), x) <= offset /\ x \notin Range(seen)}

\* Rows that have been received and are now behind the offset: a page will
\* show them again.
Again ==
  {x \in Range(seen) \cap Shown(view) : Rank(Shown(view), x) > offset}

Repeated == Len(seen) - Cardinality(Range(seen))

\* The bounds hold of the rows already decided about before the reading is
\* finished; that makes them inductive.
PagingInv ==
  /\ view = None =>
       /\ offset = 0 /\ seen = << >> /\ ~finished
       /\ stayed = {} /\ vanished = 0 /\ returned = 0
  /\ Reading =>
       /\ stayed \subseteq Shown(view) /\ Range(seen) \subseteq Table(view)
       /\ Cardinality(Skipped) <= vanished
       /\ Repeated + Cardinality(Again) <= returned
  /\ MissedBounded /\ RepeatedBounded

\* What has been received of a history is what is before the offset.
HistoryInv ==
  view = "history" =>
    /\ \A m, n \in DOMAIN seen : m < n => seen[m] < seen[n]
    /\ ~finished =>
         /\ offset < Cardinality(History)
         /\ Range(seen) = {x \in History : Rank(History, x) <= offset}
    /\ finished => stayed \subseteq Range(seen)

-----------------------------------------------------------------------------
(* Pages *)

LEMMA MinOfTwo ==
  ASSUME NEW a \in Int, NEW b \in Int
  PROVE  Min({a, b}) = IF a <= b THEN a ELSE b
BY DEF Min

\* The lists hold ids, and rows of their tables only.
LEMMA ShownRows ==
  ASSUME TypeOK, NEW v \in Views
  PROVE  /\ Shown(v) \in SUBSET Nat /\ IsFiniteSet(Shown(v))
         /\ Shown(v) \subseteq ItemIds \cup PurchaseIds
         /\ Shown(v) \subseteq Table(v)
         /\ \E n \in Nat : Table(v) = 1 .. n
<1>1. /\ DOMAIN items = 1 .. Len(items) /\ Len(items) \in Nat /\ Len(items) <= MaxItems
      /\ DOMAIN purchases = 1 .. Len(purchases) /\ Len(purchases) \in Nat
      /\ Len(purchases) <= MaxPurchases
  BY LenProperties DEF TypeOK
<1>2. Shown(v) \in SUBSET Table(v)
  BY DEF Shown, Table, History, Live, Views
<1>3. PICK n \in Nat : Table(v) = 1 .. n
  BY <1>1 DEF Table
<1>4. IsFiniteSet(Table(v))
  BY <1>3, FS_Interval
<1>5. Table(v) \subseteq ItemIds \cup PurchaseIds
  BY <1>1, StoreAssumption DEF Table, ItemIds, PurchaseIds
<1> QED BY <1>2, <1>3, <1>4, <1>5, FS_Subset

\* The same in the next state, whichever list is read.
Lists ==
  \A v \in Views :
    /\ Shown(v) \in SUBSET Nat /\ IsFiniteSet(Shown(v))
    /\ Shown(v) \subseteq ItemIds \cup PurchaseIds
    /\ Shown(v) \subseteq Table(v)
    /\ \E n \in Nat : Table(v) = 1 .. n

LEMMA ListsNext == TypeOK' => Lists'
<1>1. TypeOK => Lists
  BY ShownRows DEF Lists
<1> QED BY <1>1, PTL

LEMMA ShownRowsNext ==
  TypeOK' /\ view' \in Views
    => /\ Shown(view)' \in SUBSET Nat /\ IsFiniteSet(Shown(view)')
       /\ Shown(view)' \subseteq ItemIds \cup PurchaseIds
       /\ Shown(view)' \subseteq Table(view)'
       /\ \E n \in Nat : Table(view)' = 1 .. n
BY ListsNext DEF Lists

\* A page shows the rows whose places are between its offset and the next
\* one's, once each and in order.
LEMMA PageRows ==
  ASSUME TypeOK, NEW v \in Views, NEW o \in Nat
  PROVE  /\ Page(v, o) \in Seq(Shown(v))
         /\ Range(Page(v, o)) =
              {x \in Shown(v) : Rank(Shown(v), x) > o /\ Rank(Shown(v), x) <= o + Limit}
         /\ Len(Page(v, o)) = Cardinality(Range(Page(v, o)))
         /\ Len(Page(v, o)) <= Limit
         /\ \A m, n \in DOMAIN Page(v, o) :
              m < n => Page(v, o)[m] < Page(v, o)[n]
<1> DEFINE L == Shown(v)
           N == Cardinality(L)
           P == Page(v, o)
           last == Min({o + Limit, N})
<1>1. L \in SUBSET Nat /\ IsFiniteSet(L) /\ N \in Nat
      /\ Limit \in Nat /\ Limit > 0
  BY ShownRows, RankRange, PagingAssumption
<1> HIDE DEF L
<1>2. last \in Nat /\ last <= N /\ last <= o + Limit
      /\ last = IF o + Limit <= N THEN o + Limit ELSE N
  BY <1>1, MinOfTwo
<1> HIDE DEF last
<1>3. /\ \A k \in 1 .. N : Sorted(L)[k] \in L /\ Rank(L, Sorted(L)[k]) = k
      /\ \A x \in L : Sorted(L)[Rank(L, x)] = x
  BY <1>1, SortedRanks
<1>4. P = SubSeq(Sorted(L), o + 1, last)
  BY DEF Page, last, L
<1>5. \A k \in o + 1 .. last : k \in 1 .. N
  BY <1>1, <1>2
<1>6. /\ P \in Seq(L)
      /\ Len(P) = IF o + 1 <= last THEN last - o ELSE 0
      /\ \A k \in 1 .. last - o : P[k] = Sorted(L)[o + k]
  <2>1. \A k \in o + 1 .. last : Sorted(L)[k] \in L
    BY <1>3, <1>5
  <2>2. o + 1 \in Int /\ last \in Int
    BY <1>2
  <2>3. /\ SubSeq(Sorted(L), o + 1, last) \in Seq(L)
        /\ Len(SubSeq(Sorted(L), o + 1, last)) =
             IF o + 1 <= last THEN last - (o + 1) + 1 ELSE 0
        /\ \A k \in 1 .. last - (o + 1) + 1 :
             SubSeq(Sorted(L), o + 1, last)[k] = Sorted(L)[o + 1 + k - 1]
    BY <2>1, <2>2, SubSeqProperties
  <2>4. last - (o + 1) + 1 = last - o /\ \A k \in Int : o + 1 + k - 1 = o + k
    BY <1>2
  <2> QED BY <1>4, <2>3, <2>4
<1> HIDE DEF P
<1>7. DOMAIN P = 1 .. Len(P) /\ Len(P) \in Nat
      /\ \A k \in DOMAIN P : o + k \in 1 .. N /\ o + k <= last
                             /\ P[k] = Sorted(L)[o + k]
  <2>1. DOMAIN P = 1 .. Len(P) /\ Len(P) \in Nat
    BY <1>6, LenProperties
  <2>2. \A k \in DOMAIN P : k \in 1 .. last - o /\ o + k \in o + 1 .. last
    BY <1>2, <1>6, <2>1
  <2> QED BY <1>5, <1>6, <2>1, <2>2
<1>8. \A k \in DOMAIN P : P[k] \in L /\ Rank(L, P[k]) = o + k
  BY <1>3, <1>7
<1>9. Range(P) = {x \in L : Rank(L, x) > o /\ Rank(L, x) <= o + Limit}
  <2>1. ASSUME NEW k \in DOMAIN P
        PROVE  P[k] \in L /\ Rank(L, P[k]) > o /\ Rank(L, P[k]) <= o + Limit
    <3>1. k \in Nat /\ k >= 1 /\ o + k <= o + Limit
      BY <1>1, <1>2, <1>7
    <3> QED BY <1>8, <3>1
  <2>2. ASSUME NEW x \in L, Rank(L, x) > o, Rank(L, x) <= o + Limit
        PROVE  \E k \in DOMAIN P : P[k] = x
    <3>1. Rank(L, x) \in 1 .. N
      BY <1>1, RankRange
    <3>2. Rank(L, x) <= last
      BY <1>1, <1>2, <2>2, <3>1
    <3>3. Rank(L, x) - o \in DOMAIN P
      BY <1>2, <1>6, <1>7, <2>2, <3>1, <3>2
    <3>4. o + (Rank(L, x) - o) = Rank(L, x)
      BY <3>1
    <3> QED BY <1>3, <1>7, <3>3, <3>4
  <2> QED BY <2>1, <2>2 DEF Range
<1>10. ASSUME NEW m \in DOMAIN P, NEW n \in DOMAIN P, m < n PROVE P[m] < P[n]
  <2>1. P[m] \in L /\ P[n] \in L /\ Rank(L, P[m]) = o + m /\ Rank(L, P[n]) = o + n
    BY <1>8
  <2>2. m \in Nat /\ n \in Nat /\ P[m] \in Nat /\ P[n] \in Nat
    <3>1. \A k \in 1 .. Len(P) : k \in Nat
      BY <1>7
    <3>2. m \in Nat /\ n \in Nat
      BY <1>7, <3>1
    <3>3. P[m] \in Nat /\ P[n] \in Nat
      BY <1>1, <2>1
    <3> QED BY <3>2, <3>3
  <2>3. P[n] < P[m] => Rank(L, P[n]) < Rank(L, P[m])
    BY <1>1, <2>1, RankIncreases
  <2>4. P[n] = P[m] => o + m = o + n
    BY <2>1
  <2> QED BY <1>10, <2>1, <2>2, <2>3, <2>4
<1>11. Cardinality(Range(P)) = Len(P)
  <2>1. P \in [1 .. Len(P) -> Range(P)]
    BY <1>6, <1>7 DEF Range
  <2>2. \A a, b \in 1 .. Len(P) : P[a] = P[b] => a = b
    <3>1. \A a, b \in 1 .. Len(P) : P[a] = P[b] => o + a = o + b
      BY <1>7, <1>8
    <3> QED BY <1>7, <3>1
  <2>3. \A x \in Range(P) : \E a \in 1 .. Len(P) : P[a] = x
    BY <1>7 DEF Range
  <2>4. P \in Bijection(1 .. Len(P), Range(P))
    BY <2>1, <2>2, <2>3 DEF Bijection, Injection, Surjection, IsInjective
  <2>5. ExistsBijection(1 .. Len(P), Range(P))
    BY <2>4 DEF ExistsBijection
  <2> QED BY <1>7, <2>5, FS_CountingElements
<1>12. Len(P) <= Limit
  BY <1>1, <1>2, <1>6
<1> QED BY <1>6, <1>9, <1>10, <1>11, <1>12 DEF L, P

-----------------------------------------------------------------------------
(* Types *)

LEMMA SeenTyped ==
  ASSUME PagingTypeOK
  PROVE  /\ Len(seen) \in Nat /\ DOMAIN seen = 1 .. Len(seen)
         /\ IsFiniteSet(Range(seen)) /\ Cardinality(Range(seen)) \in Nat
         /\ Cardinality(Range(seen)) <= Len(seen)
         /\ Repeated \in Nat
<1>1. Len(seen) \in Nat /\ DOMAIN seen = 1 .. Len(seen)
  BY LenProperties DEF PagingTypeOK
<1>2. seen \in Surjection(1 .. Len(seen), Range(seen))
  <2>1. seen \in [1 .. Len(seen) -> Range(seen)]
    BY <1>1 DEF PagingTypeOK, Range
  <2>2. \A x \in Range(seen) : \E a \in 1 .. Len(seen) : seen[a] = x
    BY <1>1 DEF Range
  <2> QED BY <2>1, <2>2 DEF Surjection
<1>3. IsFiniteSet(1 .. Len(seen)) /\ Cardinality(1 .. Len(seen)) = Len(seen)
  <2>1. \A n \in Nat : IsFiniteSet(1 .. n) /\ Cardinality(1 .. n) = n
    BY FS_Interval
  <2> QED BY <1>1, <2>1
<1>4. IsFiniteSet(Range(seen)) /\ Cardinality(Range(seen)) <= Len(seen)
  BY <1>2, <1>3, FS_Surjection
<1>5. Cardinality(Range(seen)) \in Nat
  BY <1>4, FS_CardinalityType
<1> QED BY <1>1, <1>4, <1>5 DEF Repeated

\* What the rows received become when a page arrives.
LEMMA PageReceived ==
  ASSUME TypeOK, PagingTypeOK, NEW v \in Views, Fetch(v)
  PROVE  /\ DOMAIN seen' = 1 .. Len(seen) + Len(Page(v, offset))
         /\ Len(seen') = Len(seen) + Len(Page(v, offset))
         /\ \A m \in 1 .. Len(seen) : seen'[m] = seen[m]
         /\ \A m \in 1 .. Len(Page(v, offset)) :
              seen'[Len(seen) + m] = Page(v, offset)[m]
         /\ Range(seen') = Range(seen) \cup Range(Page(v, offset))
         /\ seen' \in Seq(ItemIds \cup PurchaseIds)
<1> DEFINE P == Page(v, offset)
           S == ItemIds \cup PurchaseIds
<1>1. P \in Seq(S)
  <2>1. P \in Seq(Shown(v)) /\ Shown(v) \subseteq S
    BY PageRows, ShownRows DEF PagingTypeOK
  <2> HIDE DEF P, S
  <2> QED BY <2>1
<1>2. seen \in Seq(S) /\ seen' = seen \o P
  BY DEF PagingTypeOK, Fetch
<1> HIDE DEF P, S
<1>3. /\ seen' \in Seq(S) /\ Len(seen') = Len(seen) + Len(P)
      /\ \A m \in 1 .. Len(seen) + Len(P) :
           seen'[m] = IF m <= Len(seen) THEN seen[m] ELSE P[m - Len(seen)]
  BY <1>1, <1>2, ConcatProperties
<1>4. /\ Len(seen) \in Nat /\ DOMAIN seen = 1 .. Len(seen)
      /\ Len(P) \in Nat /\ DOMAIN P = 1 .. Len(P)
      /\ DOMAIN seen' = 1 .. Len(seen')
  BY <1>1, <1>2, <1>3, LenProperties
<1>5. \A m \in 1 .. Len(seen) : m \in 1 .. Len(seen) + Len(P) /\ seen'[m] = seen[m]
  BY <1>3, <1>4
<1>6. \A m \in 1 .. Len(P) :
        /\ Len(seen) + m \in 1 .. Len(seen) + Len(P)
        /\ seen'[Len(seen) + m] = P[m]
  <2> SUFFICES ASSUME NEW m \in 1 .. Len(P)
               PROVE  /\ Len(seen) + m \in 1 .. Len(seen) + Len(P)
                      /\ seen'[Len(seen) + m] = P[m]
    OBVIOUS
  <2>1. Len(seen) + m \in 1 .. Len(seen) + Len(P) /\ ~(Len(seen) + m <= Len(seen))
        /\ Len(seen) + m - Len(seen) = m
    BY <1>4
  <2> QED BY <1>3, <2>1
<1>7. Range(seen') = Range(seen) \cup Range(P)
  <2>1. ASSUME NEW m \in 1 .. Len(seen) + Len(P)
        PROVE  seen'[m] \in Range(seen) \cup Range(P)
    <3>1. CASE m <= Len(seen)
      <4>1. m \in DOMAIN seen
        BY <1>4, <3>1
      <4> QED BY <1>3, <3>1, <4>1 DEF Range
    <3>2. CASE ~(m <= Len(seen))
      <4>1. m - Len(seen) \in DOMAIN P
        BY <1>4, <3>2
      <4> QED BY <1>3, <3>2, <4>1 DEF Range
    <3> QED BY <3>1, <3>2
  <2>2. Range(seen) \subseteq Range(seen')
    BY <1>3, <1>4, <1>5 DEF Range
  <2>3. Range(P) \subseteq Range(seen')
    BY <1>3, <1>4, <1>6 DEF Range
  <2>4. Range(seen') \subseteq Range(seen) \cup Range(P)
    BY <1>3, <1>4, <2>1 DEF Range
  <2> QED BY <2>2, <2>3, <2>4
<1> QED BY <1>3, <1>4, <1>5, <1>6, <1>7 DEF P, S

LEMMA FetchType ==
  ASSUME TypeOK, PagingTypeOK, NEW v \in Views, Fetch(v) PROVE PagingTypeOK'
<1>1. /\ view' = v /\ offset' = offset + Limit /\ finished' \in BOOLEAN
      /\ vanished' = vanished /\ returned' = returned
      /\ stayed' = Shown(v) \/ stayed' = stayed
  BY DEF Fetch
<1>2. Limit \in Nat \ {0} /\ offset \in Nat
  BY PagingAssumption DEF PagingTypeOK
<1>3. offset + Limit \in {n * Limit : n \in 0 .. offset + Limit}
  <2>1. PICK n \in 0 .. offset : offset = n * Limit
    BY DEF PagingTypeOK
  <2>2. n + 1 \in 0 .. offset + Limit /\ offset + Limit = (n + 1) * Limit
    BY <1>2, <2>1
  <2> QED BY <2>2
<1>4. Len(seen) <= offset /\ Len(seen) \in Nat
  BY SeenTyped DEF PagingTypeOK
<1>5. Len(Page(v, offset)) <= Limit /\ Len(Page(v, offset)) \in Nat
  <2>1. Len(Page(v, offset)) <= Limit /\ Page(v, offset) \in Seq(Shown(v))
    BY <1>2, PageRows
  <2> QED BY <2>1, LenProperties
<1>6. seen' \in Seq(ItemIds \cup PurchaseIds) /\ Len(seen') <= offset + Limit
  BY <1>2, <1>4, <1>5, PageReceived
<1>7. Shown(v) \subseteq ItemIds \cup PurchaseIds
  BY ShownRows
<1> QED BY <1>1, <1>2, <1>3, <1>6, <1>7 DEF PagingTypeOK, Optional

\* How many rows left the list is a number, whatever happened to the table.
LEMMA MeanwhileType ==
  ASSUME TypeOK, TypeOK', PagingTypeOK, Meanwhile PROVE PagingTypeOK'
<1>1. UNCHANGED <<view, offset, seen, finished>>
  BY DEF Meanwhile
<1>2. CASE view = None \/ finished
  BY <1>1, <1>2 DEF Meanwhile, PagingTypeOK
<1>3. CASE ~(view = None \/ finished)
  <2>1. view \in Views
    BY <1>3 DEF PagingTypeOK, Optional
  <2>2. /\ stayed' = stayed \cap Shown(view)'
        /\ vanished' = vanished + Cardinality(Shown(view) \ Shown(view)')
        /\ \E table : returned' = returned +
             Cardinality((Shown(view)' \ Shown(view)) \cap table)
    BY <1>3 DEF Meanwhile
  <2>3. IsFiniteSet(Shown(view)) /\ IsFiniteSet(Shown(view)')
    BY <1>1, <2>1, ShownRows, ShownRowsNext
  <2>4. Cardinality(Shown(view) \ Shown(view)') \in Nat
    BY <2>3, FS_Difference, FS_CardinalityType
  <2>5. \A t : Cardinality((Shown(view)' \ Shown(view)) \cap t) \in Nat
    BY <2>3, FS_Difference, FS_Intersection, FS_CardinalityType
  <2>6. vanished' \in Nat /\ returned' \in Nat
    <3>1. vanished \in Nat /\ returned \in Nat
      BY DEF PagingTypeOK
    <3> QED BY <2>2, <2>4, <2>5, <3>1
  <2> QED BY <1>1, <2>2, <2>6 DEF PagingTypeOK
<1> QED BY <1>2, <1>3

LEMMA PagingNextType ==
  TypeOK /\ PagingTypeOK /\ [PagingNext]_pagingVars => TypeOK' /\ PagingTypeOK'
<1> SUFFICES ASSUME TypeOK, PagingTypeOK, [PagingNext]_pagingVars
             PROVE  TypeOK' /\ PagingTypeOK'
  OBVIOUS
<1>1. CASE UNCHANGED pagingVars
  <2>1. UNCHANGED vars
    BY <1>1 DEF pagingVars
  <2>2. TypeOK'
    BY <2>1, NextType
  <2> QED BY <1>1, <2>2 DEF PagingTypeOK, pagingVars, readerVars
<1>2. ASSUME NEW v \in Views, Fetch(v) PROVE TypeOK' /\ PagingTypeOK'
  <2>1. UNCHANGED vars
    BY <1>2 DEF Fetch
  <2> QED BY <1>2, <2>1, NextType, FetchType
<1>3. CASE Meanwhile
  <2>1. TypeOK'
    BY <1>3, NextType DEF Meanwhile
  <2> QED BY <1>3, <2>1, MeanwhileType
<1> QED BY <1>1, <1>2, <1>3 DEF PagingNext

\* A reader never receives more rows than its offset counts, whatever the
\* length of the list and the size of the pages.
THEOREM PagingTypeCorrect == PagingSpec => [](TypeOK /\ PagingTypeOK)
<1>1. PagingInit => TypeOK /\ PagingTypeOK
  <2> SUFFICES ASSUME PagingInit PROVE TypeOK /\ PagingTypeOK
    OBVIOUS
  <2>1. TypeOK
    BY InitType DEF PagingInit
  <2>2. offset = 0 /\ offset \in {n * Limit : n \in 0 .. offset}
    <3>1. offset = 0 /\ 0 \in 0 .. offset /\ 0 = 0 * Limit
      BY PagingAssumption DEF PagingInit
    <3> QED BY <3>1
  <2>3. seen = << >> /\ << >> \in Seq(ItemIds \cup PurchaseIds) /\ Len(<< >>) = 0
    BY EmptySeq DEF PagingInit
  <2>4. Len(seen) <= offset
    BY <2>2, <2>3
  <2>5. /\ view \in Optional(Views) /\ finished \in BOOLEAN
        /\ stayed \subseteq ItemIds \cup PurchaseIds
        /\ vanished \in Nat /\ returned \in Nat /\ offset \in Nat
    BY DEF PagingInit, Optional
  <2>6. PagingTypeOK
    BY <2>2, <2>3, <2>4, <2>5 DEF PagingTypeOK
  <2> QED BY <2>1, <2>6
<1> QED BY <1>1, PagingNextType, PTL DEF PagingSpec
-----------------------------------------------------------------------------
(* Few rows are missed or received twice *)

\* The tables only grow, and a purchase stays its buyer's.
LEMMA TablesGrow ==
  ASSUME TypeOK, [Next]_vars
  PROVE  /\ DOMAIN items \subseteq DOMAIN items'
         /\ DOMAIN purchases \subseteq DOMAIN purchases'
         /\ \A p \in DOMAIN purchases : purchases'[p].user = purchases[p].user
         /\ \A p \in DOMAIN purchases' \ DOMAIN purchases, x \in DOMAIN purchases :
              x < p
<1>1. DOMAIN items \subseteq DOMAIN items'
  <2>1. ASSUME NEW a \in Users, NEW sku \in Skus, NEW price \in Prices,
               NEW stock \in Optional(Stocks), CreateItem(a, sku, price, stock)
        PROVE  DOMAIN items \subseteq DOMAIN items'
    <3>1. items' = Append(items, NewItem(sku, price, stock))
      BY <2>1 DEF CreateItem
    <3> HIDE DEF NewItem
    <3> QED BY <3>1 DEF TypeOK
  <2>2. CASE DOMAIN items' = DOMAIN items
    BY <2>2
  <2>3. \/ DOMAIN items' = DOMAIN items
        \/ \E a \in Users, sku \in Skus, price \in Prices, stock \in Optional(Stocks) :
             CreateItem(a, sku, price, stock)
    <3>1. \A a, i, edited : EditItem(a, i, edited) => DOMAIN items' = DOMAIN items
      BY DEF EditItem
    <3>2. \A u, i, q, k : BuyNew(u, i, q, k) => DOMAIN items' = DOMAIN items
      BY DEF BuyNew
    <3>3. \A actor, p : RequestRefund(actor, p) => DOMAIN items' = DOMAIN items
      BY DEF RequestRefund
    <3>4. AdminRequest =>
            \/ DOMAIN items' = DOMAIN items
            \/ \E a \in Users, sku \in Skus, price \in Prices, stock \in Optional(Stocks) :
                 CreateItem(a, sku, price, stock)
      BY <3>1 DEF AdminRequest, UpdateItem, DeleteItem, ToggleActive
    <3>5. TopupRequest \/ Tick \/ UNCHANGED vars
            \/ (\E u \in Users : Register(u) \/ GrantAdmin(u))
            \/ (\E u \in Users, i \in ItemIds, q \in Quantities, k \in Keys :
                  BuyReplay(u, i, q, k) \/ BuyRefused(u, i, q, k))
          => items' = items
      BY DEF TopupRequest, Topup, Tick, vars, Register, GrantAdmin, BuyReplay, BuyRefused
    <3> QED BY <3>2, <3>3, <3>4, <3>5 DEF Next, Elsewhere, RefundRequest, PurchaseRequest
  <2> QED BY <2>1, <2>2, <2>3
<1>2. CASE UNCHANGED purchases
  BY <1>1, <1>2
<1>3. ASSUME NEW u \in Users, NEW i \in ItemIds, NEW q \in Quantities,
             NEW k \in Keys, BuyNew(u, i, q, k)
      PROVE  /\ DOMAIN purchases \subseteq DOMAIN purchases'
             /\ \A p \in DOMAIN purchases : purchases'[p].user = purchases[p].user
             /\ \A p \in DOMAIN purchases' \ DOMAIN purchases,
                   x \in DOMAIN purchases : x < p
  <2>1. /\ Len(purchases) \in Nat /\ DOMAIN purchases = 1 .. Len(purchases)
        /\ DOMAIN purchases' = 1 .. Len(purchases) + 1
        /\ \A p \in DOMAIN purchases : purchases'[p] = purchases[p]
    BY <1>3, BuyNewRows
  <2> QED BY <2>1
<1>4. ASSUME NEW actor \in Users, NEW r \in PurchaseIds, RequestRefund(actor, r)
      PROVE  /\ DOMAIN purchases' = DOMAIN purchases
             /\ \A p \in DOMAIN purchases : purchases'[p].user = purchases[p].user
  <2>1. /\ r \in DOMAIN purchases /\ DOMAIN purchases' = DOMAIN purchases
        /\ \A x \in DOMAIN purchases : x # r => purchases'[x] = purchases[x]
        /\ purchases'[r] = [purchases[r] EXCEPT !.status = "refunded"]
    BY <1>4, RefundRows
  <2>2. purchases'[r].user = purchases[r].user
    BY <2>1, PurchaseType DEF PurchaseRecord
  <2> QED BY <2>1, <2>2
<1> QED BY <1>1, <1>2, <1>3, <1>4, OrderSteps

\* A page changes no list.
LEMMA SameLists ==
  ASSUME UNCHANGED vars, NEW v \in Views, view' = v
  PROVE  Shown(view)' = Shown(v) /\ Table(view)' = Table(v)
BY DEF Shown, Table, History, Live, vars, orderVars, Views

\* A page skips no row, and what it shows again was counted before.
LEMMA FetchKeepsBounds ==
  ASSUME TypeOK, PagingTypeOK, PagingInv, NEW v \in Views, Fetch(v)
  PROVE  PagingInv'
<1> DEFINE L == Shown(v)
           N == Cardinality(L)
           R == Range(seen)
           P == Range(Page(v, offset))
           T == stayed'
           lost == {x \in T : Rank(L, x) <= offset /\ x \notin R}
           lostNext == {x \in T : Rank(L, x) <= offset + Limit /\ x \notin R \cup P}
           again == {x \in R \cap L : Rank(L, x) > offset}
           againNext == {x \in (R \cup P) \cap L : Rank(L, x) > offset + Limit}
<1>1. /\ L \in SUBSET Nat /\ IsFiniteSet(L) /\ L \subseteq Table(v) /\ N \in Nat
      /\ \A x \in L : Rank(L, x) \in 1 .. N
  BY ShownRows, RankRange
<1>2. /\ offset \in Nat /\ Limit \in Nat /\ vanished \in Nat /\ returned \in Nat
      /\ view \in Optional(Views)
  BY PagingAssumption DEF PagingTypeOK
<1>3. /\ view' = v /\ view' # None /\ offset' = offset + Limit /\ ~finished
      /\ vanished' = vanished /\ returned' = returned
      /\ finished' = (offset' >= N)
      /\ UNCHANGED vars
      /\ view # None => view = v
      /\ T = IF view = None THEN L ELSE stayed
  BY NoViewAssumption DEF Fetch
<1>4. /\ Shown(view)' = L /\ Table(view)' = Table(v)
  BY <1>3, SameLists
<1>5. /\ P = {x \in L : Rank(L, x) > offset /\ Rank(L, x) <= offset + Limit}
      /\ Len(Page(v, offset)) = Cardinality(P)
  BY <1>2, PageRows
<1>6. Range(seen') = R \cup P /\ Len(seen') = Len(seen) + Cardinality(P)
  BY <1>5, PageReceived
<1>7. /\ IsFiniteSet(R) /\ Cardinality(R) \in Nat /\ Len(seen) \in Nat
      /\ Repeated = Len(seen) - Cardinality(R)
  BY SeenTyped DEF Repeated
<1>8. /\ T \subseteq L /\ R \subseteq Table(v)
      /\ Cardinality(lost) <= vanished
      /\ Len(seen) - Cardinality(R) + Cardinality(again) <= returned
  <2>1. CASE view = None
    <3>1. offset = 0 /\ seen = << >> /\ vanished = 0 /\ returned = 0 /\ T = L
      BY <1>3, <2>1 DEF PagingInv
    <3>2. R = {} /\ Len(seen) = 0
      <4>1. DOMAIN seen = 1 .. Len(seen) /\ Len(seen) = 0
        BY <3>1, SeenTyped
      <4> QED BY <4>1 DEF Range
    <3>3. lost = {} /\ again = {}
      <4>1. \A x \in L : ~(Rank(L, x) <= 0)
        BY <1>1
      <4> QED BY <3>1, <3>2, <4>1
    <3> HIDE DEF lost, again, L, R, T
    <3>4. Cardinality(lost) = 0 /\ Cardinality(again) = 0 /\ Cardinality(R) = 0
      BY <3>2, <3>3, FS_EmptySet
    <3> QED BY <3>1, <3>2, <3>4
  <2>2. CASE view # None
    <3>1. Reading /\ view = v /\ T = stayed
      BY <1>3, <2>2 DEF Reading
    <3>2. lost = Skipped /\ again = Again
      BY <3>1 DEF Skipped, Again
    <3> QED BY <1>7, <3>1, <3>2 DEF PagingInv
  <2> QED BY <2>1, <2>2
<1> HIDE DEF L, R, P, T
<1>9. lostNext \in SUBSET lost /\ lost \in SUBSET L /\ again \in SUBSET L
      /\ lostNext \in SUBSET L /\ againNext \in SUBSET L
  <2>1. \A x \in lostNext : x \in L /\ Rank(L, x) \in Nat
    BY <1>1, <1>8
  <2>2. \A x \in lostNext : ~(Rank(L, x) > offset)
    BY <1>5, <2>1
  <2>3. \A x \in lostNext : Rank(L, x) <= offset
    BY <1>2, <2>1, <2>2
  <2> QED BY <1>8, <2>3
<1>10. R \cap P \in SUBSET again /\ againNext \in SUBSET again
       /\ (R \cap P) \cap againNext = {}
  <2>1. \A x \in L : Rank(L, x) \in Nat
    BY <1>1
  <2>2. \A x \in againNext : x \notin P /\ Rank(L, x) > offset /\ x \in R
    BY <1>2, <1>5, <2>1
  <2> QED BY <1>5, <2>2
<1> HIDE DEF lost, lostNext, again, againNext
<1>11. /\ IsFiniteSet(lost) /\ IsFiniteSet(lostNext) /\ IsFiniteSet(again)
       /\ IsFiniteSet(againNext) /\ IsFiniteSet(P) /\ IsFiniteSet(R \cap P)
  <2>1. P \in SUBSET L
    BY <1>5
  <2>2. R \cap P \in SUBSET L
    BY <2>1
  <2> QED BY <1>1, <1>9, <2>1, <2>2, FS_Subset
<1>12. Cardinality(lostNext) <= vanished' /\ Cardinality(lostNext) \in Nat
  <2>1. /\ Cardinality(lostNext) <= Cardinality(lost)
        /\ Cardinality(lostNext) \in Nat /\ Cardinality(lost) \in Nat
    BY <1>9, <1>11, FS_Subset, FS_CardinalityType
  <2> QED BY <1>2, <1>3, <1>8, <2>1
<1>13. /\ Cardinality(againNext) \in Nat
       /\ Len(seen') - Cardinality(R \cup P) \in Int
       /\ Len(seen') - Cardinality(R \cup P) + Cardinality(againNext) <= returned'
  <2>1. /\ Cardinality((R \cap P) \cup againNext) =
             Cardinality(R \cap P) + Cardinality(againNext)
        /\ Cardinality(R \cap P) \in Nat /\ Cardinality(againNext) \in Nat
    BY <1>10, <1>11, UnionSize
  <2>2. (R \cap P) \cup againNext \in SUBSET again
    BY <1>10
  <2>3. Cardinality((R \cap P) \cup againNext) <= Cardinality(again)
        /\ Cardinality(again) \in Nat
    BY <1>11, <2>2, FS_Subset, FS_CardinalityType
  <2>4. Cardinality(R \cup P) = Cardinality(R) + Cardinality(P) - Cardinality(R \cap P)
        /\ Cardinality(P) \in Nat
    BY <1>7, <1>11, FS_Union, FS_CardinalityType
  <2>5. /\ Len(seen') = Len(seen) + Cardinality(P) /\ Len(seen) \in Nat
        /\ Cardinality(R) \in Nat /\ returned' = returned /\ returned \in Nat
        /\ Len(seen) - Cardinality(R) + Cardinality(again) <= returned
    BY <1>2, <1>3, <1>6, <1>7, <1>8
  <2> HIDE DEF N
  <2>6. Cardinality(R \cap P) + Cardinality(againNext) <= Cardinality(again)
    BY <2>1, <2>3
  <2>7. Len(seen') - Cardinality(R \cup P) =
          Len(seen) - Cardinality(R) + Cardinality(R \cap P)
    BY <2>1, <2>4, <2>5
  <2> QED BY <2>1, <2>3, <2>5, <2>6, <2>7
<1>14. Skipped' = lostNext /\ Again' = againNext
       /\ Repeated' = Len(seen') - Cardinality(R \cup P)
  BY <1>3, <1>4, <1>6 DEF Skipped, Again, Repeated, lostNext, againNext, T
<1>15. stayed' \subseteq Shown(view)' /\ Range(seen)' \subseteq Table(view)'
  <2>1. P \subseteq L
    BY <1>5
  <2> QED BY <1>1, <1>4, <1>6, <1>8, <2>1 DEF T
<1>16. MissedBounded'
  <2> SUFFICES ASSUME finished' PROVE Cardinality(stayed' \ Range(seen')) <= vanished'
    BY DEF MissedBounded
  <2>1. \A x \in T : Rank(L, x) <= offset + Limit
    <3>1. N <= offset + Limit
      BY <1>1, <1>2, <1>3
    <3>2. \A x \in T : Rank(L, x) \in Nat /\ Rank(L, x) <= N
      BY <1>1, <1>8
    <3> QED BY <1>1, <1>2, <3>1, <3>2
  <2>2. stayed' \ Range(seen') = lostNext
    BY <1>6, <2>1 DEF lostNext, T
  <2> QED BY <1>12, <2>2
<1>17. RepeatedBounded'
  <2>1. Len(seen') - Cardinality(R \cup P) <= returned'
    BY <1>2, <1>3, <1>13
  <2> QED BY <1>6, <2>1 DEF RepeatedBounded
<1> QED BY <1>3, <1>12, <1>13, <1>14, <1>15, <1>16, <1>17 DEF PagingInv

\* A row that leaves the list pulls at most one row in front of the offset, and
\* one that comes back pushes at most one, or itself, behind it.
LEMMA MeanwhileKeepsBounds ==
  ASSUME TypeOK, TypeOK', PagingTypeOK, PagingInv, Meanwhile PROVE PagingInv'
<1>1. /\ UNCHANGED <<view, offset, seen, finished>> /\ [Next]_vars
      /\ Repeated' = Repeated
  BY DEF Meanwhile, Repeated
<1>2. CASE view = None \/ finished
  <2>1. UNCHANGED <<stayed, vanished, returned>>
    BY <1>2 DEF Meanwhile
  <2>2. ~Reading' /\ MissedBounded' /\ RepeatedBounded'
    BY <1>1, <1>2, <2>1 DEF PagingInv, Reading, MissedBounded, RepeatedBounded
  <2> QED BY <1>1, <2>1, <2>2 DEF PagingInv
<1>3. CASE ~(view = None \/ finished)
  <2> DEFINE L == Shown(view)
             M == Shown(view)'
             R == Range(seen)
  <2>1. Reading /\ view \in Views /\ view' \in Views
    BY <1>1, <1>3 DEF Reading, PagingTypeOK, Optional
  <2>2. PICK n \in Nat : Table(view) = 1 .. n
    BY <2>1, ShownRows
  <2>3. L \in SUBSET Nat /\ IsFiniteSet(L) /\ L \in SUBSET (1 .. n)
    BY <2>1, <2>2, ShownRows
  <2>4. M \in SUBSET Nat /\ IsFiniteSet(M) /\ M \in SUBSET (Nat \ {0})
    <3>1. M \in SUBSET Nat /\ IsFiniteSet(M) /\ M \subseteq Table(view)'
      BY <2>1, ShownRowsNext
    <3>2. PICK m \in Nat : Table(view)' = 1 .. m
      BY <2>1, ShownRowsNext
    <3>3. \A x \in 1 .. m : x # 0
      OBVIOUS
    <3> HIDE DEF M
    <3> QED BY <3>1, <3>2, <3>3
  <2>5. /\ stayed' = stayed \cap M
        /\ vanished' = vanished + Cardinality(L \ M)
        /\ returned' = returned + Cardinality((M \ L) \cap (1 .. n))
    <3>1. Table(view) = IF view = "history" THEN DOMAIN purchases ELSE DOMAIN items
      BY DEF Table
    <3> QED BY <1>3, <2>2, <3>1 DEF Meanwhile
  <2>6. /\ stayed \in SUBSET L /\ R \in SUBSET (1 .. n)
        /\ Cardinality(Skipped) <= vanished
        /\ Repeated + Cardinality(Again) <= returned
    BY <2>1, <2>2 DEF PagingInv
  <2>7. /\ offset \in Nat /\ vanished \in Nat /\ returned \in Nat /\ Repeated \in Nat
    BY SeenTyped DEF PagingTypeOK
  <2>8. 1 .. n \subseteq Table(view)'
    BY <1>1, <2>2, TablesGrow DEF Table
  <2> DEFINE lost == {x \in stayed : Rank(L, x) <= offset /\ x \notin R}
             lostNext == {x \in stayed \cap M : Rank(M, x) <= offset /\ x \notin R}
             again == {x \in R \cap L : Rank(L, x) > offset}
             againNext == {x \in R \cap M : Rank(M, x) > offset}
  <2>9. Skipped = lost /\ Again = again
    BY DEF Skipped, Again
  <2>10. Skipped' = lostNext /\ Again' = againNext
    BY <1>1, <2>5 DEF Skipped, Again
  <2> HIDE DEF L, M, R
  <2>11. /\ Cardinality(lost) \in Nat /\ Cardinality(L \ M) \in Nat
         /\ Cardinality(lostNext) \in Nat
         /\ Cardinality(lostNext) <= Cardinality(lost) + Cardinality(L \ M)
    <3>1. /\ L \in SUBSET Nat /\ IsFiniteSet(L) /\ M \in SUBSET Nat
          /\ IsFiniteSet(M) /\ offset \in Nat /\ stayed \in SUBSET L
          /\ R \in SUBSET Nat
      BY <2>3, <2>4, <2>6, <2>7
    <3>2. lost = Ahead(stayed, L, offset, R) /\ lostNext = Ahead(stayed \cap M, M, offset, R)
      BY DEF Ahead
    <3> HIDE DEF lost, lostNext
    <3> QED BY <3>1, <3>2, FewLost
  <2>12. /\ Cardinality(again) \in Nat /\ Cardinality((M \ L) \cap (1 .. n)) \in Nat
         /\ Cardinality(againNext) \in Nat
         /\ Cardinality(againNext) <=
              Cardinality(again) + Cardinality((M \ L) \cap (1 .. n))
    BY <2>3, <2>4, <2>6, <2>7, FewAgain
  <2> HIDE DEF lost, lostNext, again, againNext
  <2>13. Cardinality(Skipped') <= vanished'
    BY <2>5, <2>6, <2>7, <2>9, <2>10, <2>11
  <2>14. Repeated' + Cardinality(Again') <= returned'
    BY <1>1, <2>5, <2>6, <2>7, <2>9, <2>10, <2>12
  <2>15. MissedBounded' /\ RepeatedBounded'
    <3>1. ~finished'
      BY <1>1, <1>3
    <3>2. Repeated' <= returned'
      BY <1>1, <2>5, <2>7, <2>10, <2>12, <2>14
    <3> QED BY <3>1, <3>2 DEF MissedBounded, RepeatedBounded, Repeated
  <2>16. stayed' \subseteq Shown(view)' /\ Range(seen)' \subseteq Table(view)'
    BY <1>1, <2>5, <2>6, <2>8 DEF M, R
  <2> QED BY <1>1, <1>3, <2>13, <2>14, <2>15, <2>16 DEF PagingInv
<1> QED BY <1>2, <1>3

LEMMA PagingInvCorrect == PagingSpec => []PagingInv
<1>1. PagingInit => PagingInv
  <2> SUFFICES ASSUME PagingInit PROVE PagingInv
    OBVIOUS
  <2>1. /\ view = None /\ offset = 0 /\ seen = << >> /\ ~finished
        /\ stayed = {} /\ vanished = 0 /\ returned = 0
    BY DEF PagingInit
  <2>2. Len(seen) = 0 /\ Range(seen) = {}
    <3>1. Len(seen) = 0 /\ DOMAIN seen = {}
      BY <2>1
    <3> QED BY <3>1 DEF Range
  <2>3. Len(seen) - Cardinality(Range(seen)) <= returned
    BY <2>1, <2>2, FS_EmptySet
  <2> QED BY <2>1, <2>3 DEF PagingInv, Reading, MissedBounded, RepeatedBounded
<1>2. TypeOK /\ TypeOK' /\ PagingTypeOK /\ PagingInv /\ [PagingNext]_pagingVars
        => PagingInv'
  <2> SUFFICES ASSUME TypeOK, TypeOK', PagingTypeOK, PagingInv, [PagingNext]_pagingVars
               PROVE  PagingInv'
    OBVIOUS
  <2>1. CASE UNCHANGED pagingVars
    BY <2>1
    DEF PagingInv, Reading, Skipped, Again, Repeated, MissedBounded,
        RepeatedBounded, Shown, Table, History, Live, pagingVars, readerVars, vars,
        orderVars
  <2>2. ASSUME NEW v \in Views, Fetch(v) PROVE PagingInv'
    BY <2>2, FetchKeepsBounds
  <2>3. CASE Meanwhile
    BY <2>3, MeanwhileKeepsBounds
  <2> QED BY <2>1, <2>2, <2>3 DEF PagingNext
<1> QED BY <1>1, <1>2, PagingTypeCorrect, PTL DEF PagingSpec

\* A reader who reads to the end misses at most one row for each row that left
\* the list, whatever the list, the size of the pages and the other requests.
THEOREM MissedCorrect == PagingSpec => []MissedBounded
<1>1. PagingInv => MissedBounded
  BY DEF PagingInv
<1> QED BY <1>1, PagingInvCorrect, PTL

\* And receives twice at most one row for each row that came back into it.
THEOREM RepeatedCorrect == PagingSpec => []RepeatedBounded
<1>1. PagingInv => RepeatedBounded
  BY DEF PagingInv
<1> QED BY <1>1, PagingInvCorrect, PTL

-----------------------------------------------------------------------------
(* A history is read exactly *)

\* Rows that come at the end of a list leave the places of the others alone.
LEMMA RankKept ==
  ASSUME NEW L \in SUBSET Nat, NEW M \in SUBSET Nat, IsFiniteSet(M),
         L \subseteq M, \A y \in M \ L, x \in L : x < y,
         NEW o \in Nat, o < Cardinality(L)
  PROVE  /\ o < Cardinality(M)
         /\ {x \in M : Rank(M, x) <= o} = {x \in L : Rank(L, x) <= o}
<1>1. IsFiniteSet(L) /\ Cardinality(L) <= Cardinality(M)
      /\ Cardinality(L) \in Nat /\ Cardinality(M) \in Nat
  BY FS_Subset, FS_CardinalityType
<1>2. ASSUME NEW x \in L PROVE Rank(M, x) = Rank(L, x)
  <2>1. \A y \in M : y <= x => y \in L
    <3> SUFFICES ASSUME NEW y \in M, y <= x, y \notin L PROVE FALSE
      OBVIOUS
    <3>1. x < y /\ x \in Nat /\ y \in Nat
      OBVIOUS
    <3> QED BY <3>1
  <2>2. {y \in M : y <= x} = {y \in L : y <= x}
    BY <2>1
  <2> QED BY <2>2 DEF Rank
<1>3. ASSUME NEW y \in M \ L PROVE ~(Rank(M, y) <= o)
  <2>1. o + 1 \in 1 .. Cardinality(L)
    BY <1>1
  <2>2. PICK a \in L : Rank(L, a) = o + 1
    BY <1>1, <2>1, RankTaken
  <2>3. a < y /\ a \in Nat /\ y \in M
    OBVIOUS
  <2>4. Rank(M, a) < Rank(M, y) /\ Rank(M, y) \in Nat
    BY <2>3, RankIncreases, RankRange
  <2> QED BY <1>2, <2>2, <2>4
<1>4. {x \in M : Rank(M, x) <= o} = {x \in L : Rank(L, x) <= o}
  BY <1>2, <1>3
<1>5. o < Cardinality(M)
  BY <1>1
<1> QED BY <1>4, <1>5

LEMMA HistoryShown == Shown("history") = History /\ "history" \in Views
BY DEF Shown, Views

LEMMA FetchKeepsHistory ==
  ASSUME TypeOK, PagingTypeOK, PagingInv, HistoryInv, NEW v \in Views, Fetch(v)
  PROVE  HistoryInv'
<1> SUFFICES ASSUME v = "history" PROVE HistoryInv'
  BY DEF Fetch, HistoryInv
<1> DEFINE H == History
           N == Cardinality(H)
           R == Range(seen)
           P == Page(v, offset)
<1>1. /\ H \in SUBSET Nat /\ IsFiniteSet(H) /\ N \in Nat
      /\ \A x \in H : Rank(H, x) \in 1 .. N
  BY HistoryShown, ShownRows, RankRange
<1>2. /\ offset \in Nat /\ Limit \in Nat /\ view \in Optional(Views)
  BY PagingAssumption DEF PagingTypeOK
<1>3. /\ view' = v /\ offset' = offset + Limit /\ ~finished
      /\ finished' = (offset' >= N)
      /\ view # None => view = v
      /\ stayed' = IF view = None THEN H ELSE stayed
      /\ History' = H
  <2>1. UNCHANGED purchases
    BY DEF Fetch, vars, orderVars
  <2>2. History' = H
    BY <2>1 DEF History
  <2> QED BY <2>2, HistoryShown DEF Fetch
<1>4. /\ Range(P) = {x \in H : Rank(H, x) > offset /\ Rank(H, x) <= offset + Limit}
      /\ \A m, n \in DOMAIN P : m < n => P[m] < P[n]
      /\ P \in Seq(H)
  BY <1>2, HistoryShown, PageRows
<1>5. /\ DOMAIN seen = 1 .. Len(seen) /\ Len(seen) \in Nat
      /\ DOMAIN P = 1 .. Len(P) /\ Len(P) \in Nat
  BY <1>4, SeenTyped, LenProperties
<1>6. /\ DOMAIN seen' = 1 .. Len(seen) + Len(P)
      /\ \A m \in 1 .. Len(seen) : seen'[m] = seen[m]
      /\ \A m \in 1 .. Len(P) : seen'[Len(seen) + m] = P[m]
      /\ Range(seen') = R \cup Range(P)
  BY PageReceived
<1>7. /\ R = {x \in H : Rank(H, x) <= offset} /\ stayed' \subseteq H
      /\ \A m, n \in DOMAIN seen : m < n => seen[m] < seen[n]
  <2>1. CASE view = None
    <3>1. offset = 0 /\ seen = << >>
      BY <2>1 DEF PagingInv
    <3>2. DOMAIN seen = {} /\ R = {}
      BY <3>1 DEF Range
    <3>3. \A x \in H : ~(Rank(H, x) <= 0)
      BY <1>1
    <3> QED BY <1>3, <2>1, <3>1, <3>2, <3>3
  <2>2. CASE view # None
    <3>1. Reading /\ view = "history" /\ stayed' = stayed
      BY <1>3, <2>2 DEF Reading
    <3>2. stayed \subseteq H
      BY <3>1, HistoryShown DEF PagingInv
    <3> QED BY <1>3, <3>1, <3>2 DEF HistoryInv
  <2> QED BY <2>1, <2>2
<1> HIDE DEF H, R, P
<1>8. Range(seen') = {x \in H : Rank(H, x) <= offset + Limit}
  <2>1. \A x \in H : Rank(H, x) \in Nat
    BY <1>1
  <2>2. \A x \in H : Rank(H, x) <= offset => Rank(H, x) <= offset + Limit
    BY <1>2, <2>1
  <2>3. \A x \in H : Rank(H, x) <= offset \/ Rank(H, x) > offset
    BY <1>2, <2>1
  <2> QED BY <1>4, <1>6, <1>7, <2>2, <2>3
<1>9. ASSUME NEW m \in DOMAIN seen', NEW n \in DOMAIN seen', m < n
      PROVE  seen'[m] < seen'[n]
  <2>1. m \in Nat /\ n \in Nat /\ m >= 1 /\ n >= 1
        /\ m <= Len(seen) + Len(P) /\ n <= Len(seen) + Len(P)
    BY <1>5, <1>6
  <2>2. CASE n <= Len(seen)
    <3>1. m \in 1 .. Len(seen) /\ n \in 1 .. Len(seen)
      BY <1>5, <1>9, <2>1, <2>2
    <3> QED BY <1>5, <1>6, <1>7, <1>9, <3>1
  <2>3. CASE ~(n <= Len(seen))
    <3>1. n - Len(seen) \in 1 .. Len(P) /\ Len(seen) + (n - Len(seen)) = n
      BY <1>5, <2>1, <2>3
    <3>2. seen'[n] = P[n - Len(seen)]
      BY <1>6, <3>1
    <3>3. CASE m <= Len(seen)
      <4>1. m \in 1 .. Len(seen)
        BY <1>5, <2>1, <3>3
      <4>2. seen'[m] \in R
        BY <1>5, <1>6, <4>1 DEF Range, R
      <4>3. seen'[n] \in Range(P)
        BY <1>5, <3>1, <3>2 DEF Range
      <4>4. seen'[m] \in H /\ Rank(H, seen'[m]) <= offset
            /\ seen'[n] \in H /\ Rank(H, seen'[n]) > offset
        BY <1>4, <1>7, <4>2, <4>3
      <4>5. seen'[n] < seen'[m] => Rank(H, seen'[n]) < Rank(H, seen'[m])
        BY <1>1, <4>4, RankIncreases
      <4>6. seen'[m] \in Nat /\ seen'[n] \in Nat
            /\ Rank(H, seen'[m]) \in Nat /\ Rank(H, seen'[n]) \in Nat
        <5>1. \A x \in H : x \in Nat /\ Rank(H, x) \in Nat
          BY <1>1
        <5> QED BY <4>4, <5>1
      <4>7. seen'[m] # seen'[n]
        BY <1>2, <4>4, <4>6
      <4> QED BY <1>2, <4>4, <4>5, <4>6, <4>7
    <3>4. CASE ~(m <= Len(seen))
      <4>1. m - Len(seen) \in 1 .. Len(P) /\ Len(seen) + (m - Len(seen)) = m
            /\ m - Len(seen) < n - Len(seen)
        BY <1>5, <1>9, <2>1, <3>4
      <4>2. seen'[m] = P[m - Len(seen)]
        BY <1>6, <4>1
      <4> QED BY <1>4, <1>5, <3>1, <3>2, <4>1, <4>2
    <3> QED BY <3>3, <3>4
  <2> QED BY <2>2, <2>3
<1>10. finished' => stayed' \subseteq Range(seen')
  <2>1. ASSUME finished', NEW x \in H PROVE Rank(H, x) <= offset + Limit
    <3>1. N <= offset + Limit
      BY <1>1, <1>2, <1>3, <2>1
    <3>2. Rank(H, x) \in Nat /\ Rank(H, x) <= N
      BY <1>1
    <3> QED BY <1>1, <1>2, <3>1, <3>2
  <2> QED BY <1>7, <1>8, <2>1
<1>11. ~finished' => offset' < Cardinality(History')
  <2>1. offset' \in Nat /\ N \in Nat /\ Cardinality(History') = N
    BY <1>1, <1>2, <1>3
  <2>2. ~finished' => ~(offset' >= N)
    BY <1>3
  <2> HIDE DEF N
  <2> QED BY <2>1, <2>2
<1>12. Range(seen)' = {x \in History' : Rank(History', x) <= offset'}
  BY <1>3, <1>8
<1> QED BY <1>9, <1>10, <1>11, <1>12 DEF HistoryInv

\* Purchases come at the end of the history, and none ever leaves it.
LEMMA MeanwhileKeepsHistory ==
  ASSUME TypeOK, TypeOK', PagingTypeOK, HistoryInv, Meanwhile PROVE HistoryInv'
<1> SUFFICES ASSUME view = "history" PROVE HistoryInv'
  BY DEF Meanwhile, HistoryInv
<1>1. /\ UNCHANGED <<view, offset, seen, finished>> /\ [Next]_vars
      /\ view' = "history" /\ offset \in Nat
  BY DEF Meanwhile, PagingTypeOK
<1>2. CASE finished
  <2>1. UNCHANGED stayed
    BY <1>2 DEF Meanwhile
  <2> QED BY <1>1, <1>2, <2>1 DEF HistoryInv
<1>3. CASE ~finished
  <2> DEFINE L == History
             M == History'
  <2>1. L \in SUBSET Nat
    BY HistoryShown, ShownRows
  <2>2. M \in SUBSET Nat /\ IsFiniteSet(M)
    <3>1. Shown(view)' = M
      BY <1>1 DEF Shown
    <3> QED BY <1>1, <3>1, HistoryShown, ShownRowsNext
  <2>3. L \subseteq M
    BY <1>1, TablesGrow DEF History
  <2>4. \A y \in M \ L, x \in L : x < y
    BY <1>1, TablesGrow DEF History
  <2>5. offset < Cardinality(L) /\ Range(seen) = {x \in L : Rank(L, x) <= offset}
    BY <1>3 DEF HistoryInv
  <2> HIDE DEF L, M
  <2>6. /\ offset < Cardinality(M)
        /\ {x \in M : Rank(M, x) <= offset} = {x \in L : Rank(L, x) <= offset}
    BY <1>1, <2>1, <2>2, <2>3, <2>4, <2>5, RankKept
  <2>7. offset' < Cardinality(History')
        /\ Range(seen)' = {x \in History' : Rank(History', x) <= offset'}
    BY <1>1, <2>5, <2>6 DEF M
  <2> QED BY <1>1, <1>3, <2>7 DEF HistoryInv
<1> QED BY <1>2, <1>3

LEMMA HistoryInvCorrect == PagingSpec => []HistoryInv
<1>1. PagingInit => HistoryInv
  BY NoViewAssumption, HistoryShown DEF PagingInit, HistoryInv
<1>2. TypeOK /\ TypeOK' /\ PagingTypeOK /\ PagingInv /\ HistoryInv
        /\ [PagingNext]_pagingVars => HistoryInv'
  <2> SUFFICES ASSUME TypeOK, TypeOK', PagingTypeOK, PagingInv, HistoryInv,
                      [PagingNext]_pagingVars
               PROVE  HistoryInv'
    OBVIOUS
  <2>1. CASE UNCHANGED pagingVars
    BY <2>1 DEF HistoryInv, History, pagingVars, readerVars, vars, orderVars
  <2>2. ASSUME NEW v \in Views, Fetch(v) PROVE HistoryInv'
    BY <2>2, FetchKeepsHistory
  <2>3. CASE Meanwhile
    BY <2>3, MeanwhileKeepsHistory
  <2> QED BY <2>1, <2>2, <2>3 DEF PagingNext
<1> QED BY <1>1, <1>2, PagingTypeCorrect, PagingInvCorrect, PTL DEF PagingSpec

\* A history is read once and whole, whatever is bought and refunded meanwhile.
THEOREM HistoryReadCorrect == PagingSpec => []HistoryExact
<1>1. HistoryInv => HistoryExact
  BY DEF HistoryInv, HistoryExact
<1> QED BY <1>1, HistoryInvCorrect, PTL
=============================================================================
