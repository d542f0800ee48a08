------------------------------ MODULE MCPaging ------------------------------
(* Values of the constants of Paging for TLC. *)
EXTENDS Paging, TLC

SameSku == [s \in Skus |-> s]
OneItem == << [sku |-> "s1", price |-> 0] >>
TwoItems == Append(OneItem, [sku |-> "s2", price |-> 0])
AnyKey == Permutations(Keys)
=============================================================================
