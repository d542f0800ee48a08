------------------------------ MODULE MCBuyFlow ------------------------------
(* Values of the constants of BuyFlow for TLC. *)
EXTENDS BuyFlow, TLC

FreeItem == << [sku |-> "red", price |-> 0] >>
Same == [s \in Skus |-> s]

AnyRequest ==
  Permutations(Requests) \cup Permutations(Keys) \cup Permutations(Users)
=============================================================================
