---------------------------- MODULE MCTransaction ----------------------------
(* Values of the constants of Transaction for TLC. *)
EXTENDS Transaction, TLC

OneItem == << [sku |-> "red", price |-> 2] >>
Same == [s \in Skus |-> s]

AnyKey == Permutations(Keys)
=============================================================================
