------------------------------- MODULE MCShop -------------------------------
(* Values of the constants of Shop and Schema for TLC. *)
EXTENDS Schema, TLC

OneItem == << [sku |-> "red", price |-> 2] >>

\* "RED" and "red" are spellings of one SKU.
Lower == [s \in Skus |-> IF s = "RED" THEN "red" ELSE s]

Anyone == Permutations(Users)
AnyKeyOrRef == Permutations(Keys) \cup Permutations(Refs)
AnyOfEach == Anyone \cup AnyKeyOrRef
=============================================================================
