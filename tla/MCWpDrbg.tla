------------------------------ MODULE MCWpDrbg ------------------------------
(* Two shapes of tree.  In the first, a context both threads call stands    *)
(* beside a chain of two that belongs to one of them; in the second, as in  *)
(* libcrypto, a shared primary is the parent of one context of each thread. *)
EXTENDS WpDrbg

T == {"t1", "t2"}

ChainDrbg == {"shared", "top", "leaf"}
ChainParent == [n \in ChainDrbg \cup {"seedsrc"} |->
  CASE n = "top" -> "seedsrc" [] n = "leaf" -> "top" [] OTHER -> NoParent]
ChainUsers == [n \in ChainDrbg \cup {"seedsrc"} |->
  CASE n \in {"shared", "seedsrc"} -> T [] n \in {"top", "leaf"} -> {"t1"}]

RandDrbg == {"primary", "private1", "private2"}
RandParent == [n \in RandDrbg |-> IF n = "primary" THEN NoParent ELSE "primary"]
RandUsers == [n \in RandDrbg |->
  CASE n = "primary" -> T [] n = "private1" -> {"t1"} [] n = "private2" -> {"t2"}]

(* The theorems about confined trees speak of the first shape, and cannot   *)
(* speak of the second.                                                     *)
ASSUME ShapeAssumption ==
  /\ Drbg = ChainDrbg => ConfinedTrees
  /\ Drbg = RandDrbg => ~ConfinedTrees
==============================================================================
