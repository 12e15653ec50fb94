------------------------------ MODULE MCWpCast ------------------------------
(* Three categories: one with a chain of two CASTs (as AES and ECDH have), *)
(* one with a single CAST (RSA, ECDSA, DH, DRBG), one that this build does *)
(* not have; and one refused value.                                        *)
EXTENDS WpCast

MCAlgo == {"AES", "DH", "absent"}
MCBadAlgo == {"out_of_range"}
MCNumTests == [a \in MCAlgo |-> CASE a = "AES" -> 2 [] a = "DH" -> 1 [] a = "absent" -> 0]
==============================================================================
