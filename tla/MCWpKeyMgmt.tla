---------------------------- MODULE MCWpKeyMgmt ----------------------------
(* Two keys of every family, generated, imported and copied.               *)
EXTENDS WpKeyMgmt, TLC

CONSTANTS s1, s2, s3, m1, m2

AllFamilies == Family
PlainUses == {}
MCSymmetry == Permutations({s1, s2, s3})
============================================================================
