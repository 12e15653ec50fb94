----------------------------- MODULE MCWpKeyRef -----------------------------
EXTENDS WpKeyRef, TLC

CONSTANTS t1, t2, k1, k2, c1, c2

(* Two keys and two contexts of one family: only they can meet. *)
Families ==
  {<<"rsa", "rsa_pss", "rsa_sig", c>> :
     c \in {"rsa_sig", "rsa_kem", "rsa_asym"}}
  \cup {<<"rsa", "rsa", "rsa_asym", "rsa_asym">>}
  \cup {<<"ecc", "ecc", c, "ecdsa">> : c \in {"ecdsa", "ecdh"}}
  \cup {<<"ecc", "ecc", "ecdh", "ecdh">>}
  \cup {<<"ecx", "ecx", "eddsa", "xdh">>, <<"dh_key", "dh_key", "dh", "dh">>}

(* Each family in every placement, so that keys and contexts are symmetric. *)
MCCasts ==
  {(k :> f[1]) @@ (l :> f[2]) @@ (c :> f[3]) @@ (d :> f[4]) :
     f \in Families,
     <<k, l>> \in {<<k1, k2>>, <<k2, k1>>}, <<c, d>> \in {<<c1, c2>>, <<c2, c1>>}}

MCSymmetry ==
  Permutations({t1, t2}) \cup Permutations({k1, k2}) \cup Permutations({c1, c2})
==============================================================================
