------------------------------ MODULE MCWpAead ------------------------------
EXTENDS WpAead, TLC

CONSTANTS k1, k2, f1

(* What each build stands, beyond the plain protocol. *)
MCHabits ==
  {<<"gcm_stream", h>> : h \in {"abandon", "leave_tag", "reuse"}}
  \cup {<<"gcm", "empty">>}

MCSymmetry == Permutations({k1, k2})
==============================================================================
