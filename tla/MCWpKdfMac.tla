----------------------------- MODULE MCWpKdfMac -----------------------------
EXTENDS WpKdf, WpDigest, WpMac

(* Bytes with and without their high bits, in every length up to three *)
(* quarters of a block, which divide it and do not; a whole block, and *)
(* one byte more; and nothing.                                         *)
MCBytes == {0, 1, 200, 255}
MCConstants == UNION {[1 .. n -> MCBytes] : n \in 1 .. 3} \cup {<<>>, <<1, 2, 3, 4>>, <<1, 2, 3, 4, 5>>}
MCInputs == {<<"a">>, <<"a", "b", "c">>}

(* A program that derives keys, digests, or makes MACs. *)
KdfMacInit ==
  \/ KdfInit /\ DigestIdle /\ MacIdle
  \/ KdfIdle /\ DigestInit /\ MacIdle
  \/ KdfIdle /\ DigestIdle /\ MacInit
KdfMacNext ==
  \/ kdf # "none" /\ KdfNext /\ UNCHANGED <<digestVars, macVars>>
  \/ digest # "none" /\ DigestNext /\ UNCHANGED <<kdfVars, macVars>>
  \/ mac # "none" /\ MacNext /\ UNCHANGED <<kdfVars, digestVars>>
KdfMacSpec == KdfMacInit /\ [][KdfMacNext]_<<kdfVars, digestVars, macVars>>
=============================================================================
