------------------------------ MODULE MCWpKeys ------------------------------
EXTENDS MCWpKeyMgmt, MCWpCodec, MCWpKdfMac

(* A program that makes keys, that saves and loads them, or one that derives *)
(* keys, digests, or makes MACs.  The first one is as it starts, with RSA    *)
(* keys, while one of the others runs.                                       *)
NoKeys == fam = "rsa" /\ Init
KeysInit ==
  \/ Init /\ CodecIdle /\ KdfIdle /\ DigestIdle /\ MacIdle
  \/ NoKeys /\ CodecInit /\ KdfIdle /\ DigestIdle /\ MacIdle
  \/ NoKeys /\ CodecIdle /\ KdfMacInit
KeysNext ==
  \/ /\ store.setup # "idle" /\ CodecNext
     /\ UNCHANGED <<vars, kdfVars, digestVars, macVars>>
  \/ /\ <<kdf, digest, mac>> # <<"none", "none", "none">> /\ KdfMacNext
     /\ UNCHANGED <<vars, codecVars>>
  \/ /\ store.setup = "idle" /\ <<kdf, digest, mac>> = <<"none", "none", "none">> /\ Next
     /\ UNCHANGED <<codecVars, kdfVars, digestVars, macVars>>
KeysSpec == KeysInit /\ [][KeysNext]_<<vars, codecVars, kdfVars, digestVars, macVars>>
=============================================================================
