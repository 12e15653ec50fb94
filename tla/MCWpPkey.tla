------------------------------ MODULE MCWpPkey ------------------------------
EXTENDS WpSignature, WpAsym, WpExchange

K(fam, md, mgf, salt, set, small) ==
  [fam |-> fam, md |-> md, mgf |-> mgf, salt |-> salt, set |-> set, small |-> small]

(* One key of each family, RSA and EC keys too small for FIPS, PSS keys      *)
(* generated and imported with restrictions, and one decoded without.        *)
MCKeys ==
  {K(f, "", "", 0, FALSE, FALSE) : f \in {"rsa", "pss", "ecdsa", "ecx"}}
  \cup {K(f, "", "", 0, FALSE, TRUE) : f \in {"rsa", "ecdsa"}}
  \cup {K("pss", "SHA512", "SHA512", 64, FALSE, FALSE),
        K("pss", "SHA512", "SHA256", 32, TRUE, FALSE), K("pss", "", "", 0, TRUE, FALSE)}
MCMd == {"SHA-1", "SHA256", "SHA512"}
MCAsymMd == {"MD5", "SHA1", "SHA256"}

(* Two keys of one group with a short secret, and one of another group; *)
(* curve secrets around the order, which starts and ends in the digits 1. *)
MCGroup == [k \in {"ka", "kb", "kc"} |-> IF k = "kc" THEN "g2" ELSE "g1"]
MCShort == {{"ka", "kb"}}
MCOrder == <<1, 3, 1>>
MCSecrets == {<<a, b, c>> : a \in 0 .. 1, b \in 0 .. 3, c \in 0 .. 3}

(* A program that signs and verifies, a pair that encrypts, or one that *)
(* agrees on secrets. *)
PkeyInit ==
  \/ Init /\ AsymIdle /\ ExchIdle
  \/ Idle /\ AsymInit /\ ExchIdle
  \/ Idle /\ AsymIdle /\ ExchInit
PkeyNext ==
  \/ scheme # "none" /\ AsymNext /\ UNCHANGED <<vars, exchVars>>
  \/ exch # "none" /\ ExchNext /\ UNCHANGED <<vars, asymVars>>
  \/ scheme = "none" /\ exch = "none" /\ Next /\ UNCHANGED <<asymVars, exchVars>>
PkeySpec == PkeyInit /\ [][PkeyNext]_<<vars, asymVars, exchVars>>
==============================================================================
