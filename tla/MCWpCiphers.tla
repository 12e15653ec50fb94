----------------------------- MODULE MCWpCiphers -----------------------------
EXTENDS MCWpAead, MCWpBlockCipher, WpStream

(* A program that uses authenticated encryption, a block cipher, or one of *)
(* the other modes.                                                         *)
CiphersInit ==
  \/ AeadInit /\ BlockIdle /\ StreamIdle
  \/ AeadIdle /\ Init /\ StreamIdle
  \/ AeadIdle /\ BlockIdle /\ StreamInit
CiphersNext ==
  \/ mode # "none" /\ AeadNext /\ UNCHANGED <<vars, streamVars>>
  \/ alg # "none" /\ Next /\ UNCHANGED <<aeadVars, streamVars>>
  \/ stream # "none" /\ StreamNext /\ UNCHANGED <<aeadVars, vars>>
CiphersSpec == CiphersInit /\ [][CiphersNext]_<<aeadVars, vars, streamVars>>
==============================================================================
