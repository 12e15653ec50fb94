------------------------------ MODULE MCWpCodec ------------------------------
EXTENDS WpCodec

(* Keys to save: one of each family, and PSS keys with the restrictions the *)
(* encoder treats each in its own way.                                     *)
CK(alg, pss, small) == [alg |-> alg, id |-> <<"k">>, has |-> {}, pss |-> pss, small |-> small]
Pss(md, mgf, salt) == [md |-> md, mgf |-> mgf, salt |-> salt]
MCCodecKeys ==
  {CK(a, NoPss, FALSE) : a \in {"RSA", "DH", "EC", "X25519", "ED448"}}
  \cup {CK("RSA-PSS", Pss("SHA256", "SHA256", 32), FALSE), CK("RSA-PSS", Pss("SHA512", "SHA256", 222), FALSE),
        CK("RSA-PSS", NoPss, FALSE), CK("RSA-PSS", Pss("SHA1", "SHA1", 256), TRUE),
        CK("RSA-PSS", Pss("SHA384", "SHA384", 0), TRUE)}

(* What other tools write: encrypted PKCS #8 and encrypted PEM, a certificate *)
(* and text around the objects.                                              *)
FKey(alg, pss) == [alg |-> alg, id |-> <<"f">>, has |-> {"pub", "priv"}
                                   \cup (IF alg \in {"EC", "DH"} THEN {"params"} ELSE {}), pss |-> pss]
FPiece(form, key, head, lock) ==
  [form |-> form, key |-> key, head |-> head, lock |-> lock, secret |-> lock # "none", asks |-> AsksPair, due |-> key]
CertKey == [alg |-> "cert", id |-> <<"f">>, has |-> {}, pss |-> NoPss]
MCForeign ==
  {FPiece("epki", FKey("RSA", NoPss), h, "pbes2") : h \in {"none", "ENCRYPTED PRIVATE KEY"}}
  \cup {FPiece("epki", FKey("EC", NoPss), h, "pbes2") : h \in {"none", "ENCRYPTED PRIVATE KEY"}}
  \cup {FPiece("trad", FKey("RSA", NoPss), "RSA PRIVATE KEY", "dek"),
        FPiece("trad", FKey("EC", NoPss), "EC PRIVATE KEY", "dek"),
        FPiece("cert", CertKey, "CERTIFICATE", "none"),
        FPiece("text", NoKeyRead, "text", "none")}
==============================================================================
