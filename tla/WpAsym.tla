------------------------------- MODULE WpAsym -------------------------------
(***************************************************************************)
(* RSA encryption (wp_rsa_asym.c) and the RSASVE key encapsulation         *)
(* (wp_rsa_kem.c) between the holder of a public key, "enc", and the       *)
(* holder of the private key, "dec", each with a context of its own and    *)
(* parameters of its own.                                                  *)
(*                                                                         *)
(* A ciphertext is the record of the message and of all it was made with.  *)
(* The message of TLS padding is a premaster secret: its client version.   *)
(***************************************************************************)
EXTENDS Naturals

CONSTANTS
  AsymMd,       \* digests of OAEP
  Labels,
  Versions,     \* of TLS
  MaxAsymSets,  \* bound: parameters set on each side
  AsymHabits    \* what programs do beyond the plain protocol

AsymHabit == {"mgf_without_digest", "tls_copy"}
ASSUME AsymAssumption ==
  /\ AsymHabits \subseteq AsymHabit /\ MaxAsymSets \in Nat /\ "" \notin Versions
  /\ "" \notin AsymMd /\ "none" \notin AsymMd

VARIABLES
  scheme,   \* "cipher" or "kem"
  party,    \* wp_RsaAsymCtx or wp_RsaKemCtx of each side
  wants,    \* what each side has asked for
  sent,     \* the ciphertext
  reply     \* what the decrypting side got, and what was due

asymVars == <<scheme, party, wants, sent, reply>>

Side == {"enc", "dec"}
AsymCtxNew == [op |-> "none", pad |-> "unset", hash |-> "none", mgf |-> "none",
               mgfSet |-> FALSE, mdName |-> "", mgfName |-> "", label |-> "",
               client |-> "", neg |-> ""]
KemCtxNew == AsymCtxNew
Unasked == [pad |-> "pkcs1", md |-> "", mgf |-> "", label |-> "", client |-> "", neg |-> "",
            sve |-> FALSE, sets |-> 0, copied |-> FALSE]
NoCipher == [pad |-> "unset"]
Silence == [got |-> "none", due |-> "none"]

AsymInit ==
  /\ scheme \in {"cipher", "kem"}
  /\ party = [x \in Side |-> AsymCtxNew] /\ wants = [x \in Side |-> Unasked]
  /\ sent = NoCipher /\ reply = Silence

AsymIdle ==
  /\ scheme = "none" /\ party = <<>> /\ wants = <<>> /\ sent = NoCipher /\ reply = Silence

Yes(c) == [ok |-> TRUE, c |-> c]
No(c) == [ok |-> FALSE, c |-> c]

------------------------------------------------------------------------------
(* Parameters.  The type of the OAEP digest and the name of the mask's are   *)
(* written before they are looked at; the mask follows the digest until it   *)
(* is set.                                                                   *)
(* A mask that is set again with every digest. *)
AsymSetupMdAlways(c, m) ==
  IF m = "MD5" THEN No(c)
  ELSE Yes([c EXCEPT !.hash = m, !.mdName = m, !.mgf = m, !.mgfName = m])

AsymSetupMd(c, m) ==
  LET typed == [c EXCEPT !.hash = m]
  IN IF m = "MD5" THEN No(typed)
     ELSE Yes(IF c.mgfSet THEN [typed EXCEPT !.mdName = m]
              ELSE [typed EXCEPT !.mdName = m, !.mgf = m, !.mgfName = m])

AsymSetupMgf1(c, m) ==
  LET named == [c EXCEPT !.mgfName = m]
  IN IF m = "MD5" THEN No([named EXCEPT !.mgf = "none"])
     ELSE Yes([named EXCEPT !.mgf = m, !.mgfSet = TRUE])

AsymSetPadMode(c, p) == Yes([c EXCEPT !.pad = p])

AsymSettings ==
  [what : {"md", "mgf"}, to : AsymMd] \cup [what : {"label"}, to : Labels]
  \cup [what : {"pad"}, to : {"pkcs1", "oaep", "none", "tls"}]
  \cup [what : {"client", "neg"}, to : Versions]

AsymSetCtxParam(c, s) ==
  CASE s.what = "md" -> AsymSetupMd(c, s.to)
    [] s.what = "mgf" -> IF c.pad = "oaep" THEN AsymSetupMgf1(c, s.to) ELSE No(c)
    [] s.what = "pad" -> AsymSetPadMode(c, s.to)
    [] s.what = "label" -> Yes([c EXCEPT !.label = s.to])
    [] s.what = "client" -> Yes([c EXCEPT !.client = s.to])
    [] s.what = "neg" -> Yes([c EXCEPT !.neg = s.to])

(* KEM has one parameter, and no operation before it is set. *)
KemSetCtxParam(c) == [c EXCEPT !.op = "rsasve"]

(* A copy is without the TLS versions. *)
AsymCtxDup(c) == [c EXCEPT !.client = "", !.neg = ""]
KemCtxDup(c) == [KemCtxNew EXCEPT !.op = c.op]

------------------------------------------------------------------------------
(* Init leaves all but the padding mode and the operation.                   *)
AsymCtxInit(c, x) == [c EXCEPT !.op = x, !.pad = "pkcs1"]

StartAsym(x) ==
  /\ scheme # "none" /\ party[x].pad = "unset"
  /\ party' = [party EXCEPT ![x] = IF scheme = "cipher" THEN AsymCtxInit(@, x)
                                   ELSE [@ EXCEPT !.pad = "kem"]]
  /\ UNCHANGED <<scheme, wants, sent, reply>>

Busy(x) == scheme # "none" /\ party[x].pad # "unset" /\ (x = "enc" => sent = NoCipher)

SetAsym(x, s) ==
  /\ Busy(x) /\ scheme = "cipher" /\ wants[x].sets < MaxAsymSets
  /\ x = "enc" => s.what \notin {"client", "neg"}
  /\ LET r == AsymSetCtxParam(party[x], s)
     IN IF r.ok
        THEN /\ party' = [party EXCEPT ![x] = r.c]
             /\ wants' = [wants EXCEPT ![x] = [@ EXCEPT !.sets = wants[x].sets + 1, ![s.what] = s.to]]
        ELSE /\ party' = [party EXCEPT ![x] = AsymCtxNew]
             /\ wants' = [wants EXCEPT ![x] = [Unasked EXCEPT !.sets = wants[x].sets]]
  /\ UNCHANGED <<scheme, sent, reply>>

SetKem(x) ==
  /\ Busy(x) /\ scheme = "kem"
  /\ party' = [party EXCEPT ![x] = KemSetCtxParam(@)]
  /\ wants' = [wants EXCEPT ![x].sve = TRUE]
  /\ UNCHANGED <<scheme, sent, reply>>

CopyAsym(x) ==
  /\ Busy(x) /\ ~wants[x].copied
  /\ party' = [party EXCEPT ![x] = IF scheme = "cipher" THEN AsymCtxDup(@)
                                   ELSE [KemCtxDup(@) EXCEPT !.pad = "kem"]]
  /\ wants' = [wants EXCEPT ![x].copied = TRUE]
  /\ UNCHANGED <<scheme, sent, reply>>

------------------------------------------------------------------------------
(* OAEP without a digest: SHA-1 for the digest and for the mask, written to  *)
(* the context that is used and left in it.                                  *)
OaepDefault(c) == IF c.hash = "none" THEN [c EXCEPT !.hash = "SHA1", !.mgf = "SHA1"] ELSE c
Used(c) == IF c.pad = "oaep" THEN OaepDefault(c) ELSE c

Cipher(p, h, g, l, m) == [pad |-> p, hash |-> h, mgf |-> g, label |-> l, msg |-> m]

AsymEncrypt(c, m) ==
  CASE c.pad \in {"pkcs1", "tls"} -> Cipher("pkcs1", "none", "none", "", m)
    [] c.pad = "oaep" -> Cipher("oaep", OaepDefault(c).hash, OaepDefault(c).mgf, c.label, m)
    [] c.pad = "none" -> Cipher("none", "none", "none", "", m)

(* What comes out: the message, "fail", or, for TLS, random bytes in place   *)
(* of a secret that is not one of the versions expected.                     *)
TlsSecretAnyVersion(c, e) == IF e.pad = "pkcs1" THEN e.msg ELSE "random"

TlsSecret(c, e) ==
  IF e.pad = "pkcs1" /\ (e.msg = c.client \/ (c.neg # "" /\ e.msg = c.neg)) THEN e.msg ELSE "random"

TlsUnpad(c, e) == IF c.client = "" THEN "fail" ELSE TlsSecret(c, e)

AsymDecrypt(c, e) ==
  CASE c.pad = "pkcs1" -> IF e.pad = "pkcs1" THEN e.msg ELSE "fail"
    [] c.pad = "oaep" ->
         IF e.pad = "oaep" /\ e.hash = OaepDefault(c).hash /\ e.mgf = OaepDefault(c).mgf
            /\ e.label = c.label
         THEN e.msg ELSE "fail"
    [] c.pad = "tls" -> TlsUnpad(c, e)
    [] c.pad = "none" -> IF e.pad = "none" THEN e.msg ELSE "block"

(* RSASVE: the secret is a number of [2, n-2], the ciphertext its raw        *)
(* encryption; without the parameter the answer is -2.                       *)
RsasveGenerate(c) == Cipher("rsasve", "none", "none", "", "secret")
KemEncapsulate(c) == IF c.op = "rsasve" THEN RsasveGenerate(c) ELSE NoCipher
RsasveRecover(c, e) == e.msg
KemDecapsulate(c, e) == IF c.op = "rsasve" THEN RsasveRecover(c, e) ELSE "fail"

------------------------------------------------------------------------------
HashAsked(w) == IF w.md = "" THEN "SHA1" ELSE w.md
MgfAsked(w) == IF w.mgf = "" THEN HashAsked(w) ELSE w.mgf
CipherAsked(w, m) ==
  CASE w.pad \in {"pkcs1", "tls"} -> Cipher("pkcs1", "none", "none", "", m)
    [] w.pad = "oaep" -> Cipher("oaep", HashAsked(w), MgfAsked(w), w.label, m)
    [] w.pad = "none" -> Cipher("none", "none", "none", "", m)

(* What the holder of the private key is to get. *)
DueOf(w, e) ==
  CASE w.pad = "tls" ->
         IF w.client = "" THEN "fail"
         ELSE IF e.pad = "pkcs1" /\ e.msg \in {w.client, w.neg} THEN e.msg ELSE "random"
    [] w.pad = "none" -> IF e.pad = "none" THEN e.msg ELSE "block"
    [] OTHER -> IF e = CipherAsked(w, e.msg) THEN e.msg ELSE "fail"

Usual(x) ==
  LET w == wants[x]
  IN /\ w.mgf # "" /\ w.md = "" => "mgf_without_digest" \in AsymHabits
     /\ w.copied /\ w.pad = "tls" => "tls_copy" \in AsymHabits

Encrypt(m) ==
  /\ scheme = "cipher" /\ Busy("enc") /\ Usual("enc")
  /\ sent' = AsymEncrypt(party["enc"], m)
  /\ party' = [party EXCEPT !["enc"] = Used(@)]
  /\ UNCHANGED <<scheme, wants, reply>>

Encapsulate ==
  /\ scheme = "kem" /\ Busy("enc")
  /\ sent' = KemEncapsulate(party["enc"])
  /\ UNCHANGED <<scheme, party, wants, reply>>

Decrypt ==
  /\ scheme = "cipher" /\ Busy("dec") /\ sent # NoCipher /\ Usual("dec")
  /\ reply' = [got |-> AsymDecrypt(party["dec"], sent), due |-> DueOf(wants["dec"], sent)]
  /\ party' = [party EXCEPT !["dec"] = Used(@)]
  /\ UNCHANGED <<scheme, wants, sent>>

Decapsulate ==
  /\ scheme = "kem" /\ Busy("dec") /\ sent # NoCipher /\ reply = Silence
  /\ reply' = [got |-> KemDecapsulate(party["dec"], sent),
               due |-> IF wants["dec"].sve THEN "secret" ELSE "fail"]
  /\ UNCHANGED <<scheme, party, wants, sent>>

AsymNext ==
  \/ \E x \in Side : StartAsym(x) \/ SetKem(x) \/ CopyAsym(x)
  \/ \E x \in Side, s \in AsymSettings : SetAsym(x, s)
  \/ \E m \in Versions : Encrypt(m)
  \/ Encapsulate \/ Decrypt \/ Decapsulate

AsymSpec == AsymInit /\ [][AsymNext]_asymVars

------------------------------------------------------------------------------
(* A ciphertext is made with the padding, digest, mask and label asked for,  *)
(* in whatever order they were set.                                          *)
EncryptedAsAsked ==
  sent # NoCipher /\ scheme = "cipher" => sent = CipherAsked(wants["enc"], sent.msg)

(* The holder of the private key gets the message when it asked for what the *)
(* sender used, and a premaster secret only in the versions it named; what   *)
(* else comes is an error or, for TLS, random.                               *)
DecryptionTrue == reply.got = reply.due
==============================================================================
