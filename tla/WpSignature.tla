----------------------------- MODULE WpSignature -----------------------------
(***************************************************************************)
(* Signature contexts: RSA PKCS#1, PSS, X9.31 and raw (wp_rsa_sig.c),      *)
(* ECDSA (wp_ecdsa_sig.c) and Ed25519/Ed448 (wp_ecx_sig.c), of one key,    *)
(* through one signature and verification after another.                   *)
(*                                                                         *)
(* A message is the sequence of the pieces fed.  A digest is the record of *)
(* its algorithm and of its message, a signature the record of all that    *)
(* went into it.                                                           *)
(***************************************************************************)
EXTENDS Integers, Sequences

CONSTANTS
  Keys,       \* [fam, md, mgf, salt, set, small]
  Md,         \* the digests programs name
  Fips,       \* built with HAVE_FIPS
  KeyLen,     \* length of an RSA signature
  MaxPieces,  \* bound: pieces of a message
  MaxSets,    \* bound: parameters set in the life of a context
  MaxSigs,    \* bound: signatures made
  Habits      \* what programs do beyond the plain protocol

Family == {"rsa", "pss", "ecdsa", "ecx"}
PssMd == {"", "SHA-1", "SHA256", "SHA512"}   \* digests of PSS restrictions
Habit == {"reinit", "init_params", "after_dup", "raw_pss", "raw_to_digest", "on_refusal"}

ASSUME SignatureAssumption ==
  /\ Keys \subseteq [fam : Family, md : PssMd, mgf : PssMd, salt : Nat, set : BOOLEAN,
                     small : BOOLEAN]
  /\ \A k \in Keys : k.fam # "pss" => k.md = ""
  /\ Md \subseteq {"MD5", "SHA-1", "SHA256", "SHA512"} /\ Fips \in BOOLEAN
  /\ KeyLen \in Nat /\ KeyLen >= 66   \* room for the longest digest and PSS's two bytes
  /\ MaxPieces \in Nat /\ MaxSets \in Nat /\ MaxSigs \in Nat
  /\ Habits \subseteq Habit

VARIABLES
  key,     \* the key of the contexts, with its PSS restrictions
  ctx,     \* wp_RsaSigCtx, wp_EcdsaSigCtx, wp_EcxSigCtx
  told,    \* the operation as the program has asked for it
  sigs,    \* signatures made so far, each with what it was asked to be
  result   \* the last answer of a verification, and the one due

vars == <<key, ctx, told, sigs, result>>

Rsa == key.fam \in {"rsa", "pss"}
HLen(m) ==
  CASE m = "SHA512" -> 64 [] m = "SHA256" -> 32 [] m = "SHA-1" -> 20 [] OTHER -> 16
MaxSalt(m) == KeyLen - HLen(m) - 2

(* The special values of a salt length: RSA_PSS_SALTLEN_* of OpenSSL.        *)
DigestSalt == -1
AutoSalt == -2
LongSalt == -3
AutoDigestMax == -4
Discover == -2    \* RSA_PSS_SALT_LEN_DISCOVER of wolfSSL

NewCtx == [op |-> "none", pad |-> "unset", type |-> "none", fed |-> <<>>, name |-> "",
           salt |-> 0, min |-> 0, mgf |-> "none", mgfSet |-> FALSE, mgfName |-> ""]

Nothing == [op |-> "none", way |-> "digest", data |-> <<>>, md |-> "", pad |-> "unset",
            mgf |-> "", salt |-> {}, sets |-> 0, copied |-> FALSE]

TypeOK ==
  /\ key \in Keys
  /\ ctx \in [op : {"none", "sign", "verify", "recover"},
              pad : {"unset", "pkcs1", "pss", "none", "x931"},
              type : Md \cup {"none", "SHA-1", "SHA256"},
              fed : {ctx.fed}, name : Md \cup {"", "SHA-1", "SHA256"},
              salt : -4 .. KeyLen, min : 0 .. KeyLen,
              mgf : Md \cup {"none", "SHA-1", "SHA256"}, mgfSet : BOOLEAN,
              mgfName : Md \cup {"", "SHA-1", "SHA256"}]
  /\ Len(ctx.fed) <= 2 * MaxPieces /\ Len(told.data) <= MaxPieces

Init ==
  /\ key \in Keys /\ ctx = NewCtx /\ told = Nothing /\ sigs = <<>>
  /\ result = [got |-> FALSE, due |-> FALSE]

Idle ==
  /\ key = <<>> /\ ctx = NewCtx /\ told = Nothing /\ sigs = <<>>
  /\ result = [got |-> FALSE, due |-> FALSE]

Done(c) == [ok |-> TRUE, c |-> c]
Refused(c) == [ok |-> FALSE, c |-> c]

------------------------------------------------------------------------------
(* The digest.  RSA checks it before it writes anything; once set it stays.  *)
RsaSetupMd(c, m, op) ==
  LET named == [c EXCEPT !.type = m, !.fed = <<>>, !.name = m]
  IN IF /\ c.pad = "pss" => key.md = m     \* minSaltLen is never -1
        /\ c.pad # "none" /\ m # "MD5"
        /\ c.type \in {"none", m}
        /\ ~(Fips /\ m = "SHA-1" /\ op = "sign")
     THEN Done(IF c.mgfSet THEN named ELSE [named EXCEPT !.mgf = m, !.mgfName = m])
     ELSE Refused(c)

(* ECDSA writes the type first. *)
EcdsaSetupMdAnyOp(c, m, op) ==
  IF m = "MD5" THEN Refused([c EXCEPT !.type = m])
  ELSE Done([c EXCEPT !.type = m, !.fed = <<>>, !.name = m])
EcdsaSetupMd(c, m, op) ==
  LET typed == [c EXCEPT !.type = m]
  IN IF m = "MD5" \/ (Fips /\ m = "SHA-1" /\ op = "sign")
     THEN Refused(typed) ELSE Done([typed EXCEPT !.fed = <<>>, !.name = m])

SetupMd(c, m, op) == IF Rsa THEN RsaSetupMd(c, m, op) ELSE EcdsaSetupMd(c, m, op)

(* The name is written first here. *)
SetupMgf1(c, m) ==
  LET named == [c EXCEPT !.mgfName = m]
  IN IF c.mgfSet /\ c.mgf # m THEN Refused(named)
     ELSE Done([named EXCEPT !.mgf = m, !.mgfSet = TRUE])

SetPadMode(c, p) ==
  IF \/ p = "pss"
     \/ p \in {"pkcs1", "x931"} /\ key.fam = "rsa"
     \/ p = "none" /\ c.type = "none"
  THEN Done([c EXCEPT !.pad = p]) ELSE Refused(c)

SaltAllowed(c) == c.salt >= AutoDigestMax /\ (c.salt >= 0 => c.salt >= c.min)

SetSaltLenLate(c, n) ==
  IF c.pad = "pss" /\ SaltAllowed(c) THEN Done([c EXCEPT !.salt = n]) ELSE Refused(c)

(* The length is written first; special values are not held against min. *)
SetSaltLen(c, n) ==
  LET set == [c EXCEPT !.salt = n]
  IN IF c.pad = "pss" /\ SaltAllowed(set) THEN Done(set)
     ELSE Refused(IF c.pad = "pss" THEN set ELSE c)

SetMgf1Digest(c, m) == IF c.pad = "pss" THEN SetupMgf1(c, m) ELSE Refused(c)

(* What a program sets, one at a time; EdDSA has no parameters to set. *)
Settings ==
  [what : {"md"}, to : Md] \cup [what : {"mgf"}, to : Md \ {"MD5"}]
  \cup [what : {"pad"}, to : {"pkcs1", "pss", "none", "x931"}]
  \cup [what : {"salt"}, to : {DigestSalt, AutoSalt, LongSalt, 20}]

SetCtxParam(c, s) ==
  CASE s.what = "md" -> SetupMd(c, s.to, c.op)
    [] s.what = "pad" -> SetPadMode(c, s.to)
    [] s.what = "salt" -> SetSaltLen(c, s.to)
    [] s.what = "mgf" -> SetMgf1Digest(c, s.to)

SetAll(c, given) == IF given = <<>> THEN Done(c) ELSE SetCtxParam(c, given[1])

CheckPssSaltLen(c) ==
  IF c.min <= MaxSalt(c.type) /\ SaltAllowed(c) THEN Done(c) ELSE Refused(c)

------------------------------------------------------------------------------
(* Init.  The padding mode of an RSA key is reset after the parameters given *)
(* are in, but for X9.31.  The restrictions of a PSS key are in force when   *)
(* it was decoded or imported with them; of a generated one, its salt.       *)
Restrict(c) ==
  LET m == IF key.md = "" THEN "SHA256" ELSE key.md
      g == IF key.mgf = "" THEN "SHA256" ELSE key.mgf
      digest == RsaSetupMd([c EXCEPT !.pad = "pss", !.salt = AutoDigestMax], m, "verify")
      mask == IF digest.ok THEN SetupMgf1(digest.c, g) ELSE digest
  IN IF mask.ok THEN CheckPssSaltLen([mask.c EXCEPT !.min = key.salt]) ELSE mask

RsaPadInit(c) ==
  CASE key.fam = "rsa" -> Done([c EXCEPT !.pad = IF @ = "x931" THEN @ ELSE "pkcs1"])
    [] key.fam = "pss" /\ ~key.set ->
         Done([c EXCEPT !.pad = "pss", !.min = key.salt,
                        !.salt = IF key.salt = 0 THEN AutoDigestMax ELSE key.salt])
    [] key.fam = "pss" /\ key.set -> Restrict(c)

RsaSignVerifyInit(c, op, given) ==
  LET set == SetAll([c EXCEPT !.op = op], given)
  IN IF set.ok THEN RsaPadInit(set.c) ELSE set

EcdsaSignVerifyInit(c, op, given) == SetAll([c EXCEPT !.op = op], given)

SignVerifyInit(c, op, given) ==
  IF Rsa THEN RsaSignVerifyInit(c, op, given) ELSE EcdsaSignVerifyInit(c, op, given)

(* A digest already in the context is not set up again: nor is its hash. *)
RsaDigestSignVerifyInit(c, m, op, given) ==
  LET begun == RsaSignVerifyInit(c, op, given)
  IN IF begun.ok /\ m \notin {"", begun.c.name} THEN RsaSetupMd(begun.c, m, op) ELSE begun

EcdsaDigestSignVerifyInit(c, m, op, given) ==
  LET begun == EcdsaSignVerifyInit(c, op, given)
  IN IF begun.ok /\ m \notin {"", begun.c.name} THEN EcdsaSetupMd(begun.c, m, op) ELSE begun

DigestSignVerifyInit(c, m, op, given) ==
  IF Rsa THEN RsaDigestSignVerifyInit(c, m, op, given)
  ELSE EcdsaDigestSignVerifyInit(c, m, op, given)

EcxInit(c, m, op) == IF m = "" THEN Done([c EXCEPT !.op = op]) ELSE Refused(c)

(* A copy: RSA's has all but minSaltLen.  There is no copy of a hash that    *)
(* is not set up: RSA does not ask for one, the others fail, as EdDSA        *)
(* always does.                                                              *)
HashCopied(c) == Rsa \/ c.type # "none"
RsaDupLosesHash(c) == [c EXCEPT !.min = 0, !.fed = <<>>]
RsaDupCtx(c) == [c EXCEPT !.min = 0]
EcdsaDupCtx(c) == [NewCtx EXCEPT !.type = c.type, !.fed = c.fed, !.op = c.op, !.name = c.name]
DupCtx(c) == IF Rsa THEN RsaDupCtx(c) ELSE EcdsaDupCtx(c)

------------------------------------------------------------------------------
(* Signing a digest, or a raw block.                                         *)
Digest(m, data) == [md |-> m, data |-> data]
RawBlock(n) == [md |-> "raw", data |-> <<n>>]
LenOf(t) == IF t.md = "raw" THEN KeyLen ELSE HLen(t.md)

SaltToWc(c, n) ==
  CASE n = DigestSalt -> HLen(c.type)
    [] n = LongSalt -> MaxSalt(c.type)
    [] n = AutoSalt -> Discover
    [] n = AutoDigestMax -> HLen(c.type)
    [] OTHER -> n

Sig(p, info, g, n, t) == [pad |-> p, info |-> info, mgf |-> g, salt |-> n, tbs |-> t]
NoSig == Sig("unset", "none", "none", 0, Digest("none", <<>>))

SignPkcs1(c, t) ==
  IF \/ c.type = "none" /\ t.md # "raw"
     \/ c.type # "none" /\ LenOf(t) = HLen(c.type)
  THEN Sig("pkcs1", c.type, "none", 0, t) ELSE NoSig

(* wc_RsaPSS_Sign_ex takes Discover for the longest salt there is room for. *)
SignPss(c, t) ==
  LET n == SaltToWc(c, c.salt)
  IN IF c.type # "none" /\ LenOf(t) = HLen(c.type) /\ n <= MaxSalt(c.type)
     THEN Sig("pss", c.type, c.mgf, IF n = Discover THEN MaxSalt(c.type) ELSE n, t)
     ELSE NoSig

SignNoPad(c, t) == IF t.md = "raw" THEN Sig("none", "none", "none", 0, t) ELSE NoSig
SignX931(c, t) == IF t.md # "raw" THEN Sig("x931", c.type, "none", 0, t) ELSE NoSig

RsaSign(c, t) ==
  IF Fips /\ key.small THEN NoSig
  ELSE CASE c.pad = "pkcs1" -> SignPkcs1(c, t)
         [] c.pad = "pss" -> SignPss(c, t)
         [] c.pad = "none" -> SignNoPad(c, t)
         [] c.pad = "x931" -> SignX931(c, t)

(* What ECDSA signs or verifies as it is may not be short, and what it       *)
(* hashed itself must be of the digest's length.                             *)
MinDigest == 20
EcdsaTakes(c, t) ==
  IF c.type = "none" THEN LenOf(t) >= MinDigest ELSE LenOf(t) = HLen(c.type)

EcdsaSign(c, t) ==
  IF EcdsaTakes(c, t) /\ ~(Fips /\ key.small)
  THEN Sig("ecdsa", "none", "none", 0, t) ELSE NoSig

EcxSign(c, t) == Sig("ecx", "none", "none", 0, t)

Sign(c, t) ==
  CASE Rsa -> RsaSign(c, t) [] key.fam = "ecdsa" -> EcdsaSign(c, t)
    [] key.fam = "ecx" -> EcxSign(c, t)

------------------------------------------------------------------------------
(* Verifying.  A PKCS#1 signature whose content is no longer than the digest *)
(* is compared as it is; otherwise as the DigestInfo of the context's digest.*)
VerifyPkcs1(c, s, t) ==
  /\ s.pad = "pkcs1" /\ s.tbs = t
  /\ IF s.info = "none" THEN TRUE ELSE c.type = s.info

VerifyPssAnySalt(c, s, t) ==
  LET r == IF c.type = "none" THEN RsaSetupMd(c, "SHA256", "verify") ELSE Done(c)
  IN r.ok /\ s.pad = "pss" /\ s.tbs = t /\ s.info = r.c.type /\ s.mgf = r.c.mgf

VerifyPss(c, s, t) ==
  LET r == IF c.type = "none" THEN RsaSetupMd(c, "SHA256", "verify") ELSE Done(c)
      n == SaltToWc(r.c, c.salt)
  IN /\ r.ok /\ s.pad = "pss" /\ s.tbs = t
     /\ s.info = r.c.type /\ s.mgf = r.c.mgf /\ n \in {Discover, s.salt}

VerifyNoPad(c, s, t) == s.pad = "none" /\ s.tbs = t
VerifyX931(c, s, t) == s.pad = "x931" /\ s.info = c.type /\ s.tbs = t

(* FIPS lets small keys verify. *)
RsaVerify(c, s, t) ==
  CASE c.pad = "pkcs1" -> VerifyPkcs1(c, s, t)
    [] c.pad = "pss" -> VerifyPss(c, s, t)
    [] c.pad = "none" -> VerifyNoPad(c, s, t)
    [] c.pad = "x931" -> VerifyX931(c, s, t)

EcdsaVerify(c, s, t) == EcdsaTakes(c, t) /\ s.pad = "ecdsa" /\ s.tbs = t

EcxVerify(c, s, t) == s.pad = "ecx" /\ s.tbs = t

Verify(c, s, t) ==
  CASE Rsa -> RsaVerify(c, s, t) [] key.fam = "ecdsa" -> EcdsaVerify(c, s, t)
    [] key.fam = "ecx" -> EcxVerify(c, s, t)

(* The algorithm identifier of a PSS context.  A salt length of 0 is left    *)
(* out, which stands for 20; a long one has one byte to itself; no hash      *)
(* length is known for SHA-1.                                                *)
PssEncodeAlgId(c) ==
  LET h == IF c.name \in {"SHA256", "SHA512"} THEN HLen(c.name) ELSE 0
      n == IF c.salt \in {DigestSalt, AutoDigestMax} THEN h
           ELSE IF c.salt \in {LongSalt, AutoSalt} THEN KeyLen - h - 2 ELSE c.salt
  IN [md |-> IF h = 0 THEN "SHA-1" ELSE c.name,
      mgf |-> IF c.mgfName \in {"SHA256", "SHA512"} THEN c.mgfName ELSE "SHA-1",
      salt |-> IF n = 0 THEN 20 ELSE n % 256]

(* Reported for the others is their digest, of those that have one.          *)
RsaGetAlgId(c) ==
  IF c.pad = "pss" THEN PssEncodeAlgId(c)
  ELSE [md |-> IF c.name \in {"SHA256", "SHA512"} THEN c.name ELSE "", mgf |-> "", salt |-> 0]
EcdsaGetAlgId(c) ==
  [md |-> IF c.name \in {"SHA256", "SHA512"} THEN c.name ELSE "", mgf |-> "", salt |-> 0]
AlgId(c) == IF Rsa THEN RsaGetAlgId(c) ELSE EcdsaGetAlgId(c)

------------------------------------------------------------------------------
(* The program's protocol: an init, its parameters, the message, and the     *)
(* end, which libcrypto runs on a copy unless told otherwise.  A context     *)
(* that refuses something is given up.                                       *)
Freed == ctx' = NewCtx /\ told' = Nothing
Unanswered == result' = [got |-> FALSE, due |-> FALSE]

Begin(was, op, way, m, given, r) ==
  IF r.ok
  THEN /\ ctx' = r.c
       /\ told' = [was EXCEPT
                     !.op = op, !.way = way,
                     !.md = IF m = "" /\ given # <<>> /\ given[1].what = "md"
                            THEN given[1].to ELSE m,
                     !.pad = IF given # <<>> /\ given[1].what = "pad"
                             THEN given[1].to ELSE "unset"]
  ELSE Freed

Given(given) ==
  given # <<>> /\ (given[1].what # "md" \/ key.fam = "pss") => "init_params" \in Habits

(* DigestSignInit and DigestVerifyInit, in a new context or, without a key,  *)
(* in the present one, which libcrypto keeps for the same operation; the     *)
(* mask stays as it was asked for, and the salt of an RSA key.               *)
DigestInit(op, m, given) ==
  /\ key.fam # "ecx" /\ told.op = "none" /\ Given(given)
  /\ Begin(Nothing, op, "digest", m, given, DigestSignVerifyInit(NewCtx, m, op, given))
  /\ Unanswered /\ UNCHANGED <<key, sigs>>

DigestReinit(m) ==
  /\ told.op = "none" /\ ctx.op # "none" /\ told.way = "digest"
  /\ ctx.fed # <<>> \/ ctx.pad = "x931" => "reinit" \in Habits
  /\ Begin([told EXCEPT !.data = <<>>,
              !.salt = IF key.fam = "rsa" THEN @ ELSE {}], ctx.op, "digest",
           IF m = "" THEN ctx.name ELSE m, <<>>, DigestSignVerifyInit(ctx, m, ctx.op, <<>>))
  /\ Unanswered /\ UNCHANGED <<key, sigs>>

(* EVP_PKEY_sign_init and the like, and one-shot EdDSA. *)
RawInit(op, given) ==
  /\ told.op = "none" /\ Given(given)
  /\ key.fam = "ecx" => given = <<>>
  /\ Begin(Nothing, op, "raw", "", given,
           IF key.fam = "ecx" THEN EcxInit(NewCtx, "", op)
           ELSE SignVerifyInit(NewCtx, op, given))
  /\ Unanswered /\ UNCHANGED <<key, sigs>>

Keep(s) ==
  told' = [told EXCEPT !.sets = @ + 1,
             !.md = IF s.what = "md" THEN s.to ELSE @,
             !.pad = IF s.what = "pad" THEN s.to ELSE @,
             !.mgf = IF s.what = "mgf" THEN s.to ELSE @,
             !.salt = IF s.what = "salt" THEN {s.to} ELSE @]

Set(s) ==
  /\ told.op # "none" /\ told.data = <<>> /\ told.sets < MaxSets /\ key.fam # "ecx"
  /\ key.fam = "ecdsa" => s.what = "md"
  /\ key.fam = "pss" /\ s.what = "pad" /\ s.to = "none" => "raw_pss" \in Habits
  /\ told.copied /\ s.what = "salt" => "after_dup" \in Habits
  /\ LET r == SetCtxParam(ctx, s)
     IN \/ r.ok /\ ctx' = r.c /\ Keep(s)
        \/ ~r.ok /\ Freed
        \/ ~r.ok /\ "on_refusal" \in Habits /\ ctx' = r.c /\ UNCHANGED told
  /\ UNCHANGED <<key, sigs, result>>

Update ==
  /\ told.op # "none" /\ told.way = "digest" /\ ctx.type # "none"
  /\ Len(told.data) < MaxPieces
  /\ LET piece == <<Len(sigs), Len(told.data) + 1>>
     IN /\ ctx' = [ctx EXCEPT !.fed = Append(@, piece)]
        /\ told' = [told EXCEPT !.data = Append(@, piece)]
  /\ UNCHANGED <<key, sigs, result>>

(* A program that goes on with a copy of its context; with the context       *)
(* itself, when there is no copy of it.                                      *)
Copy ==
  /\ told.op # "none" /\ ~told.copied /\ HashCopied(ctx)
  /\ ctx' = DupCtx(ctx) /\ told' = [told EXCEPT !.copied = TRUE]
  /\ UNCHANGED <<key, sigs, result>>

(* The hash starts over when it is finalised in the context itself. *)
Finalised(own) ==
  IF own THEN ctx' = [ctx EXCEPT !.fed = <<>>] /\ told' = [told EXCEPT !.op = "none"]
  ELSE UNCHANGED ctx /\ told' \in {told, [told EXCEPT !.op = "none"]}

Made(s) ==
  sigs' = IF s = NoSig THEN sigs
          ELSE Append(sigs, [sig |-> s, want |-> told, id |-> AlgId(ctx)])

DigestSignFinal(own) ==
  /\ told.op = "sign" /\ told.way = "digest" /\ ctx.type # "none"
  /\ Len(sigs) < MaxSigs
  /\ LET d == IF own THEN ctx ELSE DupCtx(ctx)
     IN Made(Sign(d, Digest(d.type, d.fed)))
  /\ Finalised(own)
  /\ UNCHANGED <<key, result>>

(* What is signed as it is: a digest of message n, or a block the size of    *)
(* the key.                                                                  *)
Tbs == {Digest(m, <<<<0, 1>>>>) : m \in Md} \cup {RawBlock(0)}

RawSign(t) ==
  /\ told.op = "sign" /\ told.way = "raw" /\ Len(sigs) < MaxSigs
  /\ Made(Sign(ctx, t))
  /\ Freed
  /\ UNCHANGED <<key, result>>

------------------------------------------------------------------------------
(* What was asked for.                                                       *)
PadOf(w) ==
  CASE ~Rsa -> key.fam
    [] Rsa /\ w.pad # "unset" -> w.pad
    [] Rsa /\ w.pad = "unset" -> IF key.fam = "rsa" THEN "pkcs1" ELSE "pss"
MdOf(w) ==
  CASE w.md # "" -> w.md
    [] w.md = "" /\ key.fam = "pss" /\ key.set -> IF key.md = "" THEN "SHA256" ELSE key.md
    [] w.md = "" /\ key.fam = "pss" /\ ~key.set ->
         IF w.op = "verify" /\ key.md = "SHA256" THEN "SHA256" ELSE "none"
    [] OTHER -> "none"
MgfOf(w) ==
  CASE w.mgf # "" -> w.mgf
    [] w.mgf = "" /\ key.fam = "pss" /\ key.set -> IF key.mgf = "" THEN "SHA256" ELSE key.mgf
    [] OTHER -> MdOf(w)

SaltOf(w, n) ==
  \A asked \in w.salt :
    \/ asked = AutoSalt
    \/ asked = DigestSalt /\ n = HLen(MdOf(w))
    \/ asked = LongSalt /\ n = MaxSalt(MdOf(w))
    \/ asked = n

(* Signature s is one w asks for, of digest or block t. *)
AskedFor(w, s, t) ==
  /\ s.tbs = t /\ s.pad = PadOf(w)
  /\ s.pad \in {"pkcs1", "pss", "x931"} => s.info = MdOf(w)
  /\ s.pad = "ecdsa" => MdOf(w) \in {"none", t.md}
  /\ s.pad = "pss" => s.mgf = MgfOf(w) /\ SaltOf(w, s.salt)

(* A salt length that was not asked for is the context's. *)
Due(w, s, t) ==
  /\ AskedFor(w, s, t)
  /\ s.pad = "pss" /\ w.salt = {} => s.salt = SaltToWc([ctx EXCEPT !.type = MdOf(w)], ctx.salt)

Answer(got, due) == result' = [got |-> got, due |-> due]

DigestVerifyFinal(own, s) ==
  /\ told.op = "verify" /\ told.way = "digest" /\ ctx.type # "none"
  /\ s.info = "none" /\ s.pad = "pkcs1" => "raw_to_digest" \in Habits
  /\ LET d == IF own THEN ctx ELSE DupCtx(ctx)
     IN Answer(Verify(d, s, Digest(d.type, d.fed)),
               Due(told, s, Digest(MdOf(told), told.data)))
  /\ Finalised(own)
  /\ UNCHANGED <<key, sigs>>

RawVerify(s, t) ==
  /\ told.op = "verify" /\ told.way = "raw"
  /\ s.info = "none" /\ s.pad = "pkcs1" /\ ctx.type # "none" => "raw_to_digest" \in Habits
  /\ Answer(Verify(ctx, s, t), Due(told, s, t))
  /\ Freed
  /\ UNCHANGED <<key, sigs>>

(* Only RSA recovers, and only PKCS#1. *)
VerifyRecover(s) ==
  /\ told.op = "recover"
  /\ Answer(key.fam = "rsa" /\ ctx.pad = "pkcs1" /\ s.pad = "pkcs1",
            key.fam = "rsa" /\ PadOf(told) = "pkcs1" /\ s.pad = "pkcs1")
  /\ Freed
  /\ UNCHANGED <<key, sigs>>
------------------------------------------------------------------------------
Known == {sigs[i].sig : i \in 1 .. Len(sigs)}
Givens == {<<>>} \cup {<<s>> : s \in Settings}

Next ==
  \/ \E op \in {"sign", "verify"}, m \in Md \cup {""}, g \in Givens : DigestInit(op, m, g)
  \/ \E m \in Md \cup {""} : DigestReinit(m)
  \/ \E op \in {"sign", "verify", "recover"}, g \in Givens : RawInit(op, g)
  \/ \E s \in Settings : Set(s)
  \/ Update \/ Copy
  \/ \E own \in BOOLEAN : DigestSignFinal(own)
  \/ \E own \in BOOLEAN, s \in Known : DigestVerifyFinal(own, s)
  \/ \E t \in Tbs : RawSign(t)
  \/ \E s \in Known, t \in Tbs : RawVerify(s, t)
  \/ \E s \in Known : VerifyRecover(s)

Spec == Init /\ [][Next]_vars
------------------------------------------------------------------------------
(* A signature covers exactly what was fed to its context since the init,    *)
(* with the digest, padding, mask and salt the program asked for, or the     *)
(* defaults of the key; through copies, contexts used again and parameters   *)
(* in any order.  The algorithm identifier the context reports says so, as   *)
(* far as its one byte can: not of a PSS salt of none or of 256 and more.    *)
IdOf(s) ==
  IF s.pad = "pss" THEN [md |-> s.info, mgf |-> s.mgf, salt |-> s.salt]
  ELSE [md |-> s.tbs.md, mgf |-> "", salt |-> 0]
SignedAsAsked ==
  \A i \in 1 .. Len(sigs) :
    LET w == sigs[i].want
        s == sigs[i].sig
        id == sigs[i].id
    IN /\ AskedFor(w, s, IF w.way = "digest" THEN Digest(MdOf(w), w.data) ELSE s.tbs)
       /\ s.pad = "pss" /\ s.salt \in 1 .. 255 => id = IdOf(s)
       /\ s.pad \in {"pkcs1", "ecdsa"} /\ w.way = "digest" /\ id.md # "" => id = IdOf(s)

(* A verification answers 1 when the signature is one over what was fed, as  *)
(* the verifier asked for it, and only then.                                 *)
AnswerIsTrue == result.got = result.due

(* Every signature of a restricted PSS key keeps to its digest and its least *)
(* salt, and to its mask when the key came with it: generated keys do not    *)
(* hold the mask against a context.                                          *)
RestrictionKept ==
  \A i \in 1 .. Len(sigs) :
    LET s == sigs[i].sig
    IN key.fam = "pss" /\ key.md # "" =>
         /\ s.pad = "pss" /\ s.info = key.md /\ s.salt >= key.salt
         /\ key.set => s.mgf = key.mgf

(* The FIPS build makes no RSA or ECDSA signature of a SHA-1 digest it       *)
(* hashed itself, and none with a small RSA key or on a small curve (P-192), *)
(* whatever became of the context before.                                    *)
FipsSignatures ==
  Fips => \A i \in 1 .. Len(sigs) :
            /\ key.fam # "ecx" => ~key.small
            /\ sigs[i].want.way = "digest" => sigs[i].sig.tbs.md # "SHA-1"

==============================================================================
