-------------------------- MODULE WpSignature_proofs --------------------------
(***************************************************************************)
(* What holds of signature contexts for any keys, any number of parameters *)
(* set, pieces of a message and signatures: the restrictions of a PSS key  *)
(* are kept, the FIPS build signs no SHA-1, a signature is the one asked   *)
(* for and a verification answers for it.                                  *)
(***************************************************************************)
EXTENDS WpSignature, TLAPS

MdAll == {"MD5", "SHA-1", "SHA256", "SHA512"}
Ops == {"none", "sign", "verify", "recover"}
Pads == {"unset", "pkcs1", "pss", "none", "x931"}
Bytes == Seq(Nat \X Nat)
MdOrNone == MdAll \cup {"none"}
Kinds == Pads \cup {"ecdsa", "ecx"}

Contexts ==
  [op : Ops, pad : Pads, type : MdAll \cup {"none"}, fed : Bytes,
   name : MdAll \cup {""}, salt : Int, min : Nat, mgf : MdAll \cup {"none"},
   mgfSet : BOOLEAN, mgfName : MdAll \cup {""}]

Wishes ==
  [op : Ops, way : {"digest", "raw"}, data : Bytes, md : MdAll \cup {""}, pad : Pads,
   mgf : MdAll \cup {""}, salt : SUBSET Int, sets : Nat, copied : BOOLEAN]

ToBeSigned == [md : MdAll \cup {"none", "raw"}, data : Bytes \cup {<<0>>}]
Signatures ==
  [pad : Kinds, info : MdOrNone, mgf : MdOrNone, salt : Int, tbs : ToBeSigned]
MdOrEmpty == MdAll \cup {""}
Ids == [md : MdOrEmpty, mgf : MdOrEmpty, salt : Int]
Records == [sig : Signatures, want : Wishes, id : Ids]

Typed ==
  /\ key \in Keys /\ ctx \in Contexts /\ told \in Wishes /\ sigs \in Seq(Records)

LEMMA KeyTyped ==
  ASSUME Typed
  PROVE  /\ key.fam \in Family /\ key.md \in PssMd /\ key.mgf \in PssMd
         /\ key.salt \in Nat /\ key.set \in BOOLEAN /\ key.small \in BOOLEAN
         /\ key.fam # "pss" => key.md = ""
BY SignatureAssumption DEF Typed

LEMMA ConstantsTyped ==
  /\ Md \subseteq MdAll /\ KeyLen \in Nat /\ KeyLen >= 66 /\ Fips \in BOOLEAN
  /\ NewCtx \in Contexts /\ Nothing \in Wishes /\ <<>> \in Bytes
<1>1. <<>> \in Bytes
  BY DEF Bytes
<1>2. Md \subseteq MdAll /\ KeyLen \in Nat /\ KeyLen >= 66 /\ Fips \in BOOLEAN
  BY SignatureAssumption DEF MdAll
<1>3. NewCtx \in Contexts
  BY <1>1 DEF NewCtx, Contexts, Ops, Pads
<1>4. Nothing \in Wishes
  BY <1>1 DEF Nothing, Wishes, Ops, Pads
<1> QED BY <1>1, <1>2, <1>3, <1>4

LEMMA SpecialsTyped ==
  /\ AutoDigestMax \in Int /\ LongSalt \in Int /\ AutoSalt \in Int /\ DigestSalt \in Int
  /\ AutoDigestMax < 0 /\ LongSalt < 0 /\ AutoSalt < 0 /\ DigestSalt < 0
  /\ AutoDigestMax # LongSalt /\ AutoDigestMax # AutoSalt /\ AutoDigestMax # DigestSalt
  /\ LongSalt # AutoSalt /\ LongSalt # DigestSalt /\ AutoSalt # DigestSalt
BY DEF AutoDigestMax, LongSalt, AutoSalt, DigestSalt

LEMMA Lengths ==
  /\ \A m : HLen(m) \in {16, 20, 32, 64} /\ MaxSalt(m) \in Nat
  /\ HLen("SHA256") = 32 /\ HLen("SHA512") = 64 /\ HLen("SHA-1") = 20 /\ HLen("MD5") = 16
BY ConstantsTyped DEF HLen, MaxSalt

------------------------------------------------------------------------------
(* What each setting does to a context, when it is taken and when it is not. *)
RsaMdSet(c, d, m) ==
  /\ d.op = c.op /\ d.pad = c.pad /\ d.salt = c.salt /\ d.min = c.min
  /\ d.type = m /\ d.name = m /\ d.fed = <<>> /\ d.mgfSet = c.mgfSet
  /\ IF c.mgfSet THEN d.mgf = c.mgf /\ d.mgfName = c.mgfName
     ELSE d.mgf = m /\ d.mgfName = m

LEMMA RsaSetupMdDoes ==
  ASSUME NEW c \in Contexts, NEW m \in MdAll, NEW op
  PROVE  LET r == RsaSetupMd(c, m, op)
         IN /\ r.ok \in BOOLEAN /\ r.c \in Contexts
            /\ ~r.ok => r.c = c
            /\ r.ok => /\ RsaMdSet(c, r.c, m)
                       /\ c.pad = "pss" => key.md = m
                       /\ c.pad # "none" /\ m # "MD5" /\ c.type \in {"none", m}
                       /\ ~(Fips /\ m = "SHA-1" /\ op = "sign")
<1> DEFINE named == [c EXCEPT !.type = m, !.fed = <<>>, !.name = m]
           full == [named EXCEPT !.mgf = m, !.mgfName = m]
           fits == /\ c.pad = "pss" => key.md = m
                   /\ c.pad # "none" /\ m # "MD5"
                   /\ c.type \in {"none", m}
                   /\ ~(Fips /\ m = "SHA-1" /\ op = "sign")
<1>1. RsaSetupMd(c, m, op) = IF fits THEN Done(IF c.mgfSet THEN named ELSE full) ELSE Refused(c)
  BY DEF RsaSetupMd
<1>2. named \in Contexts /\ full \in Contexts
  BY ConstantsTyped DEF Contexts
<1>3. c.mgfSet => RsaMdSet(c, named, m)
  BY DEF Contexts, RsaMdSet
<1>4. ~c.mgfSet => RsaMdSet(c, full, m)
  BY DEF Contexts, RsaMdSet
<1> HIDE DEF named, full
<1> QED BY <1>1, <1>2, <1>3, <1>4 DEF Done, Refused

LEMMA SetupMgf1Does ==
  ASSUME NEW c \in Contexts, NEW m \in MdAll
  PROVE  LET r == SetupMgf1(c, m)
         IN /\ r.ok \in BOOLEAN /\ r.c \in Contexts
            /\ r.ok <=> ~(c.mgfSet /\ c.mgf # m)
            /\ r.ok => r.c = [c EXCEPT !.mgfName = m, !.mgf = m, !.mgfSet = TRUE]
            /\ ~r.ok => r.c = [c EXCEPT !.mgfName = m]
<1> DEFINE named == [c EXCEPT !.mgfName = m]
           full == [named EXCEPT !.mgf = m, !.mgfSet = TRUE]
<1>1. SetupMgf1(c, m) = IF c.mgfSet /\ c.mgf # m THEN Refused(named) ELSE Done(full)
  BY DEF SetupMgf1
<1>2. named \in Contexts /\ full \in Contexts
  BY DEF Contexts
<1>3. full = [c EXCEPT !.mgfName = m, !.mgf = m, !.mgfSet = TRUE]
  BY DEF Contexts
<1> QED BY <1>1, <1>2, <1>3 DEF Done, Refused

LEMMA SetPadModeDoes ==
  ASSUME NEW c \in Contexts, NEW p \in Pads \ {"unset"}
  PROVE  LET r == SetPadMode(c, p)
         IN /\ r.ok \in BOOLEAN /\ r.c \in Contexts
            /\ ~r.ok => r.c = c
            /\ r.ok => /\ r.c = [c EXCEPT !.pad = p]
                       /\ p \in {"pkcs1", "x931"} => key.fam = "rsa"
                       /\ p = "none" => c.type = "none"
<1>1. [c EXCEPT !.pad = p] \in Contexts
  BY DEF Contexts
<1> QED BY <1>1 DEF SetPadMode, Done, Refused, Pads

LEMMA SetSaltLenDoes ==
  ASSUME NEW c \in Contexts, NEW n \in Int
  PROVE  LET r == SetSaltLen(c, n)
         IN /\ r.ok \in BOOLEAN /\ r.c \in Contexts
            /\ r.c \in {c, [c EXCEPT !.salt = n]}
            /\ r.ok => /\ r.c = [c EXCEPT !.salt = n] /\ c.pad = "pss"
                       /\ n >= 0 => n >= c.min
<1> DEFINE set == [c EXCEPT !.salt = n]
<1>1. set \in Contexts /\ set.salt = n /\ set.min = c.min
  BY DEF Contexts
<1>2. SetSaltLen(c, n) = IF c.pad = "pss" /\ SaltAllowed(set) THEN Done(set)
                         ELSE Refused(IF c.pad = "pss" THEN set ELSE c)
  BY DEF SetSaltLen
<1> HIDE DEF set
<1> QED BY <1>1, <1>2 DEF Done, Refused, SaltAllowed, set

LEMMA EcdsaSetupMdDoes ==
  ASSUME NEW c \in Contexts, NEW m \in MdAll, NEW op
  PROVE  LET r == EcdsaSetupMd(c, m, op)
         IN /\ r.ok \in BOOLEAN /\ r.c \in Contexts
            /\ r.c.op = c.op /\ r.c.pad = c.pad
            /\ r.ok => /\ r.c = [c EXCEPT !.type = m, !.fed = <<>>, !.name = m]
                       /\ m # "MD5" /\ ~(Fips /\ m = "SHA-1" /\ op = "sign")
<1> DEFINE typed == [c EXCEPT !.type = m]
           full == [typed EXCEPT !.fed = <<>>, !.name = m]
<1>1. EcdsaSetupMd(c, m, op) =
        IF m = "MD5" \/ (Fips /\ m = "SHA-1" /\ op = "sign") THEN Refused(typed) ELSE Done(full)
  BY DEF EcdsaSetupMd
<1>2. typed \in Contexts /\ full \in Contexts
  BY ConstantsTyped DEF Contexts
<1>3. full = [c EXCEPT !.type = m, !.fed = <<>>, !.name = m]
  BY DEF Contexts
<1>4. typed.op = c.op /\ typed.pad = c.pad /\ full.op = c.op /\ full.pad = c.pad
  BY DEF Contexts
<1> HIDE DEF typed, full
<1> QED BY <1>1, <1>2, <1>3, <1>4 DEF Done, Refused

(* What a program sets, and what an init may be given with it. *)
Kind(s) == CASE s.what = "md" -> MdAll [] s.what = "mgf" -> MdAll \ {"MD5"}
             [] s.what = "pad" -> Pads \ {"unset"}
             [] s.what = "salt" -> {DigestSalt, AutoSalt, LongSalt, 20}
Settable(s) == s.what \in {"md", "mgf", "pad", "salt"} /\ s.to \in Kind(s)

LEMMA SettingsTyped == \A s \in Settings : Settable(s)
BY ConstantsTyped DEF Settings, Settable, Kind, MdAll, Pads

LEMMA GivensTyped ==
  ASSUME NEW g \in Givens
  PROVE  g = <<>> \/ (g # <<>> /\ Settable(g[1]))
BY SettingsTyped DEF Givens

LEMMA SetCtxParamTyped ==
  ASSUME NEW c \in Contexts, NEW s, Settable(s)
  PROVE  SetCtxParam(c, s).c \in Contexts /\ SetCtxParam(c, s).ok \in BOOLEAN
<1>1. CASE s.what = "md"
  <2>1. s.to \in MdAll
    BY <1>1 DEF Settable, Kind
  <2> QED BY <1>1, <2>1, RsaSetupMdDoes, EcdsaSetupMdDoes DEF SetCtxParam, SetupMd
<1>2. CASE s.what = "mgf"
  <2>1. s.to \in MdAll
    BY <1>2 DEF Settable, Kind
  <2> QED BY <1>2, <2>1, SetupMgf1Does DEF SetCtxParam, SetMgf1Digest, Refused
<1>3. CASE s.what = "pad"
  <2>1. s.to \in Pads \ {"unset"}
    BY <1>3 DEF Settable, Kind
  <2> QED BY <1>3, <2>1, SetPadModeDoes DEF SetCtxParam
<1>4. CASE s.what = "salt"
  <2>1. s.to \in Int
    BY <1>4 DEF Settable, Kind, DigestSalt, AutoSalt, LongSalt
  <2> QED BY <1>4, <2>1, SetSaltLenDoes DEF SetCtxParam
<1> QED BY <1>1, <1>2, <1>3, <1>4 DEF Settable

LEMMA SetAllTyped ==
  ASSUME NEW c \in Contexts, NEW g \in Givens
  PROVE  SetAll(c, g).c \in Contexts /\ SetAll(c, g).ok \in BOOLEAN
BY GivensTyped, SetCtxParamTyped DEF SetAll, Done

(* The digest and the mask of a PSS key that came with restrictions. *)
Default(m) == IF m = "" THEN "SHA256" ELSE m
Held == key.fam = "pss" /\ key.set

LEMMA RestrictDoes ==
  ASSUME Typed, NEW c \in Contexts
  PROVE  LET r == Restrict(c)
         IN /\ r.ok \in BOOLEAN /\ r.c \in Contexts
            /\ r.ok => /\ r.c.op = c.op /\ r.c.pad = "pss" /\ r.c.fed = <<>>
                       /\ r.c.type = Default(key.md) /\ r.c.name = Default(key.md)
                       /\ c.type \in {"none", Default(key.md)}
                       /\ c.mgfSet => c.mgf = Default(key.mgf)
                       /\ r.c.mgfSet /\ r.c.mgf = Default(key.mgf)
                       /\ r.c.mgfName = Default(key.mgf)
                       /\ r.c.salt = AutoDigestMax /\ r.c.min = key.salt
<1> DEFINE m == Default(key.md)
           g == Default(key.mgf)
           c1 == [c EXCEPT !.pad = "pss", !.salt = AutoDigestMax]
           digest == RsaSetupMd(c1, m, "verify")
           mask == SetupMgf1(digest.c, g)
           c2 == [mask.c EXCEPT !.min = key.salt]
<1>1. m \in MdAll /\ g \in MdAll /\ key.salt \in Nat
  BY KeyTyped DEF MdAll, PssMd, Default
<1>2. c1 \in Contexts /\ c1.op = c.op /\ c1.pad = "pss" /\ c1.salt = AutoDigestMax
      /\ c1.type = c.type /\ c1.mgfSet = c.mgfSet /\ c1.mgf = c.mgf
  BY SpecialsTyped DEF Contexts, Pads
<1> HIDE DEF c1, m, g
<1>3. /\ digest.ok \in BOOLEAN /\ digest.c \in Contexts
      /\ digest.ok => RsaMdSet(c1, digest.c, m) /\ c1.type \in {"none", m}
  BY <1>1, <1>2, RsaSetupMdDoes
<1> HIDE DEF digest
<1>4. /\ mask.ok \in BOOLEAN /\ mask.c \in Contexts
      /\ mask.ok => /\ mask.c = [digest.c EXCEPT !.mgfName = g, !.mgf = g, !.mgfSet = TRUE]
                    /\ ~(digest.c.mgfSet /\ digest.c.mgf # g)
  BY <1>1, <1>3, SetupMgf1Does
<1> HIDE DEF mask
<1>5. c2 \in Contexts
  BY <1>1, <1>4 DEF Contexts
<1>6. ASSUME digest.ok, mask.ok
      PROVE  /\ c2.op = c.op /\ c2.pad = "pss" /\ c2.fed = <<>> /\ c2.type = m /\ c2.name = m
             /\ c2.mgfSet /\ c2.mgf = g /\ c2.mgfName = g
             /\ c2.salt = AutoDigestMax /\ c2.min = key.salt
             /\ c.mgfSet => c.mgf = g
  <2>1. c2 = [digest.c EXCEPT !.mgfName = g, !.mgf = g, !.mgfSet = TRUE, !.min = key.salt]
    BY <1>3, <1>4, <1>6 DEF Contexts
  <2> HIDE DEF c2
  <2>2. c.mgfSet => c.mgf = g
    BY <1>2, <1>3, <1>4, <1>6 DEF RsaMdSet
  <2> QED BY <1>2, <1>3, <1>6, <2>1, <2>2 DEF RsaMdSet, Contexts
<1>7. Restrict(c) = IF ~digest.ok THEN digest
                    ELSE IF mask.ok THEN CheckPssSaltLen(c2) ELSE mask
  <2>1. Restrict(c) = LET d == RsaSetupMd(c1, m, "verify")
                          k == IF d.ok THEN SetupMgf1(d.c, g) ELSE d
                      IN IF k.ok THEN CheckPssSaltLen([k.c EXCEPT !.min = key.salt]) ELSE k
    BY DEF Restrict, c1, m, g, Default
  <2> QED BY <2>1, <1>3 DEF digest, mask
<1> HIDE DEF c2
<1>8. \/ CheckPssSaltLen(c2) = Done(c2)
      \/ CheckPssSaltLen(c2) = Refused(c2)
  BY DEF CheckPssSaltLen
<1>9. Restrict(c).ok => digest.ok /\ mask.ok /\ Restrict(c).c = c2
  BY <1>3, <1>4, <1>7, <1>8 DEF Done, Refused
<1>10. Restrict(c).ok \in BOOLEAN /\ Restrict(c).c \in Contexts
  <2>1. CASE ~digest.ok
    BY <1>3, <1>7, <2>1
  <2>2. CASE digest.ok /\ ~mask.ok
    BY <1>4, <1>7, <2>2
  <2>3. CASE digest.ok /\ mask.ok
    <3>1. Restrict(c) = CheckPssSaltLen(c2)
      BY <1>7, <2>3
    <3>2. Done(c2).ok \in BOOLEAN /\ Done(c2).c = c2
          /\ Refused(c2).ok \in BOOLEAN /\ Refused(c2).c = c2
      BY DEF Done, Refused
    <3> QED BY <1>5, <1>8, <3>1, <3>2
  <2> QED BY <1>3, <1>4, <2>1, <2>2, <2>3
<1> QED BY <1>2, <1>3, <1>6, <1>9, <1>10 DEF m, g

(* The init of the padding does what the kind of the key asks for. *)
LEMMA RsaPadInitDoes ==
  ASSUME Typed, Rsa, NEW c \in Contexts
  PROVE  LET r == RsaPadInit(c)
         IN /\ r.ok \in BOOLEAN /\ r.c \in Contexts
            /\ key.fam = "rsa" =>
                 r.ok /\ r.c = [c EXCEPT !.pad = IF c.pad = "x931" THEN c.pad ELSE "pkcs1"]
            /\ key.fam = "pss" /\ ~key.set =>
                 /\ r.ok
                 /\ r.c = [c EXCEPT !.pad = "pss", !.min = key.salt,
                                    !.salt = IF key.salt = 0 THEN AutoDigestMax ELSE key.salt]
            /\ Held => r = Restrict(c)
<1>1. CASE key.fam = "rsa"
  <2> DEFINE d == [c EXCEPT !.pad = IF c.pad = "x931" THEN c.pad ELSE "pkcs1"]
  <2>1. RsaPadInit(c) = Done(d)
    BY <1>1 DEF RsaPadInit
  <2>2. d \in Contexts
    BY DEF Contexts, Pads
  <2> QED BY <1>1, <2>1, <2>2 DEF Done, Held
<1>2. CASE key.fam = "pss" /\ ~key.set
  <2> DEFINE n == IF key.salt = 0 THEN AutoDigestMax ELSE key.salt
             d == [c EXCEPT !.pad = "pss", !.min = key.salt, !.salt = n]
  <2>1. RsaPadInit(c) = Done(d)
    BY <1>2 DEF RsaPadInit
  <2>2. d \in Contexts
    <3>1. key.salt \in Nat /\ AutoDigestMax \in Int
      BY KeyTyped, SpecialsTyped
    <3>2. n \in Int
      BY <3>1
    <3> HIDE DEF n
    <3> QED BY <3>1, <3>2 DEF Contexts, Pads
  <2> QED BY <1>2, <2>1, <2>2 DEF Done, Held
<1>3. CASE key.fam = "pss" /\ key.set
  <2>1. RsaPadInit(c) = Restrict(c)
    BY <1>3 DEF RsaPadInit
  <2> QED BY <1>3, <2>1, RestrictDoes DEF Held
<1> QED BY <1>1, <1>2, <1>3, KeyTyped DEF Rsa

------------------------------------------------------------------------------
(* In the FIPS build a context that signs has no SHA-1 for its digest.       *)
Clean(c) == Fips /\ c.op = "sign" => c.type # "SHA-1"

LEMMA SetCtxParamClean ==
  ASSUME NEW c \in Contexts, NEW s, Settable(s), SetCtxParam(c, s).ok
  PROVE  SetCtxParam(c, s).c.op = c.op /\ (Clean(c) => Clean(SetCtxParam(c, s).c))
<1> DEFINE d == SetCtxParam(c, s).c
<1>1. CASE s.what = "md"
  <2>1. s.to \in MdAll
    BY <1>1 DEF Settable, Kind
  <2>2. CASE Rsa
    BY <1>1, <2>1, <2>2, RsaSetupMdDoes DEF SetCtxParam, SetupMd, RsaMdSet, Clean
  <2>3. CASE ~Rsa
    <3>1. SetCtxParam(c, s) = EcdsaSetupMd(c, s.to, c.op)
      BY <1>1, <2>3 DEF SetCtxParam, SetupMd
    <3>2. d = [c EXCEPT !.type = s.to, !.fed = <<>>, !.name = s.to]
          /\ ~(Fips /\ s.to = "SHA-1" /\ c.op = "sign")
      <4>1. EcdsaSetupMd(c, s.to, c.op).ok /\ d = EcdsaSetupMd(c, s.to, c.op).c
        BY <3>1
      <4> HIDE DEF d
      <4> QED BY <2>1, <4>1, EcdsaSetupMdDoes
    <3> HIDE DEF d
    <3>3. d.op = c.op /\ d.type = s.to
      BY <3>2 DEF Contexts
    <3> QED BY <3>2, <3>3 DEF Clean, d
  <2> QED BY <2>2, <2>3
<1>2. CASE s.what = "mgf"
  <2>1. s.to \in MdAll
    BY <1>2 DEF Settable, Kind
  <2>2. SetCtxParam(c, s) = IF c.pad = "pss" THEN SetupMgf1(c, s.to) ELSE Refused(c)
    BY <1>2 DEF SetCtxParam, SetMgf1Digest
  <2>3. c.pad = "pss"
    BY <2>2 DEF Refused
  <2>4. SetCtxParam(c, s) = SetupMgf1(c, s.to)
    BY <2>2, <2>3
  <2>5. d = [c EXCEPT !.mgfName = s.to, !.mgf = s.to, !.mgfSet = TRUE]
    <3>1. SetupMgf1(c, s.to).ok /\ d = SetupMgf1(c, s.to).c
      BY <2>4
    <3> HIDE DEF d
    <3> QED BY <2>1, <3>1, SetupMgf1Does
  <2> HIDE DEF d
  <2>6. d.op = c.op /\ d.type = c.type
    BY <2>5 DEF Contexts
  <2> QED BY <2>6 DEF Clean, d
<1>3. CASE s.what = "pad"
  <2>1. s.to \in Pads \ {"unset"}
    BY <1>3 DEF Settable, Kind
  <2>2. d = [c EXCEPT !.pad = s.to]
    BY <1>3, <2>1, SetPadModeDoes DEF SetCtxParam
  <2> HIDE DEF d
  <2>3. d.op = c.op /\ d.type = c.type
    BY <2>2 DEF Contexts
  <2> QED BY <2>3 DEF Clean, d
<1>4. CASE s.what = "salt"
  <2>1. s.to \in Int
    BY <1>4 DEF Settable, Kind, DigestSalt, AutoSalt, LongSalt
  <2>2. d = [c EXCEPT !.salt = s.to]
    BY <1>4, <2>1, SetSaltLenDoes DEF SetCtxParam
  <2> HIDE DEF d
  <2>3. d.op = c.op /\ d.type = c.type
    BY <2>2 DEF Contexts
  <2> QED BY <2>3 DEF Clean, d
<1> QED BY <1>1, <1>2, <1>3, <1>4 DEF Settable

(* No setting, taken or refused, changes the operation or unsets the padding. *)
LEMMA SetCtxParamKeeps ==
  ASSUME NEW c \in Contexts, NEW s, Settable(s)
  PROVE  LET d == SetCtxParam(c, s).c
         IN d.op = c.op /\ (c.pad # "unset" => d.pad # "unset")
<1> DEFINE d == SetCtxParam(c, s).c
<1>1. CASE s.what = "md"
  <2>1. s.to \in MdAll
    BY <1>1 DEF Settable, Kind
  <2>2. CASE Rsa
    <3> DEFINE r == RsaSetupMd(c, s.to, c.op)
    <3>1. d = r.c
      BY <1>1, <2>2 DEF SetCtxParam, SetupMd
    <3>2. /\ r.ok \in BOOLEAN /\ (~r.ok => r.c = c)
          /\ r.ok => RsaMdSet(c, r.c, s.to)
      BY <2>1, RsaSetupMdDoes
    <3> HIDE DEF r
    <3>3. r.c.op = c.op /\ r.c.pad = c.pad
      BY <3>2 DEF RsaMdSet
    <3> QED BY <3>1, <3>3
  <2>3. CASE ~Rsa
    <3> DEFINE r == EcdsaSetupMd(c, s.to, c.op)
    <3>1. d = r.c
      BY <1>1, <2>3 DEF SetCtxParam, SetupMd
    <3>2. r.c.op = c.op /\ r.c.pad = c.pad
      <4>1. r = IF s.to = "MD5" \/ (Fips /\ s.to = "SHA-1" /\ c.op = "sign")
                THEN Refused([c EXCEPT !.type = s.to])
                ELSE Done([c EXCEPT !.type = s.to, !.fed = <<>>, !.name = s.to])
        BY DEF EcdsaSetupMd
      <4>2. r.c \in {[c EXCEPT !.type = s.to],
                     [c EXCEPT !.type = s.to, !.fed = <<>>, !.name = s.to]}
        BY <4>1 DEF Refused, Done
      <4> HIDE DEF r
      <4> QED BY <4>2 DEF Contexts
    <3> HIDE DEF r
    <3> QED BY <3>1, <3>2
  <2> QED BY <2>2, <2>3
<1>2. CASE s.what = "mgf"
  <2>1. s.to \in MdAll
    BY <1>2 DEF Settable, Kind
  <2>2. d \in {c, [c EXCEPT !.mgfName = s.to],
              [c EXCEPT !.mgfName = s.to, !.mgf = s.to, !.mgfSet = TRUE]}
    <3> DEFINE r == SetupMgf1(c, s.to)
    <3>1. d = IF c.pad = "pss" THEN r.c ELSE Refused(c).c
      BY <1>2 DEF SetCtxParam, SetMgf1Digest
    <3>2. /\ r.ok \in BOOLEAN
          /\ r.ok => r.c = [c EXCEPT !.mgfName = s.to, !.mgf = s.to, !.mgfSet = TRUE]
          /\ ~r.ok => r.c = [c EXCEPT !.mgfName = s.to]
      BY <2>1, SetupMgf1Does
    <3>3. Refused(c).c = c
      BY DEF Refused
    <3> HIDE DEF r, d
    <3> QED BY <3>1, <3>2, <3>3
  <2> HIDE DEF d
  <2>3. d.op = c.op /\ d.pad = c.pad
    BY <2>2 DEF Contexts
  <2> QED BY <2>3 DEF d
<1>3. CASE s.what = "pad"
  <2>1. s.to \in Pads \ {"unset"}
    BY <1>3 DEF Settable, Kind
  <2>2. d \in {c, [c EXCEPT !.pad = s.to]}
    BY <1>3, <2>1, SetPadModeDoes DEF SetCtxParam
  <2> HIDE DEF d
  <2>3. d.op = c.op /\ d.pad \in {c.pad, s.to}
    BY <2>2 DEF Contexts
  <2> QED BY <2>1, <2>3 DEF d
<1>4. CASE s.what = "salt"
  <2>1. s.to \in Int
    BY <1>4 DEF Settable, Kind, DigestSalt, AutoSalt, LongSalt
  <2>2. d \in {c, [c EXCEPT !.salt = s.to]}
    BY <1>4, <2>1, SetSaltLenDoes DEF SetCtxParam
  <2> HIDE DEF d
  <2>3. d.op = c.op /\ d.pad = c.pad
    BY <2>2 DEF Contexts
  <2> QED BY <2>3 DEF d
<1> QED BY <1>1, <1>2, <1>3, <1>4 DEF Settable

(* An init begins its operation, whatever it is given. *)
Sha1Held == Held /\ key.md = "SHA-1"

LEMMA RsaPadInitBegins ==
  ASSUME Typed, Rsa, NEW c \in Contexts, RsaPadInit(c).ok
  PROVE  LET d == RsaPadInit(c).c
         IN d.op = c.op /\ d.pad # "unset" /\ (Clean(c) /\ ~Sha1Held => Clean(d))
<1> DEFINE d == RsaPadInit(c).c
<1>1. CASE key.fam = "rsa"
  <2>1. d = [c EXCEPT !.pad = IF c.pad = "x931" THEN c.pad ELSE "pkcs1"]
    BY <1>1, RsaPadInitDoes
  <2> HIDE DEF d
  <2>2. d.op = c.op /\ d.type = c.type /\ d.pad # "unset"
    BY <2>1 DEF Contexts
  <2> QED BY <2>2 DEF Clean, d
<1>2. CASE key.fam = "pss" /\ ~key.set
  <2> DEFINE n == IF key.salt = 0 THEN AutoDigestMax ELSE key.salt
  <2>1. d = [c EXCEPT !.pad = "pss", !.min = key.salt, !.salt = n]
    BY <1>2, RsaPadInitDoes
  <2> HIDE DEF d, n
  <2>2. d.op = c.op /\ d.type = c.type /\ d.pad # "unset"
    BY <2>1 DEF Contexts
  <2> QED BY <2>2 DEF Clean, d
<1>3. CASE Held
  <2>1. RsaPadInit(c) = Restrict(c)
    BY <1>3, RsaPadInitDoes
  <2>2. d.op = c.op /\ d.type = Default(key.md) /\ d.pad # "unset"
    BY <2>1, RestrictDoes
  <2>3. ~Sha1Held => d.type # "SHA-1"
    BY <1>3, <2>2 DEF Sha1Held, Default
  <2> QED BY <2>2, <2>3 DEF Clean
<1> QED BY <1>1, <1>2, <1>3, KeyTyped DEF Rsa, Held

LEMMA SignVerifyInitBegins ==
  ASSUME Typed, NEW c \in Contexts, NEW op \in Ops, NEW g \in Givens
  PROVE  LET r == SignVerifyInit(c, op, g)
         IN /\ r.ok \in BOOLEAN /\ r.c \in Contexts
            /\ r.ok => /\ r.c.op = op /\ (Rsa => r.c.pad # "unset")
                       /\ Clean([c EXCEPT !.op = op]) /\ ~Sha1Held => Clean(r.c)
<1> DEFINE c1 == [c EXCEPT !.op = op]
           set == SetAll(c1, g)
<1>1. c1 \in Contexts /\ c1.op = op
  BY DEF Contexts
<1> HIDE DEF c1
<1>2. set.ok \in BOOLEAN /\ set.c \in Contexts
  BY <1>1, SetAllTyped
<1>3. set.ok => set.c.op = op /\ (Clean(c1) => Clean(set.c))
  BY <1>1, GivensTyped, SetCtxParamClean DEF SetAll, Done
<1>4. SignVerifyInit(c, op, g) = IF Rsa /\ set.ok THEN RsaPadInit(set.c) ELSE set
  BY DEF SignVerifyInit, RsaSignVerifyInit, EcdsaSignVerifyInit, c1
<1> HIDE DEF set
<1>5. CASE Rsa /\ set.ok
  BY <1>2, <1>3, <1>4, <1>5, RsaPadInitDoes, RsaPadInitBegins DEF c1
<1>6. CASE ~(Rsa /\ set.ok)
  BY <1>2, <1>3, <1>4, <1>6 DEF c1
<1> QED BY <1>5, <1>6

LEMMA DigestSignVerifyInitBegins ==
  ASSUME Typed, NEW c \in Contexts, NEW op \in Ops, NEW g \in Givens, NEW m \in Md \cup {""}
  PROVE  LET r == DigestSignVerifyInit(c, m, op, g)
         IN /\ r.ok \in BOOLEAN /\ r.c \in Contexts
            /\ r.ok => /\ r.c.op = op /\ (Rsa => r.c.pad # "unset")
                       /\ Clean([c EXCEPT !.op = op]) /\ ~Sha1Held => Clean(r.c)
<1> DEFINE begun == SignVerifyInit(c, op, g)
           r == DigestSignVerifyInit(c, m, op, g)
<1>1. /\ begun.ok \in BOOLEAN /\ begun.c \in Contexts
      /\ begun.ok => /\ begun.c.op = op /\ (Rsa => begun.c.pad # "unset")
                     /\ Clean([c EXCEPT !.op = op]) /\ ~Sha1Held => Clean(begun.c)
  BY SignVerifyInitBegins
<1>2. r = IF begun.ok /\ m \notin {"", begun.c.name}
          THEN IF Rsa THEN RsaSetupMd(begun.c, m, op) ELSE EcdsaSetupMd(begun.c, m, op)
          ELSE begun
  BY DEF DigestSignVerifyInit, RsaDigestSignVerifyInit, EcdsaDigestSignVerifyInit,
         SignVerifyInit
<1> HIDE DEF begun, r
<1>3. CASE ~(begun.ok /\ m \notin {"", begun.c.name})
  BY <1>1, <1>2, <1>3 DEF r
<1>4. CASE begun.ok /\ m \notin {"", begun.c.name}
  <2>1. m \in MdAll
    BY <1>4, ConstantsTyped
  <2>2. CASE Rsa
    <3>1. r = RsaSetupMd(begun.c, m, op)
      BY <1>2, <1>4, <2>2
    <3>2. /\ r.ok \in BOOLEAN /\ r.c \in Contexts
          /\ r.ok => /\ r.c.op = begun.c.op /\ r.c.type = m /\ r.c.pad = begun.c.pad
                     /\ ~(Fips /\ m = "SHA-1" /\ op = "sign")
      BY <1>1, <2>1, <3>1, RsaSetupMdDoes DEF RsaMdSet
    <3> QED BY <1>1, <1>4, <3>2 DEF Clean, r
  <2>3. CASE ~Rsa
    <3>1. r = EcdsaSetupMd(begun.c, m, op)
      BY <1>2, <1>4, <2>3
    <3>2. /\ r.ok \in BOOLEAN /\ r.c \in Contexts
          /\ r.ok => /\ r.c = [begun.c EXCEPT !.type = m, !.fed = <<>>, !.name = m]
                     /\ ~(Fips /\ m = "SHA-1" /\ op = "sign")
      BY <1>1, <2>1, <3>1, EcdsaSetupMdDoes
    <3>3. r.ok => r.c.op = begun.c.op /\ r.c.type = m
      BY <1>1, <3>2 DEF Contexts
    <3> QED BY <1>1, <1>4, <2>3, <3>2, <3>3 DEF Clean, r
  <2> QED BY <2>2, <2>3
<1> QED BY <1>3, <1>4

------------------------------------------------------------------------------
(* What a signature is made of.                                              *)
SaltUsed(c) ==
  IF SaltToWc(c, c.salt) = Discover THEN MaxSalt(c.type) ELSE SaltToWc(c, c.salt)

LEMMA SaltTyped ==
  ASSUME NEW c \in Contexts
  PROVE  SaltUsed(c) \in Int /\ SaltToWc(c, c.salt) \in Int
<1>1. c.salt \in Int
  BY DEF Contexts
<1>2. SaltToWc(c, c.salt) \in Int
  BY <1>1, Lengths, SpecialsTyped DEF SaltToWc, Discover
<1> QED BY <1>2, Lengths DEF SaltUsed

LEMMA SigTyped ==
  ASSUME NEW p \in Kinds, NEW i \in MdOrNone, NEW g \in MdOrNone, NEW n \in Int,
         NEW t \in ToBeSigned
  PROVE  LET s == Sig(p, i, g, n, t)
         IN /\ s \in Signatures
            /\ s.pad = p /\ s.info = i /\ s.mgf = g /\ s.salt = n /\ s.tbs = t
BY DEF Sig, Signatures

SignedOf(c, t, s) ==
  /\ s \in Signatures /\ s.tbs = t
  /\ Rsa => s.pad = c.pad
  /\ key.fam # "ecx" => ~(Fips /\ key.small)
  /\ ~Rsa => s.pad = key.fam
  /\ s.pad = "pss" => /\ c.type # "none" /\ s.info = c.type /\ s.mgf = c.mgf
                      /\ s.salt = SaltUsed(c) /\ s.salt <= MaxSalt(c.type)
  /\ s.pad \in {"pkcs1", "x931"} => s.info = c.type
  /\ s.pad = "pkcs1" => IF c.type = "none" THEN t.md # "raw" ELSE LenOf(t) = HLen(c.type)
  /\ s.pad = "none" => s.info = "none" /\ t.md = "raw"
  /\ s.pad = "ecdsa" => s.info = "none" /\ EcdsaTakes(c, t)

LEMMA SignDoes ==
  ASSUME Typed, NEW c \in Contexts, Rsa => c.pad # "unset", NEW t \in ToBeSigned,
         Sign(c, t) # NoSig
  PROVE  SignedOf(c, t, Sign(c, t))
<1> DEFINE s == Sign(c, t)
<1>0. /\ c.type \in MdOrNone /\ c.mgf \in MdOrNone /\ c.pad \in Pads
      /\ "none" \in MdOrNone
  BY DEF Contexts, MdOrNone
<1>a. /\ "pkcs1" \in Kinds /\ "pss" \in Kinds /\ "none" \in Kinds /\ "x931" \in Kinds
      /\ "ecdsa" \in Kinds /\ "ecx" \in Kinds /\ 0 \in Int
  BY DEF Kinds, Pads
<1>1. /\ c.type \in MdOrNone /\ c.mgf \in MdOrNone /\ c.pad \in Pads
      /\ "none" \in MdOrNone
      /\ "pkcs1" \in Kinds /\ "pss" \in Kinds /\ "none" \in Kinds /\ "x931" \in Kinds
      /\ "ecdsa" \in Kinds /\ "ecx" \in Kinds /\ 0 \in Int
  BY <1>0, <1>a
<1>2. CASE Rsa
  <2>1. s = RsaSign(c, t) /\ ~(Fips /\ key.small)
    <3>1. s = RsaSign(c, t)
      BY <1>2 DEF Sign, Rsa
    <3>2. RsaSign(c, t) # NoSig
      BY <3>1
    <3> QED BY <3>1, <3>2 DEF RsaSign
  <2>2. CASE c.pad = "pkcs1"
    <3>1. s = Sig("pkcs1", c.type, "none", 0, t)
      BY <2>1, <2>2 DEF RsaSign, SignPkcs1
    <3>2. IF c.type = "none" THEN t.md # "raw" ELSE LenOf(t) = HLen(c.type)
      <4>1. SignPkcs1(c, t) # NoSig
        BY <2>1, <2>2 DEF RsaSign
      <4> QED BY <4>1 DEF SignPkcs1
    <3> HIDE DEF s
    <3>3. s \in Signatures /\ s.tbs = t /\ s.pad = "pkcs1" /\ s.info = c.type
      BY <1>1, <3>1, SigTyped
    <3> QED BY <1>2, <2>1, <2>2, <3>2, <3>3 DEF SignedOf, s
  <2>3. CASE c.pad = "pss"
    <3> DEFINE n == SaltToWc(c, c.salt)
    <3>1. s = SignPss(c, t)
      BY <2>1, <2>3 DEF RsaSign
    <3>2. c.type # "none" /\ n <= MaxSalt(c.type) /\ s = Sig("pss", c.type, c.mgf, SaltUsed(c), t)
      BY <3>1 DEF SignPss, SaltUsed
    <3> HIDE DEF s
    <3>3. /\ s \in Signatures /\ s.tbs = t /\ s.pad = "pss" /\ s.info = c.type
          /\ s.mgf = c.mgf /\ s.salt = SaltUsed(c)
      BY <1>1, <3>2, SigTyped, SaltTyped
    <3>4. s.salt <= MaxSalt(c.type)
      BY <3>2, <3>3, SaltTyped, Lengths DEF SaltUsed
    <3> QED BY <1>2, <2>1, <2>3, <3>2, <3>3, <3>4 DEF SignedOf, s
  <2>4. CASE c.pad = "none"
    <3>1. t.md = "raw" /\ s = Sig("none", "none", "none", 0, t)
      BY <2>1, <2>4 DEF RsaSign, SignNoPad
    <3> HIDE DEF s
    <3>2. s \in Signatures /\ s.tbs = t /\ s.pad = "none" /\ s.info = "none"
      BY <1>1, <3>1, SigTyped
    <3> QED BY <1>2, <2>1, <2>4, <3>1, <3>2 DEF SignedOf, s
  <2>5. CASE c.pad = "x931"
    <3>1. s = Sig("x931", c.type, "none", 0, t)
      BY <2>1, <2>5 DEF RsaSign, SignX931
    <3> HIDE DEF s
    <3>2. s \in Signatures /\ s.tbs = t /\ s.pad = "x931" /\ s.info = c.type
      BY <1>1, <3>1, SigTyped
    <3> QED BY <1>2, <2>1, <2>5, <3>2 DEF SignedOf, s
  <2> QED BY <1>1, <1>2, <2>2, <2>3, <2>4, <2>5 DEF Pads
<1>3. CASE key.fam = "ecdsa"
  <2>1. s = Sig("ecdsa", "none", "none", 0, t) /\ EcdsaTakes(c, t) /\ ~(Fips /\ key.small)
    <3>1. s = EcdsaSign(c, t)
      BY <1>3 DEF Sign, Rsa
    <3>2. EcdsaSign(c, t) # NoSig
      BY <3>1
    <3> QED BY <3>1, <3>2 DEF EcdsaSign
  <2> HIDE DEF s
  <2>2. s \in Signatures /\ s.tbs = t /\ s.pad = "ecdsa" /\ s.info = "none"
    BY <1>1, <2>1, SigTyped
  <2> QED BY <1>3, <2>1, <2>2 DEF SignedOf, s, Rsa
<1>4. CASE key.fam = "ecx"
  <2>1. s = Sig("ecx", "none", "none", 0, t)
    BY <1>4 DEF Sign, EcxSign, Rsa
  <2> HIDE DEF s
  <2>2. s \in Signatures /\ s.tbs = t /\ s.pad = "ecx" /\ s.info = "none"
    BY <1>1, <2>1, SigTyped
  <2> QED BY <1>4, <2>2 DEF SignedOf, s, Rsa
<1> QED BY <1>2, <1>3, <1>4, KeyTyped DEF Rsa, Family

LEMMA IdTyped ==
  ASSUME NEW m \in MdOrEmpty, NEW g \in MdOrEmpty, NEW n \in Int
  PROVE  [md |-> m, mgf |-> g, salt |-> n] \in Ids
BY DEF Ids

LEMMA AlgIdTyped ==
  ASSUME NEW c \in Contexts
  PROVE  AlgId(c) \in Ids
<1>1. c.name \in MdOrEmpty /\ c.mgfName \in MdOrEmpty /\ c.salt \in Int
  BY DEF Contexts, MdOrEmpty
<1>2. PssEncodeAlgId(c) \in Ids
  <2> DEFINE h == IF c.name \in {"SHA256", "SHA512"} THEN HLen(c.name) ELSE 0
             n == IF c.salt \in {DigestSalt, AutoDigestMax} THEN h
                  ELSE IF c.salt \in {LongSalt, AutoSalt} THEN KeyLen - h - 2 ELSE c.salt
             salt == IF n = 0 THEN 20 ELSE n % 256
             md == IF h = 0 THEN "SHA-1" ELSE c.name
             mgf == IF c.mgfName \in {"SHA256", "SHA512"} THEN c.mgfName ELSE "SHA-1"
  <2>1. PssEncodeAlgId(c) = [md |-> md, mgf |-> mgf, salt |-> salt]
    BY DEF PssEncodeAlgId
  <2>2. h \in Int
    BY Lengths
  <2>3. n \in Int
    <3> HIDE DEF h
    <3>1. KeyLen - h - 2 \in Int
      BY <2>2, ConstantsTyped
    <3> QED BY <1>1, <2>2, <3>1
  <2>4. salt \in Int
    <3> HIDE DEF n
    <3> QED BY <2>3
  <2>5. md \in MdOrEmpty /\ mgf \in MdOrEmpty
    BY <1>1 DEF MdAll, MdOrEmpty
  <2> HIDE DEF md, mgf, salt
  <2> QED BY <2>1, <2>4, <2>5, IdTyped
<1>3. CASE Rsa /\ c.pad = "pss"
  BY <1>2, <1>3 DEF AlgId, RsaGetAlgId
<1>4. CASE ~(Rsa /\ c.pad = "pss")
  <2> DEFINE md == IF c.name \in {"SHA256", "SHA512"} THEN c.name ELSE ""
             unset == ""
  <2>1. AlgId(c) = [md |-> md, mgf |-> unset, salt |-> 0]
    BY <1>4 DEF AlgId, RsaGetAlgId, EcdsaGetAlgId
  <2>2. md \in MdOrEmpty /\ unset \in MdOrEmpty
    BY <1>1 DEF MdOrEmpty
  <2> HIDE DEF md, unset
  <2> QED BY <2>1, <2>2, IdTyped
<1> QED BY <1>3, <1>4

------------------------------------------------------------------------------
(* What the steps of the protocol are made of.                               *)
MdGiven(m, g) == IF m = "" /\ g # <<>> /\ g[1].what = "md" THEN g[1].to ELSE m
PadGiven(g) == IF g # <<>> /\ g[1].what = "pad" THEN g[1].to ELSE "unset"

LEMMA GivenTyped ==
  ASSUME NEW m \in MdOrEmpty, NEW g \in Givens
  PROVE  MdGiven(m, g) \in MdAll \cup {""} /\ PadGiven(g) \in Pads
<1>1. g # <<>> /\ g[1].what = "md" => g[1].to \in MdAll
  BY GivensTyped DEF Settable, Kind
<1>2. g # <<>> /\ g[1].what = "pad" => g[1].to \in Pads
  BY GivensTyped DEF Settable, Kind
<1> QED BY <1>1, <1>2 DEF MdGiven, PadGiven, Pads, MdOrEmpty

Begun(was, op, way, m, g, r) ==
  /\ r.ok /\ ctx' = r.c
  /\ told'.op = op /\ told'.way = way /\ told'.md = MdGiven(m, g)
  /\ told'.pad = PadGiven(g) /\ told'.data = was.data /\ told'.mgf = was.mgf
  /\ told'.salt = was.salt /\ told'.sets = was.sets /\ told'.copied = was.copied

LEMMA BeginDoes ==
  ASSUME NEW was \in Wishes, NEW op \in Ops, NEW way \in {"digest", "raw"},
         NEW m \in MdOrEmpty, NEW g \in Givens, NEW r,
         r.ok => r.c \in Contexts, Begin(was, op, way, m, g, r)
  PROVE  /\ ctx' \in Contexts /\ told' \in Wishes
         /\ Begun(was, op, way, m, g, r) \/ (ctx' = NewCtx /\ told' = Nothing)
<1>1. CASE r.ok
  <2> DEFINE md == MdGiven(m, g)
             pad == PadGiven(g)
             d == [was EXCEPT !.op = op, !.way = way, !.md = md, !.pad = pad]
  <2>1. ctx' = r.c /\ told' = d
    BY <1>1 DEF Begin, MdGiven, PadGiven
  <2>2. md \in MdAll \cup {""} /\ pad \in Pads
    BY GivenTyped
  <2> HIDE DEF md, pad
  <2>3. d \in Wishes
    BY <2>2 DEF Wishes
  <2>4. /\ d.op = op /\ d.way = way /\ d.md = md /\ d.pad = pad /\ d.data = was.data
        /\ d.mgf = was.mgf /\ d.salt = was.salt /\ d.sets = was.sets
        /\ d.copied = was.copied
    BY <2>2 DEF Wishes
  <2> HIDE DEF d
  <2> QED BY <1>1, <2>1, <2>3, <2>4 DEF Begun, md, pad
<1>2. CASE ~r.ok
  BY <1>2, ConstantsTyped DEF Begin, Freed
<1> QED BY <1>1, <1>2

LEMMA KeepDoes ==
  ASSUME Typed, NEW s, Settable(s), Keep(s)
  PROVE  /\ told' \in Wishes
         /\ told'.op = told.op /\ told'.way = told.way /\ told'.data = told.data
         /\ told'.copied = told.copied /\ told'.sets = told.sets + 1
         /\ told'.md = IF s.what = "md" THEN s.to ELSE told.md
         /\ told'.pad = IF s.what = "pad" THEN s.to ELSE told.pad
         /\ told'.mgf = IF s.what = "mgf" THEN s.to ELSE told.mgf
         /\ told'.salt = IF s.what = "salt" THEN {s.to} ELSE told.salt
<1> DEFINE n == told.sets + 1
           md == IF s.what = "md" THEN s.to ELSE told.md
           pad == IF s.what = "pad" THEN s.to ELSE told.pad
           mgf == IF s.what = "mgf" THEN s.to ELSE told.mgf
           salt == IF s.what = "salt" THEN {s.to} ELSE told.salt
           d == [told EXCEPT !.sets = n, !.md = md, !.pad = pad, !.mgf = mgf, !.salt = salt]
<1>1. told \in Wishes
  BY DEF Typed
<1>2. told' = d
  BY <1>1 DEF Keep, Wishes
<1>3. n \in Nat
  <2>1. told.sets \in Nat
    BY <1>1 DEF Wishes
  <2> QED BY <2>1
<1>4. md \in MdAll \cup {""} /\ mgf \in MdAll \cup {""}
  BY <1>1 DEF Wishes, Settable, Kind
<1>5. pad \in Pads
  BY <1>1 DEF Wishes, Settable, Kind
<1>6. salt \in SUBSET Int
  <2>1. told.salt \in SUBSET Int
    BY <1>1 DEF Wishes
  <2>2. s.what = "salt" => s.to \in Int
    BY DEF Settable, Kind, DigestSalt, AutoSalt, LongSalt
  <2> QED BY <2>1, <2>2
<1> HIDE DEF n, md, pad, mgf, salt
<1> DEFINE e == [told EXCEPT !.sets = n, !.md = md, !.pad = pad]
<1>7. d = [e EXCEPT !.mgf = mgf, !.salt = salt]
  BY <1>1 DEF Wishes
<1>8. e \in Wishes /\ e.sets = n /\ e.md = md /\ e.pad = pad
      /\ e.op = told.op /\ e.way = told.way /\ e.data = told.data /\ e.copied = told.copied
  BY <1>1, <1>3, <1>4, <1>5 DEF Wishes
<1> HIDE DEF e, d
<1>9. /\ d \in Wishes /\ d.mgf = mgf /\ d.salt = salt
      /\ d.sets = e.sets /\ d.md = e.md /\ d.pad = e.pad /\ d.op = e.op /\ d.way = e.way
      /\ d.data = e.data /\ d.copied = e.copied
  BY <1>4, <1>6, <1>7, <1>8 DEF Wishes
<1> QED BY <1>2, <1>8, <1>9 DEF n, md, pad, mgf, salt

LEMMA DupDoes ==
  ASSUME Typed, NEW c \in Contexts
  PROVE  LET d == DupCtx(c)
         IN /\ d \in Contexts /\ d.op = c.op
            /\ d.type = c.type /\ d.name = c.name /\ d.fed = c.fed
            /\ Rsa => /\ d.pad = c.pad /\ d.salt = c.salt /\ d.mgf = c.mgf
                      /\ d.mgfSet = c.mgfSet /\ d.mgfName = c.mgfName
<1> DEFINE d == DupCtx(c)
<1>1. CASE Rsa
  <2>1. d = [c EXCEPT !.min = 0]
    BY <1>1 DEF DupCtx, RsaDupCtx
  <2> HIDE DEF d
  <2>2. d \in Contexts
    BY <2>1 DEF Contexts
  <2>3. /\ d.op = c.op /\ d.type = c.type /\ d.name = c.name /\ d.fed = c.fed
        /\ d.pad = c.pad /\ d.salt = c.salt /\ d.mgf = c.mgf /\ d.mgfSet = c.mgfSet
        /\ d.mgfName = c.mgfName
    BY <2>1 DEF Contexts
  <2> QED BY <2>2, <2>3 DEF d
<1>2. CASE ~Rsa
  <2>1. d = [NewCtx EXCEPT !.type = c.type, !.fed = c.fed, !.op = c.op, !.name = c.name]
    BY <1>2 DEF DupCtx, EcdsaDupCtx
  <2> HIDE DEF d
  <2>2. d \in Contexts
    BY <2>1, ConstantsTyped DEF Contexts
  <2>3. d.op = c.op /\ d.type = c.type /\ d.name = c.name /\ d.fed = c.fed
    BY <2>1, ConstantsTyped DEF Contexts
  <2> QED BY <1>2, <2>2, <2>3 DEF d
<1> QED BY <1>1, <1>2

LEMMA MadeDoes ==
  ASSUME Typed, NEW s, s # NoSig => s \in Signatures, Made(s)
  PROVE  /\ sigs' \in Seq(Records)
         /\ \A i \in 1 .. Len(sigs') :
              \/ i \in 1 .. Len(sigs) /\ sigs'[i] = sigs[i]
              \/ s # NoSig /\ sigs'[i].sig = s /\ sigs'[i].want = told
                 /\ sigs'[i].id = AlgId(ctx)
<1>1. sigs \in Seq(Records) /\ told \in Wishes /\ AlgId(ctx) \in Ids
  BY AlgIdTyped DEF Typed
<1>2. CASE s = NoSig
  BY <1>1, <1>2 DEF Made
<1>3. CASE s # NoSig
  <2> DEFINE rec == [sig |-> s, want |-> told, id |-> AlgId(ctx)]
  <2>1. rec \in Records
    BY <1>1, <1>3 DEF Records
  <2>2. rec.sig = s /\ rec.want = told /\ rec.id = AlgId(ctx)
    OBVIOUS
  <2>3. sigs' = Append(sigs, rec)
    BY <1>3 DEF Made
  <2> HIDE DEF rec
  <2>4. sigs' \in Seq(Records) /\ Len(sigs') = Len(sigs) + 1 /\ Len(sigs) \in Nat
        /\ sigs'[Len(sigs) + 1] = rec
        /\ \A i \in 1 .. Len(sigs) : sigs'[i] = sigs[i]
    BY <1>1, <2>1, <2>3
  <2> QED BY <1>3, <2>2, <2>4
<1> QED BY <1>2, <1>3

------------------------------------------------------------------------------
(* A context is begun before anything is asked of it.                        *)
Ready ==
  /\ told.op # "none" => told.op = ctx.op
  /\ Rsa /\ ctx.op # "none" => ctx.pad # "unset"
Base == Typed /\ Ready

LEMMA FinalisedDoes ==
  ASSUME Typed, NEW own \in BOOLEAN, Finalised(own)
  PROVE  /\ ctx' \in Contexts /\ told' \in Wishes
         /\ ctx' = IF own THEN [ctx EXCEPT !.fed = <<>>] ELSE ctx
         /\ ctx'.op = ctx.op /\ ctx'.type = ctx.type /\ ctx'.pad = ctx.pad
         /\ told' \in {told, [told EXCEPT !.op = "none"]}
         /\ told'.op \in {told.op, "none"} /\ told'.md = told.md /\ told'.mgf = told.mgf
         /\ told'.way = told.way /\ told'.pad = told.pad /\ told'.salt = told.salt
         /\ told'.data = told.data /\ told'.copied = told.copied
         /\ own => told'.op = "none"
<1>1. ctx \in Contexts /\ told \in Wishes
  BY DEF Typed
<1> DEFINE c == [ctx EXCEPT !.fed = <<>>]
           w == [told EXCEPT !.op = "none"]
<1>2. c \in Contexts /\ c.op = ctx.op /\ c.type = ctx.type /\ c.pad = ctx.pad
  BY <1>1, ConstantsTyped DEF Contexts
<1>3. w \in Wishes /\ w.op = "none" /\ w.way = told.way /\ w.md = told.md /\ w.mgf = told.mgf
      /\ w.pad = told.pad /\ w.salt = told.salt /\ w.data = told.data
      /\ w.copied = told.copied
  BY <1>1 DEF Wishes, Ops
<1>4. own => ctx' = c /\ told' = w
  BY DEF Finalised
<1>5. ~own => ctx' = ctx /\ told' \in {told, w}
  BY DEF Finalised
<1> HIDE DEF c, w
<1> QED BY <1>1, <1>2, <1>3, <1>4, <1>5 DEF c, w

LEMMA TbsTyped ==
  /\ \A t \in Tbs : t \in ToBeSigned
  /\ \A c \in Contexts : /\ Digest(c.type, c.fed) \in ToBeSigned
                         /\ Digest(c.type, c.fed).md = c.type
                         /\ Digest(c.type, c.fed).data = c.fed
<1>1. <<<<0, 1>>>> \in Bytes
  BY DEF Bytes
<1>2. ASSUME NEW m \in MdAll \cup {"none"}, NEW b \in Bytes
      PROVE  /\ Digest(m, b) \in ToBeSigned /\ Digest(m, b).md = m /\ Digest(m, b).data = b
  BY <1>2 DEF Digest, ToBeSigned
<1>3. RawBlock(0) \in ToBeSigned
  BY DEF RawBlock, ToBeSigned
<1>4. ASSUME NEW c \in Contexts PROVE c.type \in MdAll \cup {"none"} /\ c.fed \in Bytes
  BY DEF Contexts
<1>5. ASSUME NEW m \in Md PROVE Digest(m, <<<<0, 1>>>>) \in ToBeSigned
  BY <1>1, <1>2, ConstantsTyped
<1>6. \A t \in Tbs : t \in ToBeSigned
  BY <1>3, <1>5 DEF Tbs
<1> QED BY <1>2, <1>4, <1>6

(* A signature of a context that signs. *)
LEMMA DigestSigned ==
  ASSUME Base, NEW own \in BOOLEAN, DigestSignFinal(own)
  PROVE  LET d == IF own THEN ctx ELSE DupCtx(ctx)
             t == Digest(d.type, d.fed)
         IN /\ d \in Contexts /\ t \in ToBeSigned /\ t.md = d.type /\ t.data = d.fed
            /\ Sign(d, t) # NoSig => SignedOf(d, t, Sign(d, t))
<1> DEFINE d == IF own THEN ctx ELSE DupCtx(ctx)
           t == Digest(d.type, d.fed)
<1>1. ctx \in Contexts
  BY DEF Base, Typed
<1>2. d \in Contexts /\ (Rsa => d.pad = ctx.pad)
  BY <1>1, DupDoes DEF Base
<1>3. Rsa => d.pad # "unset"
  BY <1>2 DEF DigestSignFinal, Base, Ready
<1> HIDE DEF d
<1>4. t \in ToBeSigned /\ t.md = d.type /\ t.data = d.fed
  BY <1>2, TbsTyped
<1> HIDE DEF t
<1>5. Sign(d, t) # NoSig => SignedOf(d, t, Sign(d, t))
  BY <1>2, <1>3, <1>4, SignDoes DEF Base
<1> QED BY <1>2, <1>4, <1>5 DEF d, t

LEMMA RawSigned ==
  ASSUME Base, NEW t \in Tbs, RawSign(t), Sign(ctx, t) # NoSig
  PROVE  SignedOf(ctx, t, Sign(ctx, t))
<1>1. ctx \in Contexts /\ t \in ToBeSigned /\ (Rsa => ctx.pad # "unset")
  BY TbsTyped DEF Base, Typed, Ready, RawSign
<1> QED BY <1>1, SignDoes DEF Base

LEMMA Fresh ==
  /\ NewCtx.op = "none" /\ NewCtx.type = "none" /\ NewCtx.name = "" /\ NewCtx.fed = <<>>
  /\ NewCtx.salt = 0 /\ NewCtx.min = 0 /\ NewCtx.mgf = "none" /\ ~NewCtx.mgfSet
  /\ NewCtx.mgfName = "" /\ NewCtx.pad = "unset"
  /\ Nothing.op = "none" /\ Nothing.way = "digest" /\ Nothing.data = <<>>
  /\ Nothing.md = "" /\ Nothing.pad = "unset" /\ Nothing.mgf = "" /\ Nothing.salt = {}
  /\ ~Nothing.copied
BY DEF NewCtx, Nothing

LEMMA InitBase == Init => Base
<1>1. <<>> \in Seq(Records)
  OBVIOUS
<1> QED BY <1>1, ConstantsTyped, Fresh DEF Init, Base, Typed, Ready

LEMMA DigestInitBase ==
  ASSUME Base, NEW op \in {"sign", "verify"}, NEW m \in Md \cup {""}, NEW g \in Givens,
         DigestInit(op, m, g)
  PROVE  LET r == DigestSignVerifyInit(NewCtx, m, op, g)
         IN /\ Begun(Nothing, op, "digest", m, g, r) \/ (ctx' = NewCtx /\ told' = Nothing)
            /\ r.ok \in BOOLEAN /\ r.c \in Contexts
            /\ Base'
<1> DEFINE r == DigestSignVerifyInit(NewCtx, m, op, g)
<1>1. op \in Ops /\ Typed /\ m \in MdOrEmpty
  BY ConstantsTyped DEF Ops, Base, MdOrEmpty
<1>2. /\ r.ok \in BOOLEAN /\ r.c \in Contexts
      /\ r.ok => r.c.op = op /\ (Rsa => r.c.pad # "unset")
  BY <1>1, ConstantsTyped, DigestSignVerifyInitBegins
<1>3. Begin(Nothing, op, "digest", m, g, r) /\ key' = key /\ sigs' = sigs
  BY DEF DigestInit
<1> HIDE DEF r
<1>4. /\ ctx' \in Contexts /\ told' \in Wishes
      /\ Begun(Nothing, op, "digest", m, g, r) \/ (ctx' = NewCtx /\ told' = Nothing)
  BY <1>1, <1>2, <1>3, ConstantsTyped, BeginDoes
<1>5. Typed'
  BY <1>3, <1>4 DEF Base, Typed
<1>6. Ready'
  BY <1>2, <1>3, <1>4, Fresh DEF Ready, Rsa, Begun
<1> QED BY <1>2, <1>4, <1>5, <1>6 DEF Base, r

(* The wishes a context is begun again with. *)
Again == [told EXCEPT !.data = <<>>, !.salt = IF key.fam = "rsa" THEN @ ELSE {}]

LEMMA AgainIs ==
  ASSUME Typed
  PROVE  /\ Again \in Wishes /\ Again.data = <<>> /\ Again.mgf = told.mgf
         /\ Again.copied = told.copied
         /\ Again.salt = IF key.fam = "rsa" THEN told.salt ELSE {}
<1> DEFINE n == IF key.fam = "rsa" THEN told.salt ELSE {}
<1>1. told \in Wishes /\ n \in SUBSET Int
  BY DEF Typed, Wishes
<1>2. Again = [told EXCEPT !.data = <<>>, !.salt = n]
  BY <1>1 DEF Again, Wishes
<1> HIDE DEF n
<1>3. Again \in Wishes /\ Again.data = <<>> /\ Again.mgf = told.mgf
      /\ Again.copied = told.copied /\ Again.salt = n
  BY <1>1, <1>2, ConstantsTyped DEF Wishes
<1> QED BY <1>3 DEF n

LEMMA DigestReinitBase ==
  ASSUME Base, NEW m \in Md \cup {""}, DigestReinit(m)
  PROVE  LET r == DigestSignVerifyInit(ctx, m, ctx.op, <<>>)
             named == IF m = "" THEN ctx.name ELSE m
         IN /\ \/ Begun(Again, ctx.op, "digest", named, <<>>, r)
               \/ ctx' = NewCtx /\ told' = Nothing
            /\ r.ok \in BOOLEAN /\ r.c \in Contexts
            /\ Base'
<1> DEFINE r == DigestSignVerifyInit(ctx, m, ctx.op, <<>>)
           named == IF m = "" THEN ctx.name ELSE m
<1>1. Typed /\ ctx \in Contexts /\ ctx.op \in Ops /\ named \in MdOrEmpty
  BY ConstantsTyped DEF Base, Typed, Contexts, MdOrEmpty
<1>2. <<>> \in Givens
  BY DEF Givens
<1>3. /\ r.ok \in BOOLEAN /\ r.c \in Contexts
      /\ r.ok => r.c.op = ctx.op /\ (Rsa => r.c.pad # "unset")
  BY <1>1, <1>2, DigestSignVerifyInitBegins
<1>4. Begin(Again, ctx.op, "digest", named, <<>>, r) /\ key' = key /\ sigs' = sigs
  BY DEF DigestReinit, Again
<1>5. Again \in Wishes
  BY <1>1, AgainIs
<1> HIDE DEF r, named
<1>6. /\ ctx' \in Contexts /\ told' \in Wishes
      /\ \/ Begun(Again, ctx.op, "digest", named, <<>>, r)
         \/ ctx' = NewCtx /\ told' = Nothing
  BY <1>1, <1>2, <1>3, <1>4, <1>5, BeginDoes
<1>7. Typed'
  BY <1>4, <1>6 DEF Base, Typed
<1>8. Ready'
  BY <1>3, <1>4, <1>6, Fresh DEF Ready, Rsa, Begun
<1> QED BY <1>3, <1>6, <1>7, <1>8 DEF Base, r, named

RawBegun(op, g) ==
  IF key.fam = "ecx" THEN EcxInit(NewCtx, "", op) ELSE SignVerifyInit(NewCtx, op, g)

LEMMA RawInitBase ==
  ASSUME Base, NEW op \in {"sign", "verify", "recover"}, NEW g \in Givens, RawInit(op, g)
  PROVE  /\ \/ Begun(Nothing, op, "raw", "", g, RawBegun(op, g))
            \/ ctx' = NewCtx /\ told' = Nothing
         /\ RawBegun(op, g).ok \in BOOLEAN /\ RawBegun(op, g).c \in Contexts
         /\ key.fam = "ecx" => RawBegun(op, g).c = [NewCtx EXCEPT !.op = op]
         /\ Base'
<1> DEFINE r == RawBegun(op, g)
<1>1. op \in Ops /\ Typed /\ "" \in MdOrEmpty
  BY DEF Ops, Base, MdOrEmpty
<1>2. key.fam = "ecx" => r = [ok |-> TRUE, c |-> [NewCtx EXCEPT !.op = op]]
  BY DEF RawBegun, EcxInit, Done
<1>3. key.fam # "ecx" => r = SignVerifyInit(NewCtx, op, g)
  BY DEF RawBegun
<1>4. Begin(Nothing, op, "raw", "", g, r) /\ key' = key /\ sigs' = sigs
  BY DEF RawInit, RawBegun
<1>5. [NewCtx EXCEPT !.op = op] \in Contexts /\ [NewCtx EXCEPT !.op = op].op = op
  BY <1>1, ConstantsTyped DEF Contexts
<1> HIDE DEF r
<1>6. /\ r.ok \in BOOLEAN /\ r.c \in Contexts
      /\ r.ok => r.c.op = op /\ (Rsa => r.c.pad # "unset")
  <2>1. CASE key.fam = "ecx"
    <3> DEFINE d == [NewCtx EXCEPT !.op = op]
    <3>1. r = [ok |-> TRUE, c |-> d] /\ d \in Contexts /\ d.op = op
      BY <1>2, <1>5, <2>1
    <3> HIDE DEF d
    <3> QED BY <2>1, <3>1 DEF Rsa
  <2>2. CASE key.fam # "ecx"
    BY <1>1, <1>3, <2>2, ConstantsTyped, SignVerifyInitBegins
  <2> QED BY <2>1, <2>2
<1>7. /\ ctx' \in Contexts /\ told' \in Wishes
      /\ Begun(Nothing, op, "raw", "", g, r) \/ (ctx' = NewCtx /\ told' = Nothing)
  BY <1>1, <1>4, <1>6, ConstantsTyped, BeginDoes
<1>8. Typed'
  BY <1>4, <1>7 DEF Base, Typed
<1>9. Ready'
  BY <1>4, <1>6, <1>7, Fresh DEF Ready, Rsa, Begun
<1>10. key.fam = "ecx" => r.c = [NewCtx EXCEPT !.op = op]
  BY <1>2
<1> QED BY <1>6, <1>7, <1>8, <1>9, <1>10 DEF Base, r

LEMMA SetBase ==
  ASSUME Base, NEW s \in Settings, Set(s)
  PROVE  LET r == SetCtxParam(ctx, s)
         IN /\ Settable(s) /\ r.c \in Contexts /\ r.ok \in BOOLEAN
            /\ \/ r.ok /\ ctx' = r.c /\ Keep(s)
               \/ ctx' = NewCtx /\ told' = Nothing
               \/ ~r.ok /\ "on_refusal" \in Habits /\ ctx' = r.c /\ told' = told
            /\ Base'
<1> DEFINE r == SetCtxParam(ctx, s)
<1>1. ctx \in Contexts /\ Settable(s) /\ Typed
  BY SettingsTyped DEF Base, Typed
<1>2. r.c \in Contexts /\ r.ok \in BOOLEAN
  BY <1>1, SetCtxParamTyped
<1>3. r.c.op = ctx.op /\ (ctx.pad # "unset" => r.c.pad # "unset")
  BY <1>1, SetCtxParamKeeps
<1>4. /\ \/ r.ok /\ ctx' = r.c /\ Keep(s)
         \/ ctx' = NewCtx /\ told' = Nothing
         \/ ~r.ok /\ "on_refusal" \in Habits /\ ctx' = r.c /\ told' = told
      /\ key' = key /\ sigs' = sigs /\ told.op # "none"
  BY DEF Set, Freed
<1> HIDE DEF r
<1>5. CASE r.ok /\ ctx' = r.c /\ Keep(s)
  <2>1. told' \in Wishes /\ told'.op = told.op
    BY <1>1, <1>5, KeepDoes
  <2> QED BY <1>1, <1>2, <1>3, <1>4, <1>5, <2>1 DEF Base, Typed, Ready, Rsa, r
<1>6. CASE ctx' = NewCtx /\ told' = Nothing
  BY <1>1, <1>2, <1>4, <1>6, Fresh, ConstantsTyped DEF Base, Typed, Ready, Rsa, r
<1>7. CASE ~r.ok /\ "on_refusal" \in Habits /\ ctx' = r.c /\ told' = told
  BY <1>1, <1>2, <1>3, <1>4, <1>7 DEF Base, Typed, Ready, Rsa, r
<1> QED BY <1>4, <1>5, <1>6, <1>7

LEMMA UpdateBase ==
  ASSUME Base, Update
  PROVE  LET piece == <<Len(sigs), Len(told.data) + 1>>
         IN /\ ctx' = [ctx EXCEPT !.fed = Append(ctx.fed, piece)]
            /\ told' = [told EXCEPT !.data = Append(told.data, piece)]
            /\ Base'
<1> DEFINE piece == <<Len(sigs), Len(told.data) + 1>>
           fed == Append(ctx.fed, piece)
           data == Append(told.data, piece)
<1>1. ctx \in Contexts /\ told \in Wishes /\ sigs \in Seq(Records)
  BY DEF Base, Typed
<1>2. told.data \in Bytes /\ ctx.fed \in Bytes
  BY <1>1 DEF Wishes, Contexts
<1>3. piece \in Nat \X Nat
  BY <1>1, <1>2 DEF Bytes
<1>4. ctx' = [ctx EXCEPT !.fed = fed] /\ told' = [told EXCEPT !.data = data]
      /\ key' = key /\ sigs' = sigs
  BY <1>1 DEF Update, Contexts, Wishes
<1> HIDE DEF piece
<1>5. fed \in Bytes /\ data \in Bytes
  BY <1>2, <1>3 DEF Bytes
<1> HIDE DEF fed, data
<1>6. ctx' \in Contexts /\ ctx'.op = ctx.op /\ ctx'.pad = ctx.pad
  BY <1>1, <1>4, <1>5 DEF Contexts
<1>7. told' \in Wishes /\ told'.op = told.op
  BY <1>1, <1>4, <1>5 DEF Wishes
<1>8. Base'
  BY <1>4, <1>6, <1>7 DEF Base, Typed, Ready, Rsa
<1> QED BY <1>4, <1>8 DEF piece, fed, data

LEMMA CopyBase ==
  ASSUME Base, Copy
  PROVE  /\ told'.copied /\ told'.op = told.op /\ told'.way = told.way
         /\ told'.md = told.md /\ told'.mgf = told.mgf /\ told'.salt = told.salt
         /\ told'.pad = told.pad /\ told'.data = told.data
         /\ Base'
<1>1. Typed /\ ctx \in Contexts /\ told \in Wishes
  BY DEF Base, Typed
<1>2. ctx' \in Contexts /\ ctx'.op = ctx.op /\ (Rsa => ctx'.pad = ctx.pad)
      /\ key' = key /\ sigs' = sigs
  BY <1>1, DupDoes DEF Copy
<1>3. told' = [told EXCEPT !.copied = TRUE]
  BY DEF Copy
<1>4. /\ told' \in Wishes /\ told'.copied /\ told'.op = told.op /\ told'.way = told.way
      /\ told'.md = told.md /\ told'.mgf = told.mgf /\ told'.salt = told.salt
      /\ told'.pad = told.pad /\ told'.data = told.data
  BY <1>1, <1>3 DEF Wishes
<1>5. Base'
  BY <1>1, <1>2, <1>4 DEF Base, Typed, Ready, Rsa
<1> QED BY <1>4, <1>5

LEMMA DigestSignFinalBase ==
  ASSUME Base, NEW own \in BOOLEAN, DigestSignFinal(own)
  PROVE  Base'
<1> DEFINE d == IF own THEN ctx ELSE DupCtx(ctx)
           s == Sign(d, Digest(d.type, d.fed))
<1>1. s # NoSig => s \in Signatures
  BY DigestSigned DEF SignedOf
<1>2. Made(s) /\ Finalised(own) /\ key' = key
  BY DEF DigestSignFinal
<1> HIDE DEF s
<1>3. Typed
  BY DEF Base
<1>4. sigs' \in Seq(Records)
  BY <1>1, <1>2, <1>3, MadeDoes
<1>5. ctx' \in Contexts /\ told' \in Wishes /\ ctx'.op = ctx.op /\ ctx'.pad = ctx.pad
      /\ told'.op \in {told.op, "none"}
  BY <1>2, <1>3, FinalisedDoes
<1> QED BY <1>2, <1>4, <1>5 DEF Base, Typed, Ready, Rsa

LEMMA RawSignBase ==
  ASSUME Base, NEW t \in Tbs, RawSign(t)
  PROVE  Base'
<1>1. Sign(ctx, t) # NoSig => Sign(ctx, t) \in Signatures
  BY RawSigned DEF SignedOf
<1>2. Made(Sign(ctx, t)) /\ ctx' = NewCtx /\ told' = Nothing /\ key' = key
  BY DEF RawSign, Freed
<1>3. sigs' \in Seq(Records)
  BY <1>1, <1>2, MadeDoes DEF Base
<1> QED BY <1>2, <1>3, ConstantsTyped, Fresh DEF Base, Typed, Ready, Rsa

LEMMA VerifyBase ==
  ASSUME Base,
         \/ \E own \in BOOLEAN, s \in Known : DigestVerifyFinal(own, s)
         \/ \E s \in Known, t \in Tbs : RawVerify(s, t)
         \/ \E s \in Known : VerifyRecover(s)
  PROVE  /\ sigs' = sigs /\ key' = key
         /\ \/ ctx' = NewCtx /\ told' = Nothing
            \/ \E own \in BOOLEAN : Finalised(own)
         /\ Base'
<1>1. sigs' = sigs /\ key' = key
  BY DEF DigestVerifyFinal, RawVerify, VerifyRecover
<1>2. \/ ctx' = NewCtx /\ told' = Nothing
      \/ \E own \in BOOLEAN : Finalised(own)
  BY DEF DigestVerifyFinal, RawVerify, VerifyRecover, Freed
<1>3. CASE ctx' = NewCtx /\ told' = Nothing
  BY <1>1, <1>2, <1>3, ConstantsTyped, Fresh DEF Base, Typed, Ready, Rsa
<1>4. CASE \E own \in BOOLEAN : Finalised(own)
  <2>1. ctx' \in Contexts /\ told' \in Wishes /\ ctx'.op = ctx.op /\ ctx'.pad = ctx.pad
        /\ told'.op \in {told.op, "none"}
    BY <1>4, FinalisedDoes DEF Base
  <2>2. Base'
    BY <1>1, <2>1 DEF Base, Typed, Ready, Rsa
  <2> QED BY <1>1, <1>4, <2>2
<1> QED BY <1>2, <1>3, <1>4

LEMMA NextBase == Base /\ [Next]_vars => Base'
<1> SUFFICES ASSUME Base, [Next]_vars PROVE Base'
  OBVIOUS
<1>1. ASSUME NEW op \in {"sign", "verify"}, NEW m \in Md \cup {""}, NEW g \in Givens,
             DigestInit(op, m, g)
      PROVE  Base'
  BY <1>1, DigestInitBase
<1>2. ASSUME NEW m \in Md \cup {""}, DigestReinit(m) PROVE Base'
  BY <1>2, DigestReinitBase
<1>3. ASSUME NEW op \in {"sign", "verify", "recover"}, NEW g \in Givens, RawInit(op, g)
      PROVE  Base'
  BY <1>3, RawInitBase
<1>4. ASSUME NEW s \in Settings, Set(s) PROVE Base'
  BY <1>4, SetBase
<1>5. CASE Update
  BY <1>5, UpdateBase
<1>6. CASE Copy
  BY <1>6, CopyBase
<1>7. ASSUME NEW own \in BOOLEAN, DigestSignFinal(own) PROVE Base'
  BY <1>7, DigestSignFinalBase
<1>8. ASSUME NEW t \in Tbs, RawSign(t) PROVE Base'
  BY <1>8, RawSignBase
<1>9. CASE \/ \E own \in BOOLEAN, s \in Known : DigestVerifyFinal(own, s)
           \/ \E s \in Known, t \in Tbs : RawVerify(s, t)
           \/ \E s \in Known : VerifyRecover(s)
  BY <1>9, VerifyBase
<1>10. CASE UNCHANGED vars
  BY <1>10 DEF vars, Base, Typed, Ready, Rsa
<1> QED BY <1>1, <1>2, <1>3, <1>4, <1>5, <1>6, <1>7, <1>8, <1>9, <1>10 DEF Next

LEMMA SpecBase == Spec => []Base
<1> QED BY InitBase, NextBase, PTL DEF Spec

------------------------------------------------------------------------------
(* The FIPS build.                                                           *)
Sha1NotHeld == \A k \in Keys : k.set => k.md # "SHA-1"
FipsInv == Clean(ctx) /\ FipsSignatures

LEMMA BegunClean ==
  ASSUME Base, Sha1NotHeld, NEW c \in Contexts, NEW op \in Ops, NEW g \in Givens,
         NEW m \in Md \cup {""},
         c.op = op \/ c.type = "none", Clean(c)
  PROVE  LET r == DigestSignVerifyInit(c, m, op, g)
             q == SignVerifyInit(c, op, g)
         IN (r.ok => Clean(r.c)) /\ (q.ok => Clean(q.c))
<1>1. Typed /\ ~Sha1Held
  BY DEF Base, Typed, Sha1NotHeld, Sha1Held, Held
<1>2. Clean([c EXCEPT !.op = op])
  BY DEF Clean, Contexts
<1> QED BY <1>1, <1>2, SignVerifyInitBegins, DigestSignVerifyInitBegins

LEMMA FipsMade ==
  ASSUME Base, FipsSignatures, NEW s, Made(s), key' = key, s # NoSig => s \in Signatures,
         s # NoSig => (key.fam # "ecx" => ~(Fips /\ key.small))
                      /\ (Fips /\ told.way = "digest" => s.tbs.md # "SHA-1")
  PROVE  FipsSignatures'
<1>1. \A i \in 1 .. Len(sigs') :
        \/ i \in 1 .. Len(sigs) /\ sigs'[i] = sigs[i]
        \/ s # NoSig /\ sigs'[i].sig = s /\ sigs'[i].want = told
  BY MadeDoes DEF Base
<1> SUFFICES ASSUME Fips, NEW i \in 1 .. Len(sigs')
             PROVE  /\ key.fam # "ecx" => ~key.small
                    /\ sigs'[i].want.way = "digest" => sigs'[i].sig.tbs.md # "SHA-1"
  BY DEF FipsSignatures
<1> QED BY <1>1 DEF FipsSignatures

LEMMA NextFips ==
  ASSUME Sha1NotHeld, "on_refusal" \notin Habits
  PROVE  Base /\ FipsInv /\ [Next]_vars => FipsInv'
<1> SUFFICES ASSUME Base, FipsInv, [Next]_vars PROVE FipsInv'
  OBVIOUS
<1>0. /\ Typed /\ ctx \in Contexts /\ Clean(ctx) /\ FipsSignatures
      /\ Clean(NewCtx) /\ NewCtx \in Contexts
  BY Fresh, ConstantsTyped DEF Base, Typed, FipsInv, Clean
<1>a. ASSUME key' = key, sigs' = sigs PROVE FipsSignatures'
  BY <1>0, <1>a DEF FipsSignatures, Rsa
<1>b. ASSUME ctx' = NewCtx PROVE Clean(ctx)'
  BY <1>b, Fresh DEF Clean
<1>c. ASSUME ctx'.op = ctx.op, ctx'.type \in {ctx.type, "none"} PROVE Clean(ctx)'
  BY <1>0, <1>c DEF Clean
<1>d. ASSUME NEW r, r.ok => Clean(r.c), r.ok, ctx' = r.c PROVE Clean(ctx)'
  BY <1>d DEF Clean
<1>1. ASSUME NEW op \in {"sign", "verify"}, NEW m \in Md \cup {""}, NEW g \in Givens,
             DigestInit(op, m, g)
      PROVE  FipsInv'
  <2> DEFINE r == DigestSignVerifyInit(NewCtx, m, op, g)
  <2>1. r.ok => Clean(r.c)
    BY <1>0, Fresh, BegunClean DEF Ops
  <2>2. (r.ok /\ ctx' = r.c) \/ ctx' = NewCtx
    BY <1>1, DigestInitBase DEF Begun
  <2>3. key' = key /\ sigs' = sigs
    BY <1>1 DEF DigestInit
  <2> HIDE DEF r
  <2> QED BY <1>a, <1>b, <1>d, <2>1, <2>2, <2>3 DEF FipsInv
<1>2. ASSUME NEW m \in Md \cup {""}, DigestReinit(m) PROVE FipsInv'
  <2> DEFINE r == DigestSignVerifyInit(ctx, m, ctx.op, <<>>)
  <2>1. r.ok => Clean(r.c)
    BY <1>0, BegunClean DEF Contexts, Givens
  <2>2. (r.ok /\ ctx' = r.c) \/ ctx' = NewCtx
    BY <1>2, DigestReinitBase DEF Begun
  <2>3. key' = key /\ sigs' = sigs
    BY <1>2 DEF DigestReinit
  <2> HIDE DEF r
  <2> QED BY <1>a, <1>b, <1>d, <2>1, <2>2, <2>3 DEF FipsInv
<1>3. ASSUME NEW op \in {"sign", "verify", "recover"}, NEW g \in Givens, RawInit(op, g)
      PROVE  FipsInv'
  <2> DEFINE r == SignVerifyInit(NewCtx, op, g)
             q == RawBegun(op, g)
             d == [NewCtx EXCEPT !.op = op]
  <2>1. r.ok => Clean(r.c)
    BY <1>0, Fresh, BegunClean, "" \in Md \cup {""} DEF Ops
  <2>2. (q.ok /\ ctx' = q.c) \/ ctx' = NewCtx
    BY <1>3, RawInitBase DEF Begun
  <2>3. key.fam = "ecx" => q.c = d
    BY <1>3, RawInitBase
  <2>4. key.fam # "ecx" => q = r
    BY DEF RawBegun
  <2>5. d.type = "none"
    BY DEF NewCtx
  <2>6. key' = key /\ sigs' = sigs
    BY <1>3 DEF RawInit
  <2> HIDE DEF r, q, d
  <2>7. q.ok => Clean(q.c)
    BY <2>1, <2>3, <2>4, <2>5 DEF Clean
  <2> QED BY <1>a, <1>b, <1>d, <2>2, <2>6, <2>7 DEF FipsInv
<1>4. ASSUME NEW s \in Settings, Set(s) PROVE FipsInv'
  <2> DEFINE r == SetCtxParam(ctx, s)
  <2>1. Settable(s) /\ ((r.ok /\ ctx' = r.c) \/ ctx' = NewCtx)
    BY <1>4, SetBase
  <2>2. r.ok => Clean(r.c)
    BY <1>0, <2>1, SetCtxParamClean
  <2>3. key' = key /\ sigs' = sigs
    BY <1>4 DEF Set
  <2> HIDE DEF r
  <2> QED BY <1>a, <1>b, <1>d, <2>1, <2>2, <2>3 DEF FipsInv
<1>5. CASE Update
  <2>1. ctx' = [ctx EXCEPT !.fed = Append(ctx.fed, <<Len(sigs), Len(told.data) + 1>>)]
    BY <1>5, UpdateBase
  <2>2. ctx'.op = ctx.op /\ ctx'.type = ctx.type
    BY <1>0, <2>1 DEF Contexts
  <2>3. key' = key /\ sigs' = sigs
    BY <1>5 DEF Update
  <2> QED BY <1>a, <1>c, <2>2, <2>3 DEF FipsInv
<1>6. CASE Copy
  <2>1. ctx' = DupCtx(ctx) /\ key' = key /\ sigs' = sigs
    BY <1>6 DEF Copy
  <2>2. ctx'.op = ctx.op /\ ctx'.type = ctx.type
    BY <1>0, <2>1, DupDoes
  <2> QED BY <1>a, <1>c, <2>1, <2>2 DEF FipsInv
<1>7. ASSUME NEW own \in BOOLEAN, DigestSignFinal(own) PROVE FipsInv'
  <2> DEFINE d == IF own THEN ctx ELSE DupCtx(ctx)
             t == Digest(d.type, d.fed)
             s == Sign(d, t)
  <2>1. t.md = d.type /\ (s # NoSig => SignedOf(d, t, s))
    BY <1>7, DigestSigned
  <2>2. d.type = ctx.type
    BY <1>0, DupDoes
  <2>3. Made(s) /\ Finalised(own) /\ key' = key /\ told.op = "sign"
    BY <1>7 DEF DigestSignFinal
  <2> HIDE DEF d, t, s
  <2>4. Fips => d.type # "SHA-1"
    BY <1>0, <2>2, <2>3 DEF Base, Ready, Clean
  <2>5. s # NoSig => /\ s \in Signatures /\ (key.fam # "ecx" => ~(Fips /\ key.small))
                     /\ (Fips => s.tbs.md # "SHA-1")
    BY <2>1, <2>4 DEF SignedOf
  <2>6. FipsSignatures'
    BY <1>0, <2>3, <2>5, FipsMade
  <2>7. ctx'.op = ctx.op /\ ctx'.type = ctx.type
    BY <1>0, <2>3, FinalisedDoes
  <2> QED BY <1>c, <2>6, <2>7 DEF FipsInv
<1>8. ASSUME NEW t \in Tbs, RawSign(t) PROVE FipsInv'
  <2> DEFINE s == Sign(ctx, t)
  <2>1. s # NoSig => SignedOf(ctx, t, s)
    BY <1>8, RawSigned
  <2>2. Made(s) /\ key' = key /\ told.way = "raw" /\ ctx' = NewCtx
    BY <1>8 DEF RawSign, Freed
  <2> HIDE DEF s
  <2>3. s # NoSig => s \in Signatures /\ (key.fam # "ecx" => ~(Fips /\ key.small))
    BY <2>1 DEF SignedOf
  <2>4. FipsSignatures'
    BY <1>0, <2>2, <2>3, FipsMade
  <2> QED BY <1>b, <2>2, <2>4 DEF FipsInv
<1>9. CASE \/ \E own \in BOOLEAN, s \in Known : DigestVerifyFinal(own, s)
           \/ \E s \in Known, t \in Tbs : RawVerify(s, t)
           \/ \E s \in Known : VerifyRecover(s)
  <2>1. /\ sigs' = sigs /\ key' = key
        /\ ctx' = NewCtx \/ \E own \in BOOLEAN : Finalised(own)
    BY <1>9, VerifyBase
  <2>2. ctx' = NewCtx \/ (ctx'.op = ctx.op /\ ctx'.type = ctx.type)
    BY <1>0, <2>1, FinalisedDoes
  <2> QED BY <1>a, <1>b, <1>c, <2>1, <2>2 DEF FipsInv
<1>10. CASE UNCHANGED vars
  BY <1>a, <1>c, <1>10 DEF vars, FipsInv
<1> QED BY <1>1, <1>2, <1>3, <1>4, <1>5, <1>6, <1>7, <1>8, <1>9, <1>10 DEF Next

LEMMA SpecFipsInv ==
  ASSUME Sha1NotHeld, "on_refusal" \notin Habits
  PROVE  Spec => []FipsInv
<1>1. Init => FipsInv
  <2>1. Init => ctx.op = "none" /\ Len(sigs) = 0
    BY Fresh DEF Init
  <2> QED BY <2>1 DEF FipsInv, FipsSignatures, Clean
<1>2. Base /\ FipsInv /\ [Next]_vars => FipsInv'
  BY NextFips
<1> QED BY <1>1, <1>2, SpecBase, PTL DEF Spec

(* FipsSignatures: the FIPS build signs no SHA-1 digest it hashed itself and *)
(* nothing with a small RSA or EC key (the checks of wp_rsa_setup_md and of  *)
(* wp_ecdsa_setup_md at every init and setting, those of wp_rsa_sign and     *)
(* wp_ecdsa_sign at the signature), whatever became of the context before.   *)
THEOREM SpecFipsSignatures ==
  ASSUME Sha1NotHeld, "on_refusal" \notin Habits
  PROVE  Spec => []FipsSignatures
<1>1. FipsInv => FipsSignatures
  BY DEF FipsInv
<1> QED BY <1>1, SpecFipsInv, PTL

------------------------------------------------------------------------------
(* The init of a PSS key that is given nothing with it. *)
PssSalt == IF key.salt = 0 THEN AutoDigestMax ELSE key.salt

PssBegun(c, d, op) ==
  /\ d.op = op /\ d.pad = "pss" /\ d.min = key.salt
  /\ key.set => /\ d.fed = <<>> /\ d.type = Default(key.md) /\ d.name = Default(key.md)
                /\ c.type \in {"none", Default(key.md)}
                /\ c.mgfSet => c.mgf = Default(key.mgf)
                /\ d.mgfSet /\ d.mgf = Default(key.mgf) /\ d.mgfName = Default(key.mgf)
                /\ d.salt = AutoDigestMax
  /\ ~key.set => /\ d.fed = c.fed /\ d.type = c.type /\ d.name = c.name
                 /\ d.mgfSet = c.mgfSet /\ d.mgf = c.mgf /\ d.mgfName = c.mgfName
                 /\ d.salt = PssSalt

LEMMA PssSignVerifyInitDoes ==
  ASSUME Typed, key.fam = "pss", NEW c \in Contexts, NEW op \in Ops,
         SignVerifyInit(c, op, <<>>).ok
  PROVE  PssBegun(c, SignVerifyInit(c, op, <<>>).c, op)
<1> DEFINE c1 == [c EXCEPT !.op = op]
           d == SignVerifyInit(c, op, <<>>).c
<1>1. /\ c1 \in Contexts /\ c1.op = op /\ c1.fed = c.fed /\ c1.type = c.type
      /\ c1.name = c.name /\ c1.mgfSet = c.mgfSet /\ c1.mgf = c.mgf
      /\ c1.mgfName = c.mgfName
  BY DEF Contexts
<1>2. SignVerifyInit(c, op, <<>>) = RsaPadInit(c1)
  BY DEF SignVerifyInit, RsaSignVerifyInit, SetAll, Done, Rsa
<1> HIDE DEF c1
<1>3. CASE key.set
  <2>1. SignVerifyInit(c, op, <<>>) = Restrict(c1)
    BY <1>1, <1>2, <1>3, RsaPadInitDoes DEF Held, Rsa
  <2>2. Restrict(c1).ok /\ d = Restrict(c1).c
    BY <2>1
  <2> HIDE DEF d
  <2>3. /\ d.op = c1.op /\ d.pad = "pss" /\ d.fed = <<>>
        /\ d.type = Default(key.md) /\ d.name = Default(key.md)
        /\ c1.type \in {"none", Default(key.md)}
        /\ c1.mgfSet => c1.mgf = Default(key.mgf)
        /\ d.mgfSet /\ d.mgf = Default(key.mgf) /\ d.mgfName = Default(key.mgf)
        /\ d.salt = AutoDigestMax /\ d.min = key.salt
    BY <1>1, <2>2, RestrictDoes
  <2> QED BY <1>1, <1>3, <2>3 DEF PssBegun, d
<1>4. CASE ~key.set
  <2>1. d = [c1 EXCEPT !.pad = "pss", !.min = key.salt, !.salt = PssSalt]
    <3>1. d = RsaPadInit(c1).c
      BY <1>2
    <3> HIDE DEF d
    <3>2. Rsa /\ key.fam = "pss" /\ ~key.set
      BY <1>4 DEF Rsa
    <3> QED BY <1>1, <3>1, <3>2, RsaPadInitDoes DEF PssSalt
  <2> HIDE DEF d
  <2>2. /\ d.op = op /\ d.pad = "pss" /\ d.min = key.salt /\ d.salt = PssSalt
        /\ d.fed = c.fed /\ d.type = c.type /\ d.name = c.name
        /\ d.mgf = c.mgf /\ d.mgfName = c.mgfName
    BY <1>1, <2>1 DEF Contexts
  <2>3. d.mgfSet = c.mgfSet
    BY <1>1, <2>1 DEF Contexts
  <2> QED BY <1>4, <2>2, <2>3 DEF PssBegun, d
<1> QED BY <1>3, <1>4

(* With a digest: one that the context has already is left as it is. *)
Inited(b, r, m, op) ==
  /\ b.ok /\ b.c \in Contexts
  /\ m \in {"", b.c.name} => r = b
  /\ m \notin {"", b.c.name} =>
       /\ RsaMdSet(b.c, r.c, m) /\ b.c.type \in {"none", m} /\ b.c.pad # "none"
       /\ b.c.pad = "pss" => key.md = m
       /\ m # "MD5" /\ ~(Fips /\ m = "SHA-1" /\ op = "sign")

LEMMA DigestInitDoes ==
  ASSUME Typed, Rsa, NEW c \in Contexts, NEW op \in Ops, NEW g \in Givens,
         NEW m \in Md \cup {""}, DigestSignVerifyInit(c, m, op, g).ok
  PROVE  Inited(SignVerifyInit(c, op, g), DigestSignVerifyInit(c, m, op, g), m, op)
<1> DEFINE b == SignVerifyInit(c, op, g)
           r == DigestSignVerifyInit(c, m, op, g)
<1>1. r = IF b.ok /\ m \notin {"", b.c.name} THEN RsaSetupMd(b.c, m, op) ELSE b
  BY DEF DigestSignVerifyInit, RsaDigestSignVerifyInit, SignVerifyInit
<1>2. b.c \in Contexts /\ r.ok
  BY SignVerifyInitBegins
<1> HIDE DEF b, r
<1>3. b.ok
  BY <1>1, <1>2
<1>4. CASE m \in {"", b.c.name}
  BY <1>1, <1>2, <1>3, <1>4 DEF Inited, b, r
<1>5. CASE m \notin {"", b.c.name}
  <2>1. r = RsaSetupMd(b.c, m, op) /\ m \in MdAll
    BY <1>1, <1>3, <1>5, ConstantsTyped
  <2>2. /\ RsaMdSet(b.c, r.c, m) /\ b.c.type \in {"none", m} /\ b.c.pad # "none"
        /\ b.c.pad = "pss" => key.md = m
        /\ m # "MD5" /\ ~(Fips /\ m = "SHA-1" /\ op = "sign")
    BY <1>2, <2>1, RsaSetupMdDoes
  <2>3. Inited(b, r, m, op)
    BY <1>2, <1>3, <1>5, <2>2 DEF Inited
  <2> QED BY <2>3 DEF b, r
<1> QED BY <1>4, <1>5

------------------------------------------------------------------------------
(* A context of a restricted PSS key is within the restrictions. *)
RestrictionsFit ==
  \A k \in Keys : k.md # "" =>
    /\ k.salt <= HLen(k.md) /\ k.salt <= MaxSalt(k.md)
    /\ k.set => k.mgf # ""
PlainUse == Habits \subseteq {"reinit", "raw_to_digest"}

Restricted == key.fam = "pss" /\ key.md # ""
SaltWithin(n) ==
  \/ n \in {AutoDigestMax, LongSalt, AutoSalt, DigestSalt}
  \/ n \in Nat /\ n >= key.salt
InRestrictions(c) ==
  /\ c.pad = "pss" /\ c.type \in {"none", key.md} /\ SaltWithin(c.salt)
  /\ key.set => c.mgfSet /\ c.mgf = key.mgf
Within ==
  Restricted /\ ctx.op # "none" =>
    /\ InRestrictions(ctx)
    /\ told.op # "none" /\ ~told.copied => ctx.min = key.salt

LEMMA RestrictedKey ==
  ASSUME Typed, RestrictionsFit, Restricted
  PROVE  /\ key.fam = "pss" /\ Rsa /\ key.md \in MdAll /\ key.salt \in Nat
         /\ key.salt <= HLen(key.md) /\ key.salt <= MaxSalt(key.md)
         /\ Default(key.md) = key.md
         /\ key.set => Default(key.mgf) = key.mgf
BY KeyTyped DEF Restricted, RestrictionsFit, Typed, Rsa, Default, PssMd, MdAll

LEMMA PssSaltWithin ==
  ASSUME key.salt \in Nat
  PROVE  SaltWithin(AutoDigestMax) /\ SaltWithin(PssSalt)
<1>1. SaltWithin(AutoDigestMax)
  BY DEF SaltWithin
<1>2. SaltWithin(key.salt)
  BY DEF SaltWithin
<1> QED BY <1>1, <1>2 DEF PssSalt

LEMMA RestrictedInit ==
  ASSUME Typed, RestrictionsFit, Restricted, NEW c \in Contexts, NEW op \in Ops,
         NEW m \in Md \cup {""}, c.type \in {"none", key.md}
  PROVE  LET q == SignVerifyInit(c, op, <<>>)
             r == DigestSignVerifyInit(c, m, op, <<>>)
         IN /\ q.ok => InRestrictions(q.c) /\ q.c.min = key.salt
            /\ r.ok => InRestrictions(r.c) /\ r.c.min = key.salt
<1> DEFINE q == SignVerifyInit(c, op, <<>>)
           r == DigestSignVerifyInit(c, m, op, <<>>)
<1>1. /\ key.fam = "pss" /\ Rsa /\ key.md \in MdAll /\ key.salt \in Nat
      /\ Default(key.md) = key.md /\ (key.set => Default(key.mgf) = key.mgf)
  BY RestrictedKey
<1>2. ASSUME q.ok PROVE InRestrictions(q.c) /\ q.c.min = key.salt
  <2>1. PssBegun(c, q.c, op)
    BY <1>1, <1>2, PssSignVerifyInitDoes
  <2> HIDE DEF q
  <2>2. SaltWithin(AutoDigestMax) /\ SaltWithin(PssSalt)
    BY <1>1, PssSaltWithin
  <2> QED BY <1>1, <2>1, <2>2, KeyTyped DEF InRestrictions, PssBegun
<1>3. ASSUME r.ok PROVE InRestrictions(r.c) /\ r.c.min = key.salt
  <2>1. <<>> \in Givens
    BY DEF Givens
  <2>a. Inited(q, r, m, op)
    BY <1>1, <1>3, <2>1, DigestInitDoes
  <2> HIDE DEF q, r
  <2>2. /\ q.ok /\ q.c \in Contexts
        /\ m \in {"", q.c.name} => r = q
        /\ m \notin {"", q.c.name} => /\ RsaMdSet(q.c, r.c, m)
                                      /\ q.c.pad = "pss" => key.md = m
    BY <2>a DEF Inited
  <2> QED BY <1>2, <2>2 DEF InRestrictions, RsaMdSet
<1> QED BY <1>2, <1>3

LEMMA RestrictedSalt ==
  ASSUME Typed, RestrictionsFit, Restricted, NEW c \in Contexts, InRestrictions(c),
         c.type # "none"
  PROVE  SaltUsed(c) >= key.salt
<1>1. /\ c.type = key.md /\ SaltWithin(c.salt)
      /\ key.salt \in Nat /\ key.salt <= HLen(key.md) /\ key.salt <= MaxSalt(key.md)
  BY RestrictedKey DEF InRestrictions
<1>2. HLen(key.md) \in Int /\ MaxSalt(key.md) \in Int
  BY Lengths
<1>3. CASE c.salt \in {DigestSalt, AutoDigestMax}
  <2>1. SaltToWc(c, c.salt) = HLen(key.md)
    BY <1>1, <1>3, SpecialsTyped DEF SaltToWc
  <2> QED BY <1>1, <1>2, <2>1 DEF SaltUsed
<1>4. CASE c.salt = LongSalt
  <2>1. SaltToWc(c, c.salt) = MaxSalt(key.md)
    BY <1>1, <1>4, SpecialsTyped DEF SaltToWc
  <2> QED BY <1>1, <1>2, <2>1 DEF SaltUsed
<1>5. CASE c.salt = AutoSalt
  <2>1. SaltToWc(c, c.salt) = Discover
    BY <1>1, <1>5, SpecialsTyped DEF SaltToWc
  <2> QED BY <1>1, <1>2, <2>1 DEF SaltUsed
<1>6. CASE c.salt \in Nat /\ c.salt >= key.salt
  <2>1. SaltToWc(c, c.salt) = c.salt
    BY <1>6, SpecialsTyped DEF SaltToWc
  <2> QED BY <1>1, <1>2, <1>6, <2>1 DEF SaltUsed
<1> QED BY <1>1, <1>3, <1>4, <1>5, <1>6 DEF SaltWithin

LEMMA RestrictedSet ==
  ASSUME Typed, RestrictionsFit, Restricted, NEW c \in Contexts, InRestrictions(c),
         NEW s, Settable(s), SetCtxParam(c, s).ok,
         s.what = "salt" => c.min = key.salt, ~(s.what = "pad" /\ s.to = "none")
  PROVE  LET d == SetCtxParam(c, s).c IN InRestrictions(d) /\ d.min = c.min
<1> DEFINE r == SetCtxParam(c, s)
           d == r.c
<1>1. key.fam = "pss" /\ Rsa /\ c.pad = "pss"
  BY RestrictedKey DEF InRestrictions
<1>2. CASE s.what = "md"
  <2>1. s.to \in MdAll
    BY <1>2 DEF Settable, Kind
  <2>2. r = RsaSetupMd(c, s.to, c.op)
    BY <1>1, <1>2 DEF SetCtxParam, SetupMd
  <2>3. RsaMdSet(c, d, s.to) /\ key.md = s.to
    BY <1>1, <2>1, <2>2, RsaSetupMdDoes
  <2> HIDE DEF d
  <2> QED BY <2>3 DEF RsaMdSet, InRestrictions, d
<1>3. CASE s.what = "mgf"
  <2>1. s.to \in MdAll
    BY <1>3 DEF Settable, Kind
  <2>2. r = SetupMgf1(c, s.to)
    BY <1>1, <1>3 DEF SetCtxParam, SetMgf1Digest
  <2>3. /\ d = [c EXCEPT !.mgfName = s.to, !.mgf = s.to, !.mgfSet = TRUE]
        /\ ~(c.mgfSet /\ c.mgf # s.to)
    <3>1. SetupMgf1(c, s.to).ok /\ d = SetupMgf1(c, s.to).c
      BY <2>2
    <3> HIDE DEF d
    <3> QED BY <2>1, <3>1, SetupMgf1Does
  <2> HIDE DEF d
  <2>4. /\ d.pad = c.pad /\ d.type = c.type /\ d.salt = c.salt /\ d.min = c.min
        /\ d.mgf = s.to /\ d.mgfSet
    BY <2>3 DEF Contexts
  <2> QED BY <2>3, <2>4 DEF InRestrictions, d
<1>4. CASE s.what = "pad"
  <2>1. s.to \in Pads \ {"unset"}
    BY <1>4 DEF Settable, Kind
  <2>2. r = SetPadMode(c, s.to)
    BY <1>4 DEF SetCtxParam
  <2>3. d = [c EXCEPT !.pad = s.to] /\ ~(s.to \in {"pkcs1", "x931"})
    BY <1>1, <2>1, <2>2, SetPadModeDoes
  <2>4. s.to = "pss"
    BY <1>4, <2>1, <2>3 DEF Pads
  <2> HIDE DEF d
  <2>5. /\ d.pad = "pss" /\ d.type = c.type /\ d.salt = c.salt /\ d.min = c.min
        /\ d.mgf = c.mgf
    BY <2>3, <2>4 DEF Contexts
  <2>6. d.mgfSet = c.mgfSet
    BY <2>3 DEF Contexts
  <2> QED BY <2>5, <2>6 DEF InRestrictions, d
<1>5. CASE s.what = "salt"
  <2>1. s.to \in Int /\ (s.to \in {AutoDigestMax, LongSalt, AutoSalt, DigestSalt} \/ s.to \in Nat)
    BY <1>5 DEF Settable, Kind, AutoDigestMax, DigestSalt, AutoSalt, LongSalt
  <2>2. r = SetSaltLen(c, s.to)
    BY <1>5 DEF SetCtxParam
  <2>3. d = [c EXCEPT !.salt = s.to] /\ (s.to >= 0 => s.to >= c.min)
    BY <2>1, <2>2, SetSaltLenDoes
  <2> HIDE DEF d
  <2>4. /\ d.pad = c.pad /\ d.type = c.type /\ d.salt = s.to /\ d.min = c.min
        /\ d.mgf = c.mgf
    BY <2>1, <2>3 DEF Contexts
  <2>5. d.mgfSet = c.mgfSet
    BY <2>3 DEF Contexts
  <2>6. SaltWithin(s.to)
    BY <1>5, <2>1, <2>3 DEF SaltWithin
  <2> QED BY <2>4, <2>5, <2>6 DEF InRestrictions, d
<1> QED BY <1>2, <1>3, <1>4, <1>5 DEF Settable

LEMMA RestrictedMade ==
  ASSUME Base, RestrictionKept, NEW s, Made(s), key' = key, s # NoSig => s \in Signatures,
         Restricted /\ s # NoSig => /\ s.pad = "pss" /\ s.info = key.md /\ s.salt >= key.salt
                                    /\ key.set => s.mgf = key.mgf
  PROVE  RestrictionKept'
<1>1. \A i \in 1 .. Len(sigs') :
        \/ i \in 1 .. Len(sigs) /\ sigs'[i] = sigs[i]
        \/ s # NoSig /\ sigs'[i].sig = s
  BY MadeDoes DEF Base
<1> SUFFICES ASSUME Restricted, NEW i \in 1 .. Len(sigs')
             PROVE  LET q == sigs'[i].sig
                    IN /\ q.pad = "pss" /\ q.info = key.md /\ q.salt >= key.salt
                       /\ key.set => q.mgf = key.mgf
  BY DEF RestrictionKept, Restricted
<1> QED BY <1>1 DEF RestrictionKept, Restricted

LEMMA RestrictedSigned ==
  ASSUME Typed, RestrictionsFit, Restricted, NEW c \in Contexts, InRestrictions(c),
         NEW t, NEW s, SignedOf(c, t, s)
  PROVE  /\ s.pad = "pss" /\ s.info = key.md /\ s.salt >= key.salt
         /\ key.set => s.mgf = key.mgf
<1>1. Rsa
  BY RestrictedKey
<1>2. s.pad = "pss"
  BY <1>1 DEF SignedOf, InRestrictions
<1>3. c.type # "none" /\ s.info = c.type /\ s.mgf = c.mgf /\ s.salt = SaltUsed(c)
  BY <1>2 DEF SignedOf
<1>4. s.salt >= key.salt
  BY <1>3, RestrictedSalt
<1> QED BY <1>2, <1>3, <1>4 DEF InRestrictions

RestInv == Within /\ RestrictionKept

LEMMA NextRestricted ==
  ASSUME RestrictionsFit, PlainUse
  PROVE  Base /\ RestInv /\ [Next]_vars => RestInv'
<1> SUFFICES ASSUME Base, RestInv, [Next]_vars PROVE RestInv'
  OBVIOUS
<1>0. /\ Typed /\ ctx \in Contexts /\ NewCtx \in Contexts /\ Within /\ RestrictionKept
      /\ "init_params" \notin Habits /\ "on_refusal" \notin Habits
      /\ "raw_pss" \notin Habits /\ "after_dup" \notin Habits
      /\ <<>> \in Givens
  BY ConstantsTyped DEF Base, Typed, RestInv, PlainUse, Givens
<1>a. ASSUME key' = key, sigs' = sigs PROVE RestrictionKept'
  BY <1>0, <1>a DEF RestrictionKept
<1>b. ASSUME key' = key, ctx' = NewCtx PROVE Within'
  BY <1>b, Fresh DEF Within
<1>c. ASSUME key' = key, NEW r, r.ok, ctx' = r.c,
             Restricted => InRestrictions(r.c) /\ r.c.min = key.salt
      PROVE  Within'
  BY <1>c DEF Within, InRestrictions, Restricted, SaltWithin
<1>d. ASSUME key' = key, ctx'.op = ctx.op, ctx'.pad = ctx.pad, ctx'.type = ctx.type,
             ctx'.salt = ctx.salt, ctx'.mgfSet = ctx.mgfSet, ctx'.mgf = ctx.mgf,
             told'.op # "none" /\ ~told'.copied =>
               told.op # "none" /\ ~told.copied /\ ctx'.min = ctx.min
      PROVE  Within'
  BY <1>0, <1>d DEF Within, InRestrictions, Restricted, SaltWithin
<1>e. Restricted /\ told.op # "none" => ctx.op # "none" /\ InRestrictions(ctx)
  BY <1>0 DEF Base, Ready, Within
<1>1. ASSUME NEW op \in {"sign", "verify"}, NEW m \in Md \cup {""}, NEW g \in Givens,
             DigestInit(op, m, g)
      PROVE  RestInv'
  <2> DEFINE r == DigestSignVerifyInit(NewCtx, m, op, g)
  <2>1. Restricted => g = <<>>
    BY <1>0, <1>1 DEF DigestInit, Given, Restricted
  <2>2. Restricted /\ r.ok => InRestrictions(r.c) /\ r.c.min = key.salt
    <3>1. op \in Ops /\ NewCtx.type = "none"
      BY Fresh DEF Ops
    <3>2. ASSUME Restricted, DigestSignVerifyInit(NewCtx, m, op, <<>>).ok
          PROVE  /\ InRestrictions(DigestSignVerifyInit(NewCtx, m, op, <<>>).c)
                 /\ DigestSignVerifyInit(NewCtx, m, op, <<>>).c.min = key.salt
      BY <1>0, <3>1, <3>2, RestrictedInit
    <3> QED BY <2>1, <3>2
  <2>3. (r.ok /\ ctx' = r.c) \/ ctx' = NewCtx
    BY <1>1, DigestInitBase DEF Begun
  <2>4. key' = key /\ sigs' = sigs
    BY <1>1 DEF DigestInit
  <2> HIDE DEF r
  <2> QED BY <1>a, <1>b, <1>c, <2>2, <2>3, <2>4 DEF RestInv
<1>2. ASSUME NEW m \in Md \cup {""}, DigestReinit(m) PROVE RestInv'
  <2> DEFINE r == DigestSignVerifyInit(ctx, m, ctx.op, <<>>)
  <2>1. Restricted => ctx.type \in {"none", key.md}
    BY <1>0, <1>2 DEF DigestReinit, Within, InRestrictions
  <2>2. Restricted /\ r.ok => InRestrictions(r.c) /\ r.c.min = key.salt
    <3>1. ctx.op \in Ops
      BY <1>0 DEF Contexts
    <3> QED BY <1>0, <2>1, <3>1, RestrictedInit
  <2>3. (r.ok /\ ctx' = r.c) \/ ctx' = NewCtx
    BY <1>2, DigestReinitBase DEF Begun
  <2>4. key' = key /\ sigs' = sigs
    BY <1>2 DEF DigestReinit
  <2> HIDE DEF r
  <2> QED BY <1>a, <1>b, <1>c, <2>2, <2>3, <2>4 DEF RestInv
<1>3. ASSUME NEW op \in {"sign", "verify", "recover"}, NEW g \in Givens, RawInit(op, g)
      PROVE  RestInv'
  <2> DEFINE q == RawBegun(op, g)
  <2>1. Restricted => g = <<>> /\ key.fam # "ecx"
    BY <1>0, <1>3 DEF RawInit, Given, Restricted
  <2>2. Restricted => q = SignVerifyInit(NewCtx, op, <<>>)
    BY <2>1 DEF RawBegun
  <2>3. Restricted /\ q.ok => InRestrictions(q.c) /\ q.c.min = key.salt
    <3>1. op \in Ops /\ "" \in Md \cup {""} /\ NewCtx.type = "none"
      BY Fresh DEF Ops
    <3>2. ASSUME Restricted, q.ok PROVE InRestrictions(q.c) /\ q.c.min = key.salt
      BY <1>0, <2>2, <3>1, <3>2, RestrictedInit
    <3> QED BY <3>2
  <2>4. (q.ok /\ ctx' = q.c) \/ ctx' = NewCtx
    BY <1>3, RawInitBase DEF Begun
  <2>5. key' = key /\ sigs' = sigs
    BY <1>3 DEF RawInit
  <2> HIDE DEF q
  <2> QED BY <1>a, <1>b, <1>c, <2>3, <2>4, <2>5 DEF RestInv
<1>4. ASSUME NEW s \in Settings, Set(s) PROVE RestInv'
  <2> DEFINE r == SetCtxParam(ctx, s)
  <2>1. /\ Settable(s)
        /\ (r.ok /\ ctx' = r.c /\ Keep(s)) \/ (ctx' = NewCtx /\ told' = Nothing)
    BY <1>0, <1>4, SetBase
  <2>2. /\ key' = key /\ sigs' = sigs /\ told.op # "none"
        /\ key.fam = "pss" /\ s.what = "pad" => s.to # "none"
        /\ s.what = "salt" => ~told.copied
    BY <1>0, <1>4 DEF Set
  <2>3. CASE r.ok /\ ctx' = r.c /\ Keep(s)
    <3>1. told'.copied = told.copied /\ told'.op = told.op
      BY <1>0, <2>1, <2>3, KeepDoes
    <3>2. ASSUME Restricted
          PROVE  InRestrictions(r.c) /\ r.c.min = ctx.min
                 /\ (told.op # "none" /\ ~told.copied => ctx.min = key.salt)
      <4>1. /\ InRestrictions(ctx) /\ ~(s.what = "pad" /\ s.to = "none")
            /\ told.op # "none" /\ ~told.copied => ctx.min = key.salt
        BY <1>0, <1>e, <2>2, <3>2 DEF Within, Restricted
      <4>2. s.what = "salt" => ctx.min = key.salt
        BY <2>2, <4>1
      <4> QED BY <1>0, <2>1, <2>3, <3>2, <4>1, <4>2, RestrictedSet
    <3> HIDE DEF r
    <3>3. Within'
      BY <2>2, <2>3, <3>1, <3>2 DEF Within, InRestrictions, Restricted, SaltWithin
    <3> QED BY <1>a, <2>2, <3>3 DEF RestInv
  <2>4. CASE ctx' = NewCtx
    BY <1>a, <1>b, <2>2, <2>4 DEF RestInv
  <2> QED BY <2>1, <2>3, <2>4
<1>5. CASE Update
  <2>1. ctx' = [ctx EXCEPT !.fed = Append(ctx.fed, <<Len(sigs), Len(told.data) + 1>>)]
    BY <1>5, UpdateBase
  <2>2. /\ ctx'.op = ctx.op /\ ctx'.pad = ctx.pad /\ ctx'.type = ctx.type
        /\ ctx'.salt = ctx.salt /\ ctx'.mgf = ctx.mgf /\ ctx'.min = ctx.min
    BY <1>0, <2>1 DEF Contexts
  <2>3. ctx'.mgfSet = ctx.mgfSet
    BY <1>0, <2>1 DEF Contexts
  <2>4. key' = key /\ sigs' = sigs /\ told'.op = told.op /\ told'.copied = told.copied
    BY <1>5 DEF Update, Base, Typed, Wishes
  <2> QED BY <1>a, <1>d, <2>2, <2>3, <2>4 DEF RestInv
<1>6. CASE Copy
  <2>1. ctx' = DupCtx(ctx) /\ key' = key /\ sigs' = sigs /\ told'.copied
    BY <1>6, CopyBase DEF Copy
  <2>2. CASE Restricted
    <3>1. Rsa /\ key.fam # "ecx"
      BY <2>2 DEF Restricted, Rsa
    <3>2. /\ ctx'.op = ctx.op /\ ctx'.pad = ctx.pad /\ ctx'.type = ctx.type
          /\ ctx'.salt = ctx.salt /\ ctx'.mgfSet = ctx.mgfSet /\ ctx'.mgf = ctx.mgf
      BY <1>0, <2>1, <3>1, DupDoes
    <3> QED BY <1>a, <1>d, <2>1, <3>2 DEF RestInv
  <2>3. CASE ~Restricted
    BY <1>a, <2>1, <2>3 DEF RestInv, Within, Restricted
  <2> QED BY <2>2, <2>3
<1>f. ASSUME NEW own \in BOOLEAN, Finalised(own), key' = key PROVE Within'
  <2>1. /\ ctx' = IF own THEN [ctx EXCEPT !.fed = <<>>] ELSE ctx
        /\ told'.op \in {told.op, "none"} /\ told'.copied = told.copied
        /\ own => told'.op = "none"
    BY <1>0, <1>f, FinalisedDoes
  <2>2. /\ ctx'.op = ctx.op /\ ctx'.pad = ctx.pad /\ ctx'.type = ctx.type
        /\ ctx'.salt = ctx.salt /\ ctx'.mgf = ctx.mgf
    BY <1>0, <2>1 DEF Contexts
  <2>3. ctx'.mgfSet = ctx.mgfSet
    BY <1>0, <2>1 DEF Contexts
  <2> QED BY <1>d, <1>f, <2>1, <2>2, <2>3
<1>7. ASSUME NEW own \in BOOLEAN, DigestSignFinal(own) PROVE RestInv'
  <2> DEFINE d == IF own THEN ctx ELSE DupCtx(ctx)
             t == Digest(d.type, d.fed)
             s == Sign(d, t)
  <2>1. d \in Contexts /\ (s # NoSig => SignedOf(d, t, s))
    BY <1>7, DigestSigned
  <2>2. Made(s) /\ Finalised(own) /\ key' = key /\ told.op = "sign"
    BY <1>7 DEF DigestSignFinal
  <2>3. Restricted => InRestrictions(d)
    <3>1. Restricted => InRestrictions(ctx) /\ Rsa /\ key.fam # "ecx"
      BY <1>e, <2>2 DEF Restricted, Rsa
    <3> QED BY <1>0, <3>1, DupDoes DEF InRestrictions
  <2> HIDE DEF d, t, s
  <2>4. s # NoSig => s \in Signatures
    BY <2>1 DEF SignedOf
  <2>5. Restricted /\ s # NoSig => /\ s.pad = "pss" /\ s.info = key.md /\ s.salt >= key.salt
                                   /\ key.set => s.mgf = key.mgf
    BY <1>0, <2>1, <2>3, RestrictedSigned
  <2>6. RestrictionKept'
    BY <1>0, <2>2, <2>4, <2>5, RestrictedMade
  <2> QED BY <1>f, <2>2, <2>6 DEF RestInv
<1>8. ASSUME NEW t \in Tbs, RawSign(t) PROVE RestInv'
  <2> DEFINE s == Sign(ctx, t)
  <2>1. s # NoSig => SignedOf(ctx, t, s)
    BY <1>8, RawSigned
  <2>2. Made(s) /\ key' = key /\ told.op = "sign" /\ ctx' = NewCtx
    BY <1>8 DEF RawSign, Freed
  <2>3. Restricted => InRestrictions(ctx)
    BY <1>e, <2>2
  <2> HIDE DEF s
  <2>4. s # NoSig => s \in Signatures
    BY <2>1 DEF SignedOf
  <2>5. Restricted /\ s # NoSig => /\ s.pad = "pss" /\ s.info = key.md /\ s.salt >= key.salt
                                   /\ key.set => s.mgf = key.mgf
    BY <1>0, <2>1, <2>3, RestrictedSigned
  <2>6. RestrictionKept'
    BY <1>0, <2>2, <2>4, <2>5, RestrictedMade
  <2> QED BY <1>b, <2>2, <2>6 DEF RestInv
<1>9. CASE \/ \E own \in BOOLEAN, s \in Known : DigestVerifyFinal(own, s)
           \/ \E s \in Known, t \in Tbs : RawVerify(s, t)
           \/ \E s \in Known : VerifyRecover(s)
  <2>1. /\ sigs' = sigs /\ key' = key
        /\ ctx' = NewCtx \/ \E own \in BOOLEAN : Finalised(own)
    BY <1>9, VerifyBase
  <2> QED BY <1>a, <1>b, <1>f, <2>1 DEF RestInv
<1>10. CASE UNCHANGED vars
  BY <1>0, <1>10 DEF vars, RestInv, Within, RestrictionKept, Restricted, InRestrictions, SaltWithin
<1> QED BY <1>1, <1>2, <1>3, <1>4, <1>5, <1>6, <1>7, <1>8, <1>9, <1>10 DEF Next

(* RestrictionKept: no order of inits, settings, copies and verifications    *)
(* makes a signature outside of the restrictions of a PSS key: the padding   *)
(* of every init (wp_rsa_pad_init) and the checks of the settings hold them, *)
(* for a program that makes no settings after a refusal or on a copy.        *)
THEOREM SpecRestrictionKept ==
  ASSUME RestrictionsFit, PlainUse
  PROVE  Spec => []RestrictionKept
<1>1. Init => RestInv
  <2>1. Init => ctx.op = "none" /\ Len(sigs) = 0
    BY Fresh DEF Init
  <2>2. Init => Within
    BY <2>1 DEF Within
  <2>3. ASSUME Init PROVE RestrictionKept
    <3>1. \A i \in 1 .. Len(sigs) : FALSE
      BY <2>1, <2>3
    <3> QED BY <3>1 DEF RestrictionKept
  <2> QED BY <2>2, <2>3 DEF RestInv
<1>2. Base /\ RestInv /\ [Next]_vars => RestInv'
  BY NextRestricted
<1>3. RestInv => RestrictionKept
  BY DEF RestInv
<1> QED BY <1>1, <1>2, <1>3, SpecBase, PTL DEF Spec

------------------------------------------------------------------------------
(* A context works with what the program has told it, and with the defaults  *)
(* of its key where the program has said nothing.                            *)
MdTold(w) == IF w.md # "" THEN w.md ELSE IF Held THEN Default(key.md) ELSE "none"
NameOf(m) == IF m = "none" THEN "" ELSE m

MgfAsTold(c, w) ==
  /\ c.mgf = IF w.mgf # "" THEN w.mgf ELSE IF Held THEN Default(key.mgf) ELSE c.type
  /\ c.mgfSet <=> (w.mgf # "" \/ Held)
  /\ c.mgfName = NameOf(c.mgf) /\ c.mgf # "MD5"

PadAsTold(c, w) ==
  /\ c.pad = PadOf(w) /\ (c.pad = "none" => c.type = "none")
  /\ key.fam = "rsa" => c.pad \in {"pkcs1", "pss", "none", "x931"}
  /\ key.fam = "pss" => c.pad = "pss"

SaltAsTold(c, w) ==
  \/ w.salt = {} /\ (c.salt = AutoDigestMax \/ c.salt \in Nat)
  \/ w.salt = {c.salt} /\ c.salt \in {DigestSalt, AutoSalt, LongSalt, 20}

AsTold(c, w) ==
  /\ key.fam # "ecx" => /\ c.type = MdTold(w) /\ c.type # "MD5" /\ c.name = NameOf(c.type)
  /\ key.fam = "ecx" => /\ c.type = "none" /\ c.fed = <<>> /\ w.data = <<>> /\ w.way = "raw"
  /\ Rsa => MgfAsTold(c, w) /\ PadAsTold(c, w) /\ SaltAsTold(c, w)

SoundSig(s) ==
  /\ s.pad = "pss" => s.info # "none" /\ s.salt \in Nat
  /\ s.pad = "ecdsa" => LenOf(s.tbs) >= MinDigest

SoundSigs == \A i \in 1 .. Len(sigs) : SoundSig(sigs[i].sig)

ToldInv ==
  /\ ctx.op # "none" => AsTold(ctx, told)
  /\ told.op # "none" => ctx.fed = told.data
  /\ SoundSigs

(* Before an init: a fresh context, or one whose message is over. *)
Plain(c, w) ==
  /\ c.fed = <<>> /\ c.type # "MD5" /\ c.name = NameOf(c.type)
  /\ Rsa => /\ c.mgfName = NameOf(c.mgf) /\ c.mgf # "MD5"
            /\ w.mgf # "" => c.mgfSet /\ c.mgf = w.mgf
            /\ c.mgfSet => w.mgf # "" \/ Held
            /\ ~c.mgfSet => c.mgf = c.type

LEMMA MdSetPlain ==
  ASSUME Rsa, NEW c \in Contexts, NEW d, NEW w, Plain(c, w),
         NEW m \in MdAll \ {"MD5"}, RsaMdSet(c, d, m)
  PROVE  Plain(d, w) /\ d.type = m
<1>1. m # "none" /\ m # "MD5"
  BY DEF MdAll
<1>2. c.mgfSet \in BOOLEAN
  BY DEF Contexts
<1>3. CASE c.mgfSet
  BY <1>1, <1>3 DEF Plain, RsaMdSet, NameOf
<1>4. CASE ~c.mgfSet
  <2>1. d.mgf = m /\ d.mgfName = m /\ ~d.mgfSet /\ d.type = m /\ d.name = m /\ d.fed = <<>>
    BY <1>4 DEF RsaMdSet
  <2>2. w.mgf = ""
    BY <1>4 DEF Plain
  <2> QED BY <1>1, <2>1, <2>2 DEF Plain, NameOf
<1> QED BY <1>3, <1>4

(* What is told is the digest of the init, of its parameters, or else that   *)
(* of the context.                                                           *)
MdBegun(c, m, g) == MdGiven(IF m = "" THEN c.name ELSE m, g)
PlainGiven(c, g) ==
  g # <<>> => g[1].what = "md" /\ key.fam # "pss" /\ c.name = ""

LEMMA RsaBegunType ==
  ASSUME Typed, key.fam = "rsa", NEW c \in Contexts, NEW op \in Ops, NEW g \in Givens,
         NEW m \in Md \cup {""}, NEW w, Plain(c, w), c.pad # "x931", PlainGiven(c, g),
         DigestSignVerifyInit(c, m, op, g).ok
  PROVE  LET r == DigestSignVerifyInit(c, m, op, g)
             named == MdBegun(c, m, g)
         IN /\ Plain(r.c, w) /\ r.c.pad = "pkcs1" /\ r.c.salt = c.salt
            /\ r.c.type = IF named = "" THEN "none" ELSE named
<1> DEFINE b == SignVerifyInit(c, op, g)
           r == DigestSignVerifyInit(c, m, op, g)
           c1 == [c EXCEPT !.op = op]
           set == SetAll(c1, g)
           md == IF g = <<>> THEN c.type ELSE g[1].to
<1>0. Rsa /\ ~Held
  BY DEF Rsa, Held
<1>a. Inited(b, r, m, op)
  BY <1>0, DigestInitDoes
<1>1. /\ b.ok /\ b.c \in Contexts
      /\ m \in {"", b.c.name} => r = b
      /\ m \notin {"", b.c.name} =>
           /\ RsaMdSet(b.c, r.c, m) /\ b.c.type \in {"none", m} /\ m # "MD5"
  <2> HIDE DEF b, r
  <2> QED BY <1>a DEF Inited
<1>2. /\ c1 \in Contexts /\ c1.fed = c.fed /\ c1.type = c.type /\ c1.name = c.name
      /\ c1.pad = c.pad /\ c1.salt = c.salt /\ c1.mgf = c.mgf /\ c1.mgfName = c.mgfName
  BY DEF Contexts
<1>3. c1.mgfSet = c.mgfSet
  BY DEF Contexts
<1>4. Plain(c1, w)
  BY <1>2, <1>3 DEF Plain
<1>5. b = IF set.ok THEN RsaPadInit(set.c) ELSE set
  BY <1>0 DEF SignVerifyInit, RsaSignVerifyInit
<1> HIDE DEF c1
<1>6. /\ set.ok /\ set.c \in Contexts /\ Plain(set.c, w) /\ set.c.type = md
      /\ set.c.pad = c.pad /\ set.c.salt = c.salt
  <2>1. set.ok
    BY <1>1, <1>5
  <2>2. CASE g = <<>>
    <3>1. set.c = c1
      BY <2>2 DEF SetAll, Done
    <3> HIDE DEF set
    <3> QED BY <1>2, <1>4, <2>1, <2>2, <3>1
  <2>3. CASE g # <<>>
    <3>1. g[1].what = "md" /\ g[1].to \in MdAll
      BY <2>3, GivensTyped DEF PlainGiven, Settable, Kind
    <3>2. set = RsaSetupMd(c1, g[1].to, c1.op)
      BY <1>0, <2>3, <3>1 DEF SetAll, SetCtxParam, SetupMd
    <3>3. RsaMdSet(c1, set.c, g[1].to) /\ g[1].to # "MD5" /\ set.c \in Contexts
      <4>1. /\ RsaSetupMd(c1, g[1].to, c1.op).ok
            /\ set.c = RsaSetupMd(c1, g[1].to, c1.op).c
        BY <2>1, <3>2
      <4> HIDE DEF set
      <4> QED BY <1>2, <3>1, <4>1, RsaSetupMdDoes
    <3> HIDE DEF set
    <3>4. Plain(set.c, w) /\ set.c.type = g[1].to
      BY <1>0, <1>2, <1>4, <3>1, <3>3, MdSetPlain
    <3> QED BY <1>2, <2>1, <2>3, <3>3, <3>4 DEF RsaMdSet
  <2> QED BY <2>2, <2>3
<1> HIDE DEF set, md
<1>7. /\ Plain(b.c, w) /\ b.c.type = md /\ b.c.pad = "pkcs1" /\ b.c.salt = c.salt
  <2>1. b.c = [set.c EXCEPT !.pad = IF set.c.pad = "x931" THEN set.c.pad ELSE "pkcs1"]
    BY <1>0, <1>5, <1>6, RsaPadInitDoes
  <2>2. b.c = [set.c EXCEPT !.pad = "pkcs1"]
    BY <1>6, <2>1
  <2> HIDE DEF b
  <2>3. /\ b.c.fed = set.c.fed /\ b.c.type = set.c.type /\ b.c.name = set.c.name
        /\ b.c.pad = "pkcs1" /\ b.c.salt = set.c.salt /\ b.c.mgf = set.c.mgf
        /\ b.c.mgfName = set.c.mgfName
    BY <1>6, <2>2 DEF Contexts
  <2>4. b.c.mgfSet = set.c.mgfSet
    BY <1>6, <2>2 DEF Contexts
  <2> QED BY <1>6, <2>3, <2>4 DEF Plain
<1>8. b.c.name = NameOf(md) /\ c.name = NameOf(c.type)
  BY <1>7 DEF Plain
<1>9. CASE m \in {"", b.c.name}
  <2>1. r = b
    BY <1>1, <1>9
  <2>2. md = IF MdBegun(c, m, g) = "" THEN "none" ELSE MdBegun(c, m, g)
    <3>1. CASE g = <<>>
      <4>1. md = c.type /\ c.type # ""
        BY <3>1 DEF md, Contexts, MdAll
      <4>2. MdBegun(c, m, g) = c.name
        BY <1>8, <1>9, <3>1, <4>1 DEF MdBegun, MdGiven
      <4> QED BY <1>8, <4>1, <4>2 DEF NameOf
    <3>2. CASE g # <<>>
      <4>1. g[1].what = "md" /\ g[1].to \in MdAll /\ c.name = ""
        BY <3>2, GivensTyped DEF PlainGiven, Settable, Kind
      <4>2. g[1].to # "" /\ g[1].to # "none"
        BY <4>1 DEF MdAll
      <4> QED BY <1>8, <1>9, <3>2, <4>1, <4>2 DEF md, MdBegun, MdGiven, NameOf
    <3> QED BY <3>1, <3>2
  <2> HIDE DEF b, r
  <2> QED BY <1>7, <2>1, <2>2 DEF r
<1>10. CASE m \notin {"", b.c.name}
  <2>1. m \in MdAll \ {"MD5"}
    BY <1>1, <1>10, ConstantsTyped
  <2>2. RsaMdSet(b.c, r.c, m)
    BY <1>1, <1>10
  <2>3. MdBegun(c, m, g) = m
    BY <1>10 DEF MdBegun, MdGiven
  <2> HIDE DEF b, r
  <2>4. Plain(r.c, w) /\ r.c.type = m
    BY <1>0, <1>1, <1>7, <2>1, <2>2, MdSetPlain
  <2> QED BY <1>7, <1>10, <2>2, <2>3, <2>4 DEF RsaMdSet, r
<1> QED BY <1>9, <1>10

SameWish(v, w, md) ==
  /\ v.md = md /\ v.pad = "unset" /\ v.mgf = w.mgf /\ v.salt = w.salt /\ v.data = w.data
SaltBegun(c, w) ==
  /\ key.fam = "rsa" => SaltAsTold(c, w)
  /\ key.fam = "pss" => w.salt = {}

LEMMA PadOfIs ==
  ASSUME Rsa, NEW v
  PROVE  /\ v.pad # "unset" => PadOf(v) = v.pad
         /\ v.pad = "unset" => PadOf(v) = IF key.fam = "rsa" THEN "pkcs1" ELSE "pss"
BY DEF PadOf

(* Without restrictions that came with the key. *)
LEMMA PlainMgf ==
  ASSUME Rsa, NEW c \in Contexts, NEW w, NEW v, Plain(c, w), v.mgf = w.mgf, ~Held
  PROVE  MgfAsTold(c, v)
<1>1. c.mgfSet \in BOOLEAN
  BY DEF Contexts
<1>2. c.mgfSet <=> v.mgf # ""
  BY <1>1 DEF Plain
<1>3. c.mgf = IF v.mgf # "" THEN v.mgf ELSE c.type
  BY <1>2 DEF Plain
<1> QED BY <1>2, <1>3 DEF Plain, MgfAsTold

LEMMA RsaBegunAsTold ==
  ASSUME Typed, key.fam = "rsa", NEW c \in Contexts, NEW op \in Ops, NEW g \in Givens,
         NEW m \in Md \cup {""}, NEW w, Plain(c, w), c.pad # "x931", PlainGiven(c, g),
         SaltBegun(c, w), NEW v, SameWish(v, w, MdBegun(c, m, g)),
         DigestSignVerifyInit(c, m, op, g).ok
  PROVE  LET r == DigestSignVerifyInit(c, m, op, g) IN AsTold(r.c, v) /\ r.c.fed = <<>>
<1> DEFINE r == DigestSignVerifyInit(c, m, op, g)
           named == MdBegun(c, m, g)
<1>1. Rsa /\ ~Held /\ key.fam # "ecx"
  BY DEF Rsa, Held
<1>2. /\ Plain(r.c, w) /\ r.c.pad = "pkcs1" /\ r.c.salt = c.salt
      /\ r.c.type = IF named = "" THEN "none" ELSE named
  BY RsaBegunType
<1>3. r.c \in Contexts
  BY DigestSignVerifyInitBegins
<1> HIDE DEF r, named
<1>4. v.md = named /\ v.pad = "unset" /\ v.mgf = w.mgf /\ v.salt = w.salt
  BY DEF SameWish, named
<1>5. MgfAsTold(r.c, v)
  BY <1>1, <1>2, <1>3, <1>4, PlainMgf
<1>6. PadAsTold(r.c, v)
  BY <1>1, <1>2, <1>4, PadOfIs DEF PadAsTold
<1>7. SaltAsTold(r.c, v)
  BY <1>2, <1>4 DEF SaltBegun, SaltAsTold
<1>8. r.c.type = MdTold(v) /\ r.c.type # "MD5" /\ r.c.name = NameOf(r.c.type)
  BY <1>1, <1>2, <1>4 DEF MdTold, Plain
<1> QED BY <1>1, <1>2, <1>5, <1>6, <1>7, <1>8 DEF AsTold, Plain, r

LEMMA PssBegunAsTold ==
  ASSUME Typed, key.fam = "pss", NEW c \in Contexts, NEW op \in Ops,
         NEW m \in Md \cup {""}, NEW w, Plain(c, w), SaltBegun(c, w),
         NEW v, SameWish(v, w, MdBegun(c, m, <<>>)),
         DigestSignVerifyInit(c, m, op, <<>>).ok
  PROVE  LET r == DigestSignVerifyInit(c, m, op, <<>>) IN AsTold(r.c, v) /\ r.c.fed = <<>>
<1> DEFINE b == SignVerifyInit(c, op, <<>>)
           r == DigestSignVerifyInit(c, m, op, <<>>)
           named == IF m = "" THEN c.name ELSE m
<1>1. Rsa /\ key.fam # "ecx" /\ key.fam # "rsa" /\ <<>> \in Givens /\ w.salt = {}
  BY DEF Rsa, Givens, SaltBegun
<1>2. v.md = named /\ v.pad = "unset" /\ v.mgf = w.mgf /\ v.salt = {}
  BY <1>1 DEF SameWish, MdBegun, MdGiven
<1>a. Inited(b, r, m, op)
  BY <1>1, DigestInitDoes
<1>3. /\ b.ok /\ b.c \in Contexts
      /\ m \in {"", b.c.name} => r = b
      /\ m \notin {"", b.c.name} =>
           /\ RsaMdSet(b.c, r.c, m) /\ b.c.type \in {"none", m} /\ m # "MD5"
  <2> HIDE DEF b, r
  <2> QED BY <1>a DEF Inited
<1>4. PssBegun(c, b.c, op)
  BY <1>3, PssSignVerifyInitDoes
<1>5. r.c \in Contexts
  BY <1>1, DigestSignVerifyInitBegins
<1>6. key.salt \in Nat /\ Default(key.md) \notin {"", "none", "MD5"}
      /\ Default(key.mgf) \notin {"", "none", "MD5"}
  BY KeyTyped DEF Default, PssMd
<1>7. c.type # "" /\ c.name = NameOf(c.type)
  BY DEF Contexts, MdAll, Plain
<1> HIDE DEF b, r
<1>8. CASE key.set
  <2>1. /\ b.c.fed = <<>> /\ b.c.type = Default(key.md) /\ b.c.name = Default(key.md)
        /\ c.type \in {"none", Default(key.md)}
        /\ c.mgfSet => c.mgf = Default(key.mgf)
        /\ b.c.mgfSet /\ b.c.mgf = Default(key.mgf) /\ b.c.mgfName = Default(key.mgf)
        /\ b.c.salt = AutoDigestMax /\ b.c.pad = "pss"
    BY <1>4, <1>8 DEF PssBegun
  <2>2. m \in {"", Default(key.md)} /\ r = b
    BY <1>3, <1>6, <2>1
  <2>3. named \in {"", Default(key.md)} /\ Held
    BY <1>7, <1>8, <2>1, <2>2 DEF NameOf, Held
  <2>4. v.mgf \in {"", Default(key.mgf)}
    BY <1>1, <1>2, <2>1 DEF Plain
  <2>5. MgfAsTold(b.c, v)
    BY <1>6, <2>1, <2>3, <2>4 DEF MgfAsTold, NameOf
  <2>6. PadAsTold(b.c, v)
    BY <1>1, <1>2, <2>1, PadOfIs DEF PadAsTold
  <2>7. SaltAsTold(b.c, v)
    BY <1>2, <2>1 DEF SaltAsTold
  <2>8. b.c.type = MdTold(v) /\ b.c.type # "MD5" /\ b.c.name = NameOf(b.c.type)
    <3> HIDE DEF named
    <3> QED BY <1>2, <1>6, <2>1, <2>3 DEF MdTold, NameOf
  <2> QED BY <1>1, <2>1, <2>2, <2>5, <2>6, <2>7, <2>8 DEF AsTold, r
<1>9. CASE ~key.set
  <2>1. /\ b.c.fed = c.fed /\ b.c.type = c.type /\ b.c.name = c.name
        /\ b.c.mgfSet = c.mgfSet /\ b.c.mgf = c.mgf /\ b.c.mgfName = c.mgfName
        /\ b.c.salt = PssSalt /\ b.c.pad = "pss"
    BY <1>4, <1>9 DEF PssBegun
  <2>2. Plain(b.c, w) /\ ~Held
    BY <1>9, <2>1 DEF Plain, Held
  <2>3. /\ Plain(r.c, w) /\ r.c.pad = "pss" /\ r.c.salt = PssSalt
        /\ r.c.type = IF named = "" THEN "none" ELSE named
    <3>1. CASE m \in {"", c.name}
      <4>1. r = b /\ named = c.name
        BY <1>3, <2>1, <3>1
      <4> HIDE DEF named
      <4> QED BY <1>7, <2>1, <2>2, <4>1 DEF NameOf
    <3>2. CASE m \notin {"", c.name}
      <4>1. named = m /\ m \in MdAll \ {"MD5"} /\ RsaMdSet(b.c, r.c, m)
        BY <1>3, <2>1, <3>2, ConstantsTyped
      <4> HIDE DEF named
      <4>2. Plain(r.c, w) /\ r.c.type = m
        BY <1>1, <1>3, <2>2, <4>1, MdSetPlain
      <4> QED BY <2>1, <3>2, <4>1, <4>2 DEF RsaMdSet
    <3> QED BY <3>1, <3>2
  <2> HIDE DEF named
  <2>4. MgfAsTold(r.c, v)
    BY <1>1, <1>2, <1>5, <2>2, <2>3, PlainMgf
  <2>5. PadAsTold(r.c, v)
    BY <1>1, <1>2, <2>3, PadOfIs DEF PadAsTold
  <2>6. SaltAsTold(r.c, v)
    BY <1>2, <1>6, <2>3 DEF SaltAsTold, PssSalt
  <2>7. r.c.type = MdTold(v) /\ r.c.type # "MD5" /\ r.c.name = NameOf(r.c.type)
    BY <1>2, <2>2, <2>3 DEF MdTold, Plain
  <2> QED BY <1>1, <2>3, <2>4, <2>5, <2>6, <2>7 DEF AsTold, Plain, r
<1> QED BY <1>8, <1>9, KeyTyped

LEMMA EcdsaBegunAsTold ==
  ASSUME Typed, key.fam = "ecdsa", NEW c \in Contexts, NEW op \in Ops, NEW g \in Givens,
         NEW m \in Md \cup {""}, NEW w, Plain(c, w), PlainGiven(c, g),
         NEW v, SameWish(v, w, MdBegun(c, m, g)),
         DigestSignVerifyInit(c, m, op, g).ok
  PROVE  LET r == DigestSignVerifyInit(c, m, op, g) IN AsTold(r.c, v) /\ r.c.fed = <<>>
<1> DEFINE c1 == [c EXCEPT !.op = op]
           b == SetAll(c1, g)
           r == DigestSignVerifyInit(c, m, op, g)
           md == IF g = <<>> THEN c.type ELSE g[1].to
<1>1. ~Rsa /\ key.fam # "ecx" /\ ~Held
  BY DEF Rsa, Held
<1>2. c1 \in Contexts /\ c1.fed = <<>> /\ c1.type = c.type /\ c1.name = c.name
  BY DEF Contexts, Plain
<1>3. r = IF b.ok /\ m \notin {"", b.c.name} THEN EcdsaSetupMd(b.c, m, op) ELSE b
  BY <1>1 DEF DigestSignVerifyInit, EcdsaDigestSignVerifyInit, EcdsaSignVerifyInit
<1> HIDE DEF c1
<1>4. b.ok
  BY <1>3
<1>5. c.type \notin {"", "MD5"} /\ c.name = NameOf(c.type)
  BY DEF Contexts, MdAll, Plain
<1>6. g # <<>> => /\ g[1].what = "md" /\ g[1].to \in MdAll /\ g[1].to \notin {"", "none"}
                  /\ c.name = ""
  BY GivensTyped DEF PlainGiven, Settable, Kind, MdAll
<1>7. /\ b.c \in Contexts /\ b.c.fed = <<>> /\ b.c.type = md /\ b.c.name = NameOf(md)
      /\ md # "MD5"
  <2>1. CASE g = <<>>
    <3>1. b.c = c1 /\ md = c.type
      BY <2>1 DEF SetAll, Done
    <3> HIDE DEF b, md
    <3> QED BY <1>2, <1>5, <3>1
  <2>2. CASE g # <<>>
    <3>1. b = EcdsaSetupMd(c1, g[1].to, c1.op) /\ md = g[1].to
      BY <1>1, <1>6, <2>2 DEF SetAll, SetCtxParam, SetupMd
    <3> HIDE DEF b, md
    <3>2. /\ b.c = [c1 EXCEPT !.type = md, !.fed = <<>>, !.name = md]
          /\ md # "MD5" /\ b.c \in Contexts
      BY <1>2, <1>4, <1>6, <2>2, <3>1, EcdsaSetupMdDoes
    <3>3. b.c.type = md /\ b.c.fed = <<>> /\ b.c.name = md
      BY <1>2, <3>2 DEF Contexts
    <3> QED BY <1>6, <2>2, <3>1, <3>2, <3>3 DEF NameOf
  <2> QED BY <2>1, <2>2
<1>8. v.md = MdBegun(c, m, g)
  BY DEF SameWish
<1>9. CASE m \in {"", b.c.name}
  <2>1. r = b
    BY <1>3, <1>9
  <2>2. md = IF v.md = "" THEN "none" ELSE v.md
    <3>1. CASE g = <<>>
      <4>1. md = c.type /\ v.md = c.name
        BY <1>5, <1>7, <1>8, <1>9, <3>1 DEF MdBegun, MdGiven, md
      <4> QED BY <1>5, <4>1 DEF NameOf
    <3>2. CASE g # <<>>
      <4>1. md = g[1].to /\ v.md = md
        BY <1>6, <1>7, <1>8, <1>9, <3>2 DEF MdBegun, MdGiven, md, NameOf
      <4> QED BY <1>6, <3>2, <4>1
    <3> QED BY <3>1, <3>2
  <2> HIDE DEF b, md, r
  <2> QED BY <1>1, <1>7, <2>1, <2>2 DEF AsTold, MdTold, r
<1>10. CASE m \notin {"", b.c.name}
  <2>1. r = EcdsaSetupMd(b.c, m, op) /\ m \in MdAll /\ m \notin {"", "none"}
    BY <1>3, <1>4, <1>10, ConstantsTyped DEF MdAll
  <2>2. v.md = m
    BY <1>8, <1>10 DEF MdBegun, MdGiven
  <2>3. r.ok
    OBVIOUS
  <2> HIDE DEF b, md, r
  <2>4. r.c = [b.c EXCEPT !.type = m, !.fed = <<>>, !.name = m] /\ m # "MD5"
    BY <1>7, <2>1, <2>3, EcdsaSetupMdDoes
  <2>5. r.c.type = m /\ r.c.fed = <<>> /\ r.c.name = m
    BY <1>7, <2>4 DEF Contexts
  <2> QED BY <1>1, <2>1, <2>2, <2>4, <2>5 DEF AsTold, MdTold, NameOf, r
<1> QED BY <1>9, <1>10

LEMMA BegunAsTold ==
  ASSUME Typed, key.fam # "ecx", NEW c \in Contexts, NEW op \in Ops, NEW g \in Givens,
         NEW m \in Md \cup {""}, NEW w, Plain(c, w), Rsa => c.pad # "x931", PlainGiven(c, g),
         SaltBegun(c, w), NEW v, SameWish(v, w, MdBegun(c, m, g)),
         DigestSignVerifyInit(c, m, op, g).ok
  PROVE  LET r == DigestSignVerifyInit(c, m, op, g) IN AsTold(r.c, v) /\ r.c.fed = <<>>
<1>1. CASE key.fam = "rsa"
  BY <1>1, RsaBegunAsTold DEF Rsa
<1>2. CASE key.fam = "pss"
  <2>1. g = <<>>
    BY <1>2 DEF PlainGiven
  <2> QED BY <1>2, <2>1, PssBegunAsTold
<1>3. CASE key.fam = "ecdsa"
  BY <1>3, EcdsaBegunAsTold
<1> QED BY <1>1, <1>2, <1>3, KeyTyped DEF Family

LEMMA FreshPlain == Plain(NewCtx, Nothing) /\ SaltBegun(NewCtx, Nothing)
<1>1. Plain(NewCtx, Nothing)
  BY Fresh DEF Plain, NameOf
<1>2. SaltAsTold(NewCtx, Nothing)
  <2>1. Nothing.salt = {} /\ NewCtx.salt \in Nat
    BY DEF NewCtx, Nothing
  <2> QED BY <2>1 DEF SaltAsTold
<1>3. Nothing.salt = {}
  BY Fresh
<1> QED BY <1>1, <1>2, <1>3 DEF SaltBegun

LEMMA NothingInitDoes == \A m, op, g :
  SignVerifyInit(NewCtx, op, g) = DigestSignVerifyInit(NewCtx, "", op, g)
BY DEF SignVerifyInit, DigestSignVerifyInit, RsaDigestSignVerifyInit,
       EcdsaDigestSignVerifyInit

(* What is said of a context does not change with its message. *)
LEMMA AsToldSame ==
  ASSUME NEW c, NEW w, AsTold(c, w), NEW d, NEW v,
         d.type = c.type, d.name = c.name,
         Rsa => /\ d.mgf = c.mgf /\ d.mgfSet = c.mgfSet /\ d.mgfName = c.mgfName
                /\ d.pad = c.pad /\ d.salt = c.salt,
         v.md = w.md, v.mgf = w.mgf, v.pad = w.pad, v.salt = w.salt,
         key.fam = "ecx" => d.fed = <<>> /\ v.data = <<>> /\ v.way = w.way
  PROVE  AsTold(d, v)
<1>1. MdTold(v) = MdTold(w)
  BY DEF MdTold
<1>2. CASE Rsa
  <2>1. PadOf(v) = PadOf(w)
    BY <1>2, PadOfIs
  <2>2. MgfAsTold(d, v)
    BY <1>2 DEF AsTold, MgfAsTold
  <2>3. PadAsTold(d, v)
    BY <1>2, <2>1 DEF AsTold, PadAsTold
  <2>4. SaltAsTold(d, v)
    BY <1>2 DEF AsTold, SaltAsTold
  <2> QED BY <1>1, <1>2, <2>2, <2>3, <2>4 DEF AsTold
<1>3. CASE ~Rsa
  BY <1>1, <1>3 DEF AsTold
<1> QED BY <1>2, <1>3

LEMMA AsToldNext ==
  ASSUME key' = key, AsTold(ctx', told')
  PROVE  AsTold(ctx, told)'
<1>1. Rsa' = Rsa /\ Held' = Held
  BY DEF Rsa, Held
<1> QED BY <1>1 DEF AsTold, MgfAsTold, PadAsTold, SaltAsTold, MdTold, PadOf, Rsa, Held

LEMMA SetAsTold ==
  ASSUME NEW c \in Contexts, NEW w, AsTold(c, w), key.fam # "ecx",
         NEW s, Settable(s), SetCtxParam(c, s).ok,
         key.fam = "ecdsa" => s.what = "md",
         ~(key.fam = "pss" /\ s.what = "pad" /\ s.to = "none"),
         NEW v, v.data = w.data,
         v.md = (IF s.what = "md" THEN s.to ELSE w.md),
         v.pad = (IF s.what = "pad" THEN s.to ELSE w.pad),
         v.mgf = (IF s.what = "mgf" THEN s.to ELSE w.mgf),
         v.salt = (IF s.what = "salt" THEN {s.to} ELSE w.salt),
         key.fam \in Family
  PROVE  /\ AsTold(SetCtxParam(c, s).c, v)
         /\ c.fed = <<>> => SetCtxParam(c, s).c.fed = <<>>
<1> DEFINE r == SetCtxParam(c, s)
           d == r.c
<1>1. CASE s.what = "md"
  <2>1. s.to \in MdAll /\ s.to \notin {"", "none"}
    BY <1>1 DEF Settable, Kind, MdAll
  <2>2. v.md = s.to /\ v.pad = w.pad /\ v.mgf = w.mgf /\ v.salt = w.salt
    BY <1>1
  <2>3. CASE Rsa
    <3>1. r = RsaSetupMd(c, s.to, c.op)
      BY <1>1, <2>3 DEF SetCtxParam, SetupMd
    <3>2. RsaMdSet(c, d, s.to) /\ s.to # "MD5" /\ c.pad # "none"
      <4>1. RsaSetupMd(c, s.to, c.op).ok /\ d = RsaSetupMd(c, s.to, c.op).c
        BY <3>1
      <4> HIDE DEF d
      <4> QED BY <2>1, <4>1, RsaSetupMdDoes
    <3> HIDE DEF d
    <3>3. PadAsTold(d, v)
      BY <2>2, <2>3, <3>2, PadOfIs DEF AsTold, PadAsTold, RsaMdSet
    <3>4. SaltAsTold(d, v)
      BY <2>2, <2>3, <3>2 DEF AsTold, SaltAsTold, RsaMdSet
    <3>5. MgfAsTold(d, v)
      <4>1. c.mgfSet \in BOOLEAN
        BY DEF Contexts
      <4>2. CASE c.mgfSet
        BY <2>2, <2>3, <3>2, <4>2 DEF AsTold, MgfAsTold, RsaMdSet
      <4>3. CASE ~c.mgfSet
        <5>1. w.mgf = "" /\ ~Held /\ ~d.mgfSet /\ d.mgf = s.to /\ d.mgfName = s.to
              /\ d.type = s.to
          BY <2>3, <3>2, <4>3 DEF AsTold, MgfAsTold, RsaMdSet
        <5> QED BY <2>1, <2>2, <3>2, <5>1 DEF MgfAsTold, NameOf
      <4> QED BY <4>2, <4>3
    <3>6. d.type = MdTold(v) /\ d.type # "MD5" /\ d.name = NameOf(d.type) /\ d.fed = <<>>
      BY <2>1, <2>2, <3>2 DEF MdTold, NameOf, RsaMdSet
    <3> QED BY <2>3, <3>3, <3>4, <3>5, <3>6 DEF AsTold, d
  <2>4. CASE ~Rsa
    <3>1. r = EcdsaSetupMd(c, s.to, c.op)
      BY <1>1, <2>4 DEF SetCtxParam, SetupMd
    <3>2. d = [c EXCEPT !.type = s.to, !.fed = <<>>, !.name = s.to] /\ s.to # "MD5"
      <4>1. EcdsaSetupMd(c, s.to, c.op).ok /\ d = EcdsaSetupMd(c, s.to, c.op).c
        BY <3>1
      <4> HIDE DEF d
      <4> QED BY <2>1, <4>1, EcdsaSetupMdDoes
    <3> HIDE DEF d
    <3>3. d.type = s.to /\ d.fed = <<>> /\ d.name = s.to
      BY <3>2 DEF Contexts
    <3>4. d.type = MdTold(v) /\ d.name = NameOf(d.type)
      BY <2>1, <2>2, <3>3 DEF MdTold, NameOf
    <3> QED BY <2>4, <3>2, <3>3, <3>4 DEF AsTold, d
  <2> QED BY <2>3, <2>4
<1>2. CASE s.what = "mgf"
  <2>1. s.to \in MdAll \ {"MD5"} /\ s.to \notin {"", "none"} /\ Rsa
    BY <1>2 DEF Settable, Kind, MdAll, Rsa, Family
  <2>2. v.md = w.md /\ v.pad = w.pad /\ v.mgf = s.to /\ v.salt = w.salt
    BY <1>2
  <2>3. r = IF c.pad = "pss" THEN SetupMgf1(c, s.to) ELSE Refused(c)
    BY <1>2 DEF SetCtxParam, SetMgf1Digest
  <2>4. d = [c EXCEPT !.mgfName = s.to, !.mgf = s.to, !.mgfSet = TRUE]
        /\ ~(c.mgfSet /\ c.mgf # s.to)
    <3>1. c.pad = "pss"
      BY <2>3 DEF Refused
    <3>2. SetupMgf1(c, s.to).ok /\ d = SetupMgf1(c, s.to).c
      BY <2>3, <3>1
    <3> HIDE DEF d
    <3> QED BY <2>1, <3>2, SetupMgf1Does
  <2> HIDE DEF d
  <2>5. /\ d.type = c.type /\ d.name = c.name /\ d.fed = c.fed /\ d.pad = c.pad
        /\ d.salt = c.salt /\ d.mgf = s.to /\ d.mgfName = s.to
    BY <2>4 DEF Contexts
  <2>6. d.mgfSet
    BY <2>4 DEF Contexts
  <2>7. MgfAsTold(d, v)
    BY <2>1, <2>2, <2>5, <2>6 DEF MgfAsTold, NameOf
  <2>8. PadAsTold(d, v)
    <3>1. PadOf(v) = PadOf(w)
      BY <2>1, <2>2, PadOfIs
    <3>2. PadAsTold(c, w)
      BY <2>1 DEF AsTold
    <3> QED BY <2>5, <3>1, <3>2 DEF PadAsTold
  <2>9. SaltAsTold(d, v)
    BY <2>1, <2>2, <2>5 DEF AsTold, SaltAsTold
  <2>10. MdTold(v) = MdTold(w)
    BY <2>2 DEF MdTold
  <2> QED BY <2>1, <2>5, <2>7, <2>8, <2>9, <2>10 DEF AsTold, d
<1>3. CASE s.what = "pad"
  <2>1. s.to \in Pads \ {"unset"} /\ Rsa
    BY <1>3 DEF Settable, Kind, Rsa, Family
  <2>2. v.md = w.md /\ v.pad = s.to /\ v.mgf = w.mgf /\ v.salt = w.salt
    BY <1>3
  <2>3. r = SetPadMode(c, s.to)
    BY <1>3 DEF SetCtxParam
  <2>4. /\ d = [c EXCEPT !.pad = s.to]
        /\ s.to \in {"pkcs1", "x931"} => key.fam = "rsa"
        /\ s.to = "none" => c.type = "none"
    BY <2>1, <2>3, SetPadModeDoes
  <2> HIDE DEF d
  <2>5. /\ d.type = c.type /\ d.name = c.name /\ d.fed = c.fed /\ d.pad = s.to
        /\ d.salt = c.salt /\ d.mgf = c.mgf /\ d.mgfName = c.mgfName
    BY <2>1, <2>4 DEF Contexts
  <2>6. d.mgfSet = c.mgfSet
    BY <2>4 DEF Contexts
  <2>7. MgfAsTold(d, v)
    BY <2>1, <2>2, <2>5, <2>6 DEF AsTold, MgfAsTold
  <2>8. PadOf(v) = s.to
    BY <2>1, <2>2, PadOfIs
  <2>9. s.to \in {"pkcs1", "pss", "none", "x931"} /\ (key.fam = "pss" => s.to = "pss")
    BY <1>3, <2>1, <2>4 DEF Pads
  <2>10. PadAsTold(d, v)
    BY <2>4, <2>5, <2>8, <2>9 DEF PadAsTold
  <2>11. SaltAsTold(d, v)
    BY <2>1, <2>2, <2>5 DEF AsTold, SaltAsTold
  <2>12. MdTold(v) = MdTold(w)
    BY <2>2 DEF MdTold
  <2> QED BY <2>1, <2>5, <2>7, <2>10, <2>11, <2>12 DEF AsTold, d
<1>4. CASE s.what = "salt"
  <2>1. s.to \in Int /\ s.to \in {DigestSalt, AutoSalt, LongSalt, 20} /\ Rsa
    BY <1>4 DEF Settable, Kind, DigestSalt, AutoSalt, LongSalt, Rsa, Family
  <2>2. v.md = w.md /\ v.pad = w.pad /\ v.mgf = w.mgf /\ v.salt = {s.to}
    BY <1>4
  <2>3. r = SetSaltLen(c, s.to)
    BY <1>4 DEF SetCtxParam
  <2>4. d = [c EXCEPT !.salt = s.to]
    BY <2>1, <2>3, SetSaltLenDoes
  <2> HIDE DEF d
  <2>5. /\ d.type = c.type /\ d.name = c.name /\ d.fed = c.fed /\ d.pad = c.pad
        /\ d.salt = s.to /\ d.mgf = c.mgf /\ d.mgfName = c.mgfName
    BY <2>1, <2>4 DEF Contexts
  <2>6. d.mgfSet = c.mgfSet
    BY <2>4 DEF Contexts
  <2>7. MgfAsTold(d, v)
    BY <2>1, <2>2, <2>5, <2>6 DEF AsTold, MgfAsTold
  <2>8. PadAsTold(d, v)
    <3>1. PadOf(v) = PadOf(w)
      BY <2>1, <2>2, PadOfIs
    <3>2. PadAsTold(c, w)
      BY <2>1 DEF AsTold
    <3> QED BY <2>5, <3>1, <3>2 DEF PadAsTold
  <2>9. SaltAsTold(d, v)
    BY <2>1, <2>2, <2>5 DEF SaltAsTold
  <2>10. MdTold(v) = MdTold(w)
    BY <2>2 DEF MdTold
  <2> QED BY <2>1, <2>5, <2>7, <2>8, <2>9, <2>10 DEF AsTold, d
<1> QED BY <1>1, <1>2, <1>3, <1>4 DEF Settable

------------------------------------------------------------------------------
(* What was asked for, in terms of what a program has told.                  *)
LEMMA MdOfIs ==
  ASSUME Typed, NEW w \in Wishes
  PROVE  /\ MdTold(w) # "none" => MdOf(w) = MdTold(w)
         /\ MdTold(w) = "none" =>
              /\ ~Held
              /\ MdOf(w) = IF key.fam = "pss" /\ w.op = "verify" /\ key.md = "SHA256"
                           THEN "SHA256" ELSE "none"
<1>1. w.md \in MdAll \cup {""} /\ "none" \notin MdAll /\ key.set \in BOOLEAN
      /\ Default(key.md) # "none"
  BY KeyTyped DEF Wishes, MdAll, Default, PssMd
<1>2. CASE w.md # ""
  <2>1. MdOf(w) = w.md
    BY <1>2 DEF MdOf
  <2> QED BY <1>1, <1>2, <2>1 DEF MdTold
<1>3. CASE w.md = "" /\ Held
  <2>1. MdOf(w) = Default(key.md)
    BY <1>3 DEF MdOf, Held, Default
  <2> QED BY <1>1, <1>3, <2>1 DEF MdTold
<1>4. CASE w.md = "" /\ ~Held
  <2>1. MdTold(w) = "none"
    BY <1>4 DEF MdTold
  <2>2. CASE key.fam = "pss"
    <3>1. ~key.set
      BY <1>4, <2>2 DEF Held
    <3> QED BY <1>4, <2>1, <2>2, <3>1 DEF MdOf
  <2>3. CASE key.fam # "pss"
    BY <1>4, <2>1, <2>3 DEF MdOf
  <2> QED BY <2>2, <2>3
<1> QED BY <1>2, <1>3, <1>4

LEMMA MgfOfIs ==
  ASSUME NEW w
  PROVE  MgfOf(w) = IF w.mgf # "" THEN w.mgf ELSE IF Held THEN Default(key.mgf) ELSE MdOf(w)
BY DEF MgfOf, Held, Default

LEMMA LenOfIs ==
  ASSUME NEW t \in ToBeSigned, t.md # "none", NEW m \in MdAll
  PROVE  LenOf(t) = HLen(m) <=> t.md = m
<1>1. t.md \in MdAll \/ t.md = "raw"
  BY DEF ToBeSigned
<1>2. HLen("SHA256") = 32 /\ HLen("SHA512") = 64 /\ HLen("SHA-1") = 20 /\ HLen("MD5") = 16
      /\ KeyLen \in Nat /\ KeyLen >= 66
  BY Lengths, ConstantsTyped
<1>3. CASE t.md = "raw"
  BY <1>2, <1>3 DEF LenOf, MdAll
<1>4. CASE t.md \in MdAll
  BY <1>2, <1>4 DEF LenOf, MdAll
<1> QED BY <1>1, <1>3, <1>4

LEMMA SaltKnown ==
  ASSUME NEW c \in Contexts, NEW w, SaltAsTold(c, w)
  PROVE  /\ c.salt = AutoDigestMax \/ c.salt = LongSalt \/ c.salt = AutoSalt
            \/ c.salt = DigestSalt \/ c.salt \in Nat
         /\ c.salt \in {DigestSalt, AutoDigestMax} => SaltUsed(c) = HLen(c.type)
         /\ c.salt \in {LongSalt, AutoSalt} => SaltUsed(c) = MaxSalt(c.type)
         /\ c.salt \in Nat => SaltUsed(c) = c.salt /\ SaltToWc(c, c.salt) = c.salt
         /\ SaltUsed(c) \in Nat
<1>1. c.salt = AutoDigestMax \/ c.salt = LongSalt \/ c.salt = AutoSalt
      \/ c.salt = DigestSalt \/ c.salt \in Nat
  BY DEF SaltAsTold
<1>2. HLen(c.type) \in Nat /\ MaxSalt(c.type) \in Nat
  BY Lengths
<1>3. c.salt \in {DigestSalt, AutoDigestMax} => SaltUsed(c) = HLen(c.type)
  <2>1. c.salt \in {DigestSalt, AutoDigestMax} => SaltToWc(c, c.salt) = HLen(c.type)
    BY SpecialsTyped DEF SaltToWc
  <2> QED BY <1>2, <2>1 DEF SaltUsed, Discover
<1>4. c.salt \in {LongSalt, AutoSalt} => SaltUsed(c) = MaxSalt(c.type)
  <2>1. c.salt = LongSalt => SaltToWc(c, c.salt) = MaxSalt(c.type)
    BY SpecialsTyped DEF SaltToWc
  <2>2. c.salt = AutoSalt => SaltToWc(c, c.salt) = Discover
    BY SpecialsTyped DEF SaltToWc
  <2> QED BY <1>2, <2>1, <2>2 DEF SaltUsed, Discover
<1>5. c.salt \in Nat => SaltUsed(c) = c.salt /\ SaltToWc(c, c.salt) = c.salt
  <2>1. c.salt \in Nat => SaltToWc(c, c.salt) = c.salt
    BY SpecialsTyped DEF SaltToWc
  <2> QED BY <2>1 DEF SaltUsed, Discover
<1> QED BY <1>1, <1>2, <1>3, <1>4, <1>5

LEMMA SignedAskedFor ==
  ASSUME Typed, NEW c \in Contexts, NEW w \in Wishes, AsTold(c, w), w.op # "verify",
         NEW t \in ToBeSigned, t.md # "none", NEW s, SignedOf(c, t, s)
  PROVE  AskedFor(w, s, t)
<1>1. s.tbs = t
  BY DEF SignedOf
<1>2. key.fam # "ecx" => MdOf(w) = c.type /\ c.type \in MdAll \cup {"none"}
  BY MdOfIs DEF AsTold, Contexts
<1>3. s.pad = PadOf(w)
  <2>1. CASE Rsa
    BY <2>1 DEF SignedOf, AsTold, PadAsTold
  <2>2. CASE ~Rsa
    BY <2>2 DEF SignedOf, PadOf
  <2> QED BY <2>1, <2>2
<1>4. s.pad \in {"pkcs1", "pss", "x931"} => Rsa
  BY KeyTyped DEF SignedOf, Rsa, Family
<1>5. s.pad \in {"pkcs1", "pss", "x931"} => s.info = MdOf(w)
  BY <1>2, <1>4 DEF SignedOf, Rsa
<1>6. s.pad = "ecdsa" => MdOf(w) \in {"none", t.md}
  <2> HAVE s.pad = "ecdsa"
  <2>1. key.fam # "ecx"
    BY KeyTyped DEF SignedOf, Rsa, Contexts, AsTold, PadAsTold
  <2>2. CASE c.type = "none"
    BY <1>2, <2>1, <2>2
  <2>3. CASE c.type # "none"
    <3>1. LenOf(t) = HLen(c.type) /\ c.type \in MdAll
      BY <1>2, <2>1, <2>3 DEF SignedOf, EcdsaTakes
    <3> QED BY <1>2, <2>1, <3>1, LenOfIs
  <2> QED BY <2>2, <2>3
<1>7. s.pad = "pss" => s.mgf = MgfOf(w)
  BY <1>2, <1>4, MgfOfIs DEF SignedOf, AsTold, MgfAsTold, Rsa
<1>8. s.pad = "pss" => SaltOf(w, s.salt)
  <2> HAVE s.pad = "pss"
  <2>1. /\ c.type = MdOf(w) /\ s.salt = SaltUsed(c) /\ SaltAsTold(c, w)
    BY <1>2, <1>4 DEF SignedOf, AsTold, Rsa
  <2>2. ASSUME NEW asked \in w.salt
        PROVE  \/ asked = AutoSalt
               \/ asked = DigestSalt /\ s.salt = HLen(MdOf(w))
               \/ asked = LongSalt /\ s.salt = MaxSalt(MdOf(w))
               \/ asked = s.salt
    <3>1. asked = c.salt /\ c.salt \in {DigestSalt, AutoSalt, LongSalt, 20}
      BY <2>1, <2>2 DEF SaltAsTold
    <3>2. c.salt = 20 => c.salt \in Nat
      OBVIOUS
    <3> QED BY <2>1, <3>1, <3>2, SaltKnown
  <2> QED BY <2>2 DEF SaltOf
<1> QED BY <1>1, <1>3, <1>5, <1>6, <1>7, <1>8 DEF AskedFor

LEMMA IdMd ==
  ASSUME NEW m, NEW g, NEW n, NEW i, i = [md |-> m, mgf |-> g, salt |-> n]
  PROVE  i.md = m
OBVIOUS

LEMMA IdAsTold ==
  ASSUME Typed, NEW c \in Contexts, NEW w \in Wishes, AsTold(c, w), c.type # "SHA-1",
         NEW t \in ToBeSigned, NEW s, SignedOf(c, t, s)
  PROVE  /\ s.pad = "pss" /\ s.salt \in 1 .. 255 => AlgId(c) = IdOf(s)
         /\ s.pad \in {"pkcs1", "ecdsa"} /\ t.md = c.type /\ AlgId(c).md # "" =>
              AlgId(c) = IdOf(s)
<1>1. ASSUME s.pad = "pss", s.salt \in 1 .. 255
      PROVE  AlgId(c) = IdOf(s)
  <2>1. Rsa /\ key.fam # "ecx"
    BY <1>1, KeyTyped DEF SignedOf, Rsa, Family
  <2>2. /\ c.pad = "pss" /\ s.info = c.type /\ s.mgf = c.mgf /\ s.salt = SaltUsed(c)
        /\ c.type # "none"
    BY <1>1, <2>1 DEF SignedOf
  <2>3. c.type \in {"SHA256", "SHA512"} /\ c.name = c.type
    BY <2>1, <2>2 DEF AsTold, NameOf, Contexts, MdAll
  <2>4. c.mgf \in {"SHA-1", "SHA256", "SHA512"} /\ c.mgfName = c.mgf
    <3>1. /\ c.mgf = IF w.mgf # "" THEN w.mgf ELSE IF Held THEN Default(key.mgf) ELSE c.type
          /\ c.mgfName = NameOf(c.mgf) /\ c.mgf # "MD5"
      BY <2>1 DEF AsTold, MgfAsTold
    <3>2. w.mgf \in MdAll \cup {""} /\ Default(key.mgf) \in {"SHA-1", "SHA256", "SHA512"}
      BY KeyTyped DEF Wishes, Default, PssMd
    <3> QED BY <2>3, <3>1, <3>2 DEF MdAll, NameOf
  <2> DEFINE h == HLen(c.name)
             n == IF c.salt \in {DigestSalt, AutoDigestMax} THEN h
                  ELSE IF c.salt \in {LongSalt, AutoSalt} THEN KeyLen - h - 2 ELSE c.salt
             id == [md |-> c.name, mgf |-> c.mgf, salt |-> IF n = 0 THEN 20 ELSE n % 256]
  <2>5. h # 0 /\ h = HLen(c.type)
    BY <2>3, Lengths
  <2>6. AlgId(c) = id
    BY <2>1, <2>2, <2>3, <2>4, <2>5 DEF AlgId, RsaGetAlgId, PssEncodeAlgId
  <2>7. n = s.salt
    <3>1. SaltAsTold(c, w)
      BY <2>1 DEF AsTold
    <3>2. MaxSalt(c.type) = KeyLen - h - 2
      BY <2>5 DEF MaxSalt
    <3> HIDE DEF h
    <3>3. CASE c.salt \in {DigestSalt, AutoDigestMax}
      BY <2>2, <2>5, <3>1, <3>3, SaltKnown
    <3>4. CASE c.salt \in {LongSalt, AutoSalt}
      BY <2>2, <3>1, <3>2, <3>4, SaltKnown, SpecialsTyped
    <3>5. CASE c.salt \in Nat
      BY <2>2, <3>1, <3>5, SaltKnown, SpecialsTyped
    <3> QED BY <3>1, <3>3, <3>4, <3>5, SaltKnown
  <2> HIDE DEF n
  <2>8. n # 0 /\ n % 256 = n
    BY <1>1, <2>7
  <2>9. id = [md |-> s.info, mgf |-> s.mgf, salt |-> s.salt]
    BY <2>2, <2>3, <2>7, <2>8
  <2> QED BY <1>1, <2>6, <2>9 DEF IdOf
<1>2. ASSUME s.pad \in {"pkcs1", "ecdsa"}, t.md = c.type, AlgId(c).md # ""
      PROVE  AlgId(c) = IdOf(s)
  <2> DEFINE shown == IF c.name \in {"SHA256", "SHA512"} THEN c.name ELSE ""
  <2>1. AlgId(c) = [md |-> shown, mgf |-> "", salt |-> 0]
    BY <1>2 DEF SignedOf, AlgId, RsaGetAlgId, EcdsaGetAlgId
  <2>2. shown = c.name /\ c.name \in {"SHA256", "SHA512"}
    <3> HIDE DEF shown
    <3>1. AlgId(c).md = shown
      BY <2>1, IdMd
    <3>2. shown # ""
      BY <1>2, <3>1
    <3> QED BY <3>2 DEF shown
  <2>3. key.fam # "ecx"
    BY <1>2, KeyTyped DEF SignedOf, Rsa
  <2>4. c.name = c.type
    BY <2>2, <2>3 DEF AsTold, NameOf
  <2>5. s.tbs = t /\ s.pad # "pss"
    BY <1>2 DEF SignedOf
  <2> HIDE DEF shown
  <2> QED BY <1>2, <2>1, <2>2, <2>4, <2>5 DEF IdOf
<1> QED BY <1>1, <1>2

------------------------------------------------------------------------------
(* For a program that keeps to the protocol. *)
LEMMA AgainPlain ==
  ASSUME Typed, AsTold(ctx, told), ctx.fed = <<>>, key.fam # "ecx"
  PROVE  Plain(ctx, Again) /\ SaltBegun(ctx, Again)
<1>1. /\ Again.mgf = told.mgf
      /\ Again.salt = IF key.fam = "rsa" THEN told.salt ELSE {}
  BY AgainIs
<1>2. ASSUME Rsa
      PROVE  /\ ctx.mgfName = NameOf(ctx.mgf) /\ ctx.mgf # "MD5"
             /\ Again.mgf # "" => ctx.mgfSet /\ ctx.mgf = Again.mgf
             /\ ctx.mgfSet => Again.mgf # "" \/ Held
             /\ ~ctx.mgfSet => ctx.mgf = ctx.type
  BY <1>1, <1>2 DEF AsTold, MgfAsTold
<1>3. key.fam = "rsa" => SaltAsTold(ctx, Again)
  BY <1>1 DEF AsTold, SaltAsTold, Rsa
<1> QED BY <1>1, <1>2, <1>3 DEF Plain, AsTold, SaltBegun

LEMMA DigestInitTold ==
  ASSUME Base, Habits = {}, NEW op \in {"sign", "verify"}, NEW m \in Md \cup {""},
         NEW g \in Givens, DigestInit(op, m, g), told' # Nothing \/ ctx' # NewCtx
  PROVE  AsTold(ctx', told') /\ ctx'.fed = told'.data
<1> DEFINE r == DigestSignVerifyInit(NewCtx, m, op, g)
<1>1. Typed /\ NewCtx \in Contexts /\ op \in Ops /\ NewCtx.pad # "x931"
  BY ConstantsTyped, Fresh DEF Base, Ops
<1>2. Begun(Nothing, op, "digest", m, g, r)
  BY DigestInitBase
<1>3. key.fam # "ecx" /\ PlainGiven(NewCtx, g)
  BY Fresh DEF DigestInit, Given, PlainGiven
<1>4. PadGiven(g) = "unset"
  BY <1>3 DEF PlainGiven, PadGiven
<1>5. MdBegun(NewCtx, m, g) = MdGiven(m, g)
  BY Fresh DEF MdBegun
<1>6. SameWish(told', Nothing, MdBegun(NewCtx, m, g))
  BY <1>2, <1>4, <1>5 DEF Begun, SameWish
<1>7. r.ok /\ ctx' = r.c
  BY <1>2 DEF Begun
<1>8. AsTold(r.c, told') /\ r.c.fed = <<>>
  BY <1>1, <1>3, <1>6, <1>7, FreshPlain, BegunAsTold
<1>9. told'.data = <<>>
  BY <1>6, Fresh DEF SameWish
<1> QED BY <1>7, <1>8, <1>9

LEMMA DigestReinitTold ==
  ASSUME Base, ToldInv, Habits = {}, NEW m \in Md \cup {""}, DigestReinit(m),
         told' # Nothing \/ ctx' # NewCtx
  PROVE  AsTold(ctx', told') /\ ctx'.fed = told'.data
<1> DEFINE r == DigestSignVerifyInit(ctx, m, ctx.op, <<>>)
           named == IF m = "" THEN ctx.name ELSE m
<1>1. /\ Typed /\ ctx \in Contexts /\ ctx.op \in Ops /\ <<>> \in Givens
      /\ AsTold(ctx, told) /\ ctx.fed = <<>> /\ ctx.pad # "x931" /\ told.way = "digest"
  BY DEF Base, Typed, Contexts, Givens, ToldInv, DigestReinit
<1>2. key.fam # "ecx"
  BY <1>1 DEF AsTold
<1>3. Plain(ctx, Again) /\ SaltBegun(ctx, Again)
  BY <1>1, <1>2, AgainPlain
<1>4. Begun(Again, ctx.op, "digest", named, <<>>, r)
  BY DigestReinitBase
<1>5. PadGiven(<<>>) = "unset" /\ PlainGiven(ctx, <<>>)
      /\ MdBegun(ctx, m, <<>>) = MdGiven(named, <<>>)
  BY DEF PadGiven, PlainGiven, MdBegun
<1>6. SameWish(told', Again, MdBegun(ctx, m, <<>>))
  BY <1>4, <1>5 DEF Begun, SameWish
<1>7. r.ok /\ ctx' = r.c
  BY <1>4 DEF Begun
<1>8. AsTold(r.c, told') /\ r.c.fed = <<>>
  BY <1>1, <1>2, <1>3, <1>5, <1>6, <1>7, BegunAsTold
<1>9. told'.data = <<>>
  BY <1>1, <1>6, AgainIs DEF SameWish
<1> QED BY <1>7, <1>8, <1>9

LEMMA RawInitTold ==
  ASSUME Base, Habits = {}, NEW op \in {"sign", "verify", "recover"}, NEW g \in Givens,
         RawInit(op, g), told' # Nothing \/ ctx' # NewCtx
  PROVE  AsTold(ctx', told') /\ ctx'.fed = told'.data
<1> DEFINE q == RawBegun(op, g)
           r == DigestSignVerifyInit(NewCtx, "", op, g)
<1>1. Typed /\ NewCtx \in Contexts /\ op \in Ops /\ NewCtx.pad # "x931"
      /\ "" \in Md \cup {""}
  BY ConstantsTyped, Fresh DEF Base, Ops
<1>2. Begun(Nothing, op, "raw", "", g, q)
  BY RawInitBase
<1>3. ctx' = q.c /\ q.ok /\ told'.way = "raw" /\ told'.data = <<>>
  BY <1>2, Fresh DEF Begun
<1>4. CASE key.fam = "ecx"
  <2>1. q.c = [NewCtx EXCEPT !.op = op]
    BY <1>4, RawInitBase
  <2>2. q.c.type = "none" /\ q.c.fed = <<>>
    BY <2>1 DEF NewCtx
  <2> HIDE DEF q
  <2> QED BY <1>3, <1>4, <2>2 DEF AsTold, Rsa
<1>5. CASE key.fam # "ecx"
  <2>1. q = r
    BY <1>5, NothingInitDoes DEF RawBegun
  <2>2. PlainGiven(NewCtx, g)
    BY <1>5, Fresh DEF RawInit, Given, PlainGiven
  <2>3. PadGiven(g) = "unset"
    BY <2>2 DEF PlainGiven, PadGiven
  <2>4. MdBegun(NewCtx, "", g) = MdGiven("", g)
    BY Fresh DEF MdBegun
  <2>5. SameWish(told', Nothing, MdBegun(NewCtx, "", g))
    BY <1>2, <2>3, <2>4 DEF Begun, SameWish
  <2>6. r.ok
    BY <1>3, <2>1
  <2>7. AsTold(r.c, told') /\ r.c.fed = <<>>
    BY <1>1, <1>5, <2>2, <2>5, <2>6, FreshPlain, BegunAsTold
  <2> QED BY <1>3, <2>1, <2>7
<1> QED BY <1>4, <1>5

LEMMA SetTold ==
  ASSUME Base, ToldInv, Habits = {}, NEW s \in Settings, Set(s),
         told' # Nothing \/ ctx' # NewCtx
  PROVE  AsTold(ctx', told') /\ ctx'.fed = told'.data
<1> DEFINE r == SetCtxParam(ctx, s)
<1>1. Settable(s) /\ r.ok /\ ctx' = r.c /\ Keep(s)
  BY SetBase
<1>2. /\ Typed /\ ctx \in Contexts /\ key.fam \in Family /\ AsTold(ctx, told)
      /\ ctx.fed = <<>> /\ told.data = <<>> /\ key.fam # "ecx"
      /\ key.fam = "ecdsa" => s.what = "md"
      /\ ~(key.fam = "pss" /\ s.what = "pad" /\ s.to = "none")
  BY KeyTyped DEF Base, Typed, Ready, ToldInv, Set
<1>3. /\ told'.data = told.data
      /\ told'.md = IF s.what = "md" THEN s.to ELSE told.md
      /\ told'.pad = IF s.what = "pad" THEN s.to ELSE told.pad
      /\ told'.mgf = IF s.what = "mgf" THEN s.to ELSE told.mgf
      /\ told'.salt = IF s.what = "salt" THEN {s.to} ELSE told.salt
  BY <1>1, <1>2, KeepDoes
<1>4. AsTold(r.c, told') /\ r.c.fed = <<>>
  BY <1>1, <1>2, <1>3, SetAsTold
<1> QED BY <1>1, <1>2, <1>3, <1>4

LEMMA FinalisedTold ==
  ASSUME Base, ToldInv, NEW own \in BOOLEAN, Finalised(own), ctx.op # "none"
  PROVE  AsTold(ctx', told') /\ (told'.op # "none" => ctx'.fed = told'.data)
<1>1. /\ ctx \in Contexts /\ told \in Wishes /\ AsTold(ctx, told) /\ Typed
      /\ told.op # "none" => ctx.fed = told.data
  BY DEF Base, Typed, ToldInv
<1> DEFINE c == [ctx EXCEPT !.fed = <<>>]
<1>2. /\ ctx' = IF own THEN c ELSE ctx
      /\ told'.op \in {told.op, "none"} /\ told'.md = told.md /\ told'.mgf = told.mgf
      /\ told'.way = told.way /\ told'.pad = told.pad /\ told'.salt = told.salt
      /\ told'.data = told.data
      /\ own => told'.op = "none"
  BY <1>1, FinalisedDoes
<1>3. /\ c.type = ctx.type /\ c.name = ctx.name /\ c.pad = ctx.pad /\ c.fed = <<>>
      /\ c.salt = ctx.salt /\ c.mgf = ctx.mgf /\ c.mgfName = ctx.mgfName
      /\ c.mgfSet = ctx.mgfSet
  BY <1>1 DEF Contexts
<1> HIDE DEF c
<1>4. key.fam = "ecx" => ctx.fed = <<>> /\ told.data = <<>>
  BY <1>1 DEF AsTold
<1>5. ASSUME NEW d \in {c, ctx}, NEW v, v.md = told.md, v.mgf = told.mgf, v.pad = told.pad,
             v.salt = told.salt, v.way = told.way, v.data = told.data
      PROVE  AsTold(d, v)
  <2>1. /\ d.type = ctx.type /\ d.name = ctx.name /\ d.pad = ctx.pad
        /\ d.salt = ctx.salt /\ d.mgf = ctx.mgf /\ d.mgfName = ctx.mgfName
        /\ d.mgfSet = ctx.mgfSet /\ d.fed \in {ctx.fed, <<>>}
    BY <1>3, <1>5
  <2>2. key.fam = "ecx" => d.fed = <<>> /\ v.data = <<>> /\ v.way = told.way
    BY <1>4, <1>5, <2>1
  <2> QED BY <1>1, <1>5, <2>1, <2>2, AsToldSame
<1>6. AsTold(ctx', told')
  BY <1>2, <1>5
<1>7. told'.op # "none" => ctx'.fed = told'.data
  <2> HAVE told'.op # "none"
  <2>1. ~own /\ told.op # "none"
    BY <1>2
  <2>2. ctx' = ctx
    BY <1>2, <2>1
  <2> QED BY <1>1, <1>2, <2>1, <2>2
<1> QED BY <1>6, <1>7

SameTold(v, w) ==
  /\ v.md = w.md /\ v.mgf = w.mgf /\ v.pad = w.pad /\ v.salt = w.salt
  /\ v.way = w.way /\ v.data = w.data

LEMMA DupAsTold ==
  ASSUME Typed, NEW c \in Contexts, NEW w, AsTold(c, w), NEW v, SameTold(v, w)
  PROVE  AsTold(DupCtx(c), v) /\ DupCtx(c).fed = c.fed /\ DupCtx(c).type = c.type
<1> DEFINE d == DupCtx(c)
<1>1. /\ d.type = c.type /\ d.name = c.name /\ d.fed = c.fed
      /\ Rsa => /\ d.pad = c.pad /\ d.salt = c.salt /\ d.mgf = c.mgf
                /\ d.mgfSet = c.mgfSet /\ d.mgfName = c.mgfName
  BY DupDoes
<1> HIDE DEF d
<1>2. CASE key.fam = "ecx"
  BY <1>1, <1>2 DEF AsTold, SameTold, Rsa, d
<1>3. CASE key.fam # "ecx"
  <2>1. AsTold(d, v)
    BY <1>1, <1>3, AsToldSame DEF SameTold
  <2> QED BY <1>1, <1>3, <2>1 DEF d
<1> QED BY <1>2, <1>3

LEMMA UpdateTold ==
  ASSUME Base, ToldInv, Update
  PROVE  AsTold(ctx', told') /\ ctx'.fed = told'.data
<1> DEFINE piece == <<Len(sigs), Len(told.data) + 1>>
           fed == Append(ctx.fed, piece)
           data == Append(told.data, piece)
           c == [ctx EXCEPT !.fed = fed]
           w == [told EXCEPT !.data = data]
<1>1. /\ ctx \in Contexts /\ told \in Wishes /\ AsTold(ctx, told) /\ ctx.type # "none"
      /\ ctx.fed = told.data
  BY DEF Base, Typed, Ready, ToldInv, Update
<1>2. ctx' = c /\ told' = w
  BY UpdateBase
<1>3. fed = data
  BY <1>1
<1> HIDE DEF fed, data
<1>4. /\ c.type = ctx.type /\ c.name = ctx.name /\ c.pad = ctx.pad /\ c.fed = fed
      /\ c.salt = ctx.salt /\ c.mgf = ctx.mgf /\ c.mgfName = ctx.mgfName
      /\ c.mgfSet = ctx.mgfSet
  BY <1>1 DEF Contexts
<1>5. /\ w.md = told.md /\ w.mgf = told.mgf /\ w.pad = told.pad /\ w.salt = told.salt
      /\ w.data = data
  BY <1>1 DEF Wishes
<1> HIDE DEF c, w
<1>6. key.fam # "ecx"
  BY <1>1 DEF AsTold
<1>7. AsTold(c, w)
  BY <1>1, <1>4, <1>5, <1>6, AsToldSame
<1> QED BY <1>2, <1>3, <1>4, <1>5, <1>7

LEMMA CopyTold ==
  ASSUME Base, ToldInv, Copy
  PROVE  AsTold(ctx', told') /\ ctx'.fed = told'.data
<1>1. /\ Typed /\ ctx \in Contexts /\ AsTold(ctx, told) /\ ctx.fed = told.data
  BY DEF Base, Typed, Ready, ToldInv, Copy
<1>2. ctx' = DupCtx(ctx)
  BY DEF Copy
<1>3. SameTold(told', told)
  BY CopyBase DEF SameTold
<1>4. AsTold(DupCtx(ctx), told') /\ DupCtx(ctx).fed = ctx.fed
  BY <1>1, <1>3, DupAsTold
<1> QED BY <1>1, <1>2, <1>3, <1>4 DEF SameTold

LEMMA SoundSigsMade ==
  ASSUME Base, SoundSigs, NEW s, Made(s), s # NoSig => s \in Signatures,
         s # NoSig => SoundSig(s)
  PROVE  SoundSigs'
<1>1. \A i \in 1 .. Len(sigs') :
        \/ i \in 1 .. Len(sigs) /\ sigs'[i] = sigs[i]
        \/ s # NoSig /\ sigs'[i].sig = s
  BY MadeDoes DEF Base
<1>2. ASSUME NEW u, SoundSig(u) PROVE SoundSig(u)'
  BY <1>2 DEF SoundSig, LenOf
<1> SUFFICES ASSUME NEW i \in 1 .. Len(sigs') PROVE SoundSig(sigs'[i].sig)
  BY DEF SoundSigs
<1> QED BY <1>1 DEF SoundSigs

LEMMA SoundSigned ==
  ASSUME Typed, NEW c \in Contexts, NEW w, AsTold(c, w), NEW t, NEW s, SignedOf(c, t, s)
  PROVE  SoundSig(s)
<1>1. ASSUME s.pad = "pss" PROVE s.info # "none" /\ s.salt \in Nat
  <2>1. Rsa
    BY <1>1, KeyTyped DEF SignedOf, Rsa, Family
  <2>2. SaltAsTold(c, w) /\ s.info = c.type /\ c.type # "none" /\ s.salt = SaltUsed(c)
    BY <1>1, <2>1 DEF AsTold, SignedOf
  <2> QED BY <2>2, SaltKnown
<1>2. ASSUME s.pad = "ecdsa" PROVE LenOf(s.tbs) >= MinDigest
  <2>1. key.fam # "ecx" /\ c.type # "MD5" /\ c.type \in MdAll \cup {"none"}
    BY <1>2, KeyTyped DEF SignedOf, Rsa, AsTold, Contexts
  <2>2. s.tbs = t /\ EcdsaTakes(c, t)
    BY <1>2 DEF SignedOf
  <2>3. CASE c.type = "none"
    BY <2>2, <2>3 DEF EcdsaTakes
  <2>4. CASE c.type # "none"
    <3>1. HLen(c.type) \in {20, 32, 64}
      BY <2>1, <2>4, Lengths DEF MdAll
    <3>2. LenOf(t) = HLen(c.type)
      BY <2>2, <2>4 DEF EcdsaTakes
    <3> QED BY <2>2, <3>1, <3>2 DEF MinDigest
  <2> QED BY <2>3, <2>4
<1> QED BY <1>1, <1>2 DEF SoundSig

(* The context a signature of the digest way is made with. *)
LEMMA SignerAsTold ==
  ASSUME Base, ToldInv, NEW own \in BOOLEAN, told.op # "none"
  PROVE  LET d == IF own THEN ctx ELSE DupCtx(ctx)
         IN /\ d \in Contexts /\ AsTold(d, told) /\ d.fed = told.data /\ d.type = ctx.type
            /\ Rsa => d.pad # "unset"
<1>1. /\ Typed /\ ctx \in Contexts /\ AsTold(ctx, told) /\ ctx.fed = told.data
      /\ Rsa => ctx.pad # "unset"
  BY DEF Base, Typed, Ready, ToldInv
<1>2. SameTold(told, told)
  BY DEF SameTold
<1>3. /\ AsTold(DupCtx(ctx), told) /\ DupCtx(ctx).fed = ctx.fed
      /\ DupCtx(ctx).type = ctx.type /\ DupCtx(ctx) \in Contexts
      /\ Rsa => DupCtx(ctx).pad = ctx.pad
  BY <1>1, <1>2, DupAsTold, DupDoes
<1>4. CASE own
  BY <1>1, <1>4
<1>5. CASE ~own
  BY <1>1, <1>3, <1>5
<1> QED BY <1>4, <1>5

LEMMA NextTold ==
  ASSUME Habits = {}
  PROVE  Base /\ ToldInv /\ [Next]_vars => ToldInv'
<1> SUFFICES ASSUME Base, ToldInv, [Next]_vars PROVE ToldInv'
  OBVIOUS
<1>0. /\ Typed /\ ctx \in Contexts /\ SoundSigs
      /\ told.op # "none" => ctx.op # "none" /\ AsTold(ctx, told)
  BY DEF Base, Typed, Ready, ToldInv
<1>a. ASSUME sigs' = sigs PROVE SoundSigs'
  BY <1>0, <1>a DEF SoundSigs
<1>b. ASSUME key' = key, SoundSigs', ctx' = NewCtx, told' = Nothing PROVE ToldInv'
  BY <1>b, Fresh DEF ToldInv
<1>c. ASSUME key' = key, SoundSigs', AsTold(ctx', told'),
             told'.op # "none" => ctx'.fed = told'.data
      PROVE  ToldInv'
  BY <1>c, AsToldNext DEF ToldInv
<1>1. ASSUME NEW op \in {"sign", "verify"}, NEW m \in Md \cup {""}, NEW g \in Givens,
             DigestInit(op, m, g)
      PROVE  ToldInv'
  <2>1. key' = key /\ sigs' = sigs
    BY <1>1 DEF DigestInit
  <2>2. CASE ctx' = NewCtx /\ told' = Nothing
    BY <1>a, <1>b, <2>1, <2>2
  <2>3. CASE told' # Nothing \/ ctx' # NewCtx
    BY <1>a, <1>c, <1>1, <2>1, <2>3, DigestInitTold
  <2> QED BY <2>2, <2>3
<1>2. ASSUME NEW m \in Md \cup {""}, DigestReinit(m) PROVE ToldInv'
  <2>1. key' = key /\ sigs' = sigs
    BY <1>2 DEF DigestReinit
  <2>2. CASE ctx' = NewCtx /\ told' = Nothing
    BY <1>a, <1>b, <2>1, <2>2
  <2>3. CASE told' # Nothing \/ ctx' # NewCtx
    BY <1>a, <1>c, <1>2, <2>1, <2>3, DigestReinitTold
  <2> QED BY <2>2, <2>3
<1>3. ASSUME NEW op \in {"sign", "verify", "recover"}, NEW g \in Givens, RawInit(op, g)
      PROVE  ToldInv'
  <2>1. key' = key /\ sigs' = sigs
    BY <1>3 DEF RawInit
  <2>2. CASE ctx' = NewCtx /\ told' = Nothing
    BY <1>a, <1>b, <2>1, <2>2
  <2>3. CASE told' # Nothing \/ ctx' # NewCtx
    BY <1>a, <1>c, <1>3, <2>1, <2>3, RawInitTold
  <2> QED BY <2>2, <2>3
<1>4. ASSUME NEW s \in Settings, Set(s) PROVE ToldInv'
  <2>1. key' = key /\ sigs' = sigs
    BY <1>4 DEF Set
  <2>2. CASE ctx' = NewCtx /\ told' = Nothing
    BY <1>a, <1>b, <2>1, <2>2
  <2>3. CASE told' # Nothing \/ ctx' # NewCtx
    BY <1>a, <1>c, <1>4, <2>1, <2>3, SetTold
  <2> QED BY <2>2, <2>3
<1>5. CASE Update
  <2>1. key' = key /\ sigs' = sigs
    BY <1>5 DEF Update
  <2> QED BY <1>a, <1>c, <1>5, <2>1, UpdateTold
<1>6. CASE Copy
  <2>1. key' = key /\ sigs' = sigs
    BY <1>6 DEF Copy
  <2> QED BY <1>a, <1>c, <1>6, <2>1, CopyTold
<1>7. ASSUME NEW own \in BOOLEAN, DigestSignFinal(own) PROVE ToldInv'
  <2> DEFINE d == IF own THEN ctx ELSE DupCtx(ctx)
             t == Digest(d.type, d.fed)
             s == Sign(d, t)
  <2>1. s # NoSig => SignedOf(d, t, s)
    BY <1>7, DigestSigned
  <2>2. Made(s) /\ Finalised(own) /\ key' = key /\ told.op # "none"
    BY <1>7 DEF DigestSignFinal
  <2>3. d \in Contexts /\ AsTold(d, told)
    BY <2>2, SignerAsTold
  <2> HIDE DEF d, t, s
  <2>4. s # NoSig => s \in Signatures /\ SoundSig(s)
    BY <1>0, <2>1, <2>3, SoundSigned DEF SignedOf
  <2>5. SoundSigs'
    BY <1>0, <2>2, <2>4, SoundSigsMade
  <2>6. AsTold(ctx', told') /\ (told'.op # "none" => ctx'.fed = told'.data)
    BY <1>0, <2>2, FinalisedTold
  <2> QED BY <1>c, <2>2, <2>5, <2>6
<1>8. ASSUME NEW t \in Tbs, RawSign(t) PROVE ToldInv'
  <2> DEFINE s == Sign(ctx, t)
  <2>1. s # NoSig => SignedOf(ctx, t, s)
    BY <1>8, RawSigned
  <2>2. Made(s) /\ ctx' = NewCtx /\ told' = Nothing /\ key' = key /\ told.op # "none"
    BY <1>8 DEF RawSign, Freed
  <2> HIDE DEF s
  <2>3. s # NoSig => s \in Signatures /\ SoundSig(s)
    BY <1>0, <2>1, <2>2, SoundSigned DEF SignedOf
  <2>4. SoundSigs'
    BY <1>0, <2>2, <2>3, SoundSigsMade
  <2> QED BY <1>b, <2>2, <2>4
<1>9. CASE \E own \in BOOLEAN, s \in Known : DigestVerifyFinal(own, s)
  <2>1. PICK own \in BOOLEAN : Finalised(own) /\ key' = key /\ sigs' = sigs
                               /\ told.op # "none"
    BY <1>9 DEF DigestVerifyFinal
  <2>2. AsTold(ctx', told') /\ (told'.op # "none" => ctx'.fed = told'.data)
    BY <1>0, <2>1, FinalisedTold
  <2> QED BY <1>a, <1>c, <2>1, <2>2
<1>10. CASE \/ \E s \in Known, t \in Tbs : RawVerify(s, t)
            \/ \E s \in Known : VerifyRecover(s)
  <2>1. ctx' = NewCtx /\ told' = Nothing /\ key' = key /\ sigs' = sigs
    BY <1>10 DEF RawVerify, VerifyRecover, Freed
  <2> QED BY <1>a, <1>b, <2>1
<1>11. CASE UNCHANGED vars
  BY <1>a, <1>11, AsToldNext DEF vars, ToldInv
<1> QED BY <1>1, <1>2, <1>3, <1>4, <1>5, <1>6, <1>7, <1>8, <1>9, <1>10, <1>11 DEF Next

LEMMA SpecTold ==
  ASSUME Habits = {}
  PROVE  Spec => []ToldInv
<1>1. Init => ToldInv
  <2>1. ASSUME Init PROVE ToldInv
    <3>1. ctx.op = "none" /\ told.op = "none" /\ Len(sigs) = 0
      BY <2>1, Fresh DEF Init
    <3>2. \A i \in 1 .. Len(sigs) : FALSE
      BY <3>1
    <3> QED BY <3>1, <3>2 DEF ToldInv, SoundSigs
  <2> QED BY <2>1
<1>2. Base /\ ToldInv /\ [Next]_vars => ToldInv'
  BY NextTold
<1> QED BY <1>1, <1>2, SpecBase, PTL DEF Spec

------------------------------------------------------------------------------
(* A verification and what is due.                                           *)
LEMMA VerifySalt ==
  ASSUME NEW c \in Contexts, NEW w, SaltAsTold(c, w), NEW n \in Nat, NEW m, NEW d,
         d.type = m
  PROVE  SaltToWc(d, c.salt) \in {Discover, n} <=>
           /\ \A asked \in w.salt :
                \/ asked = AutoSalt
                \/ asked = DigestSalt /\ n = HLen(m)
                \/ asked = LongSalt /\ n = MaxSalt(m)
                \/ asked = n
           /\ w.salt = {} => n = SaltToWc(d, c.salt)
<1>1. /\ c.salt = DigestSalt \/ c.salt = AutoDigestMax => SaltToWc(d, c.salt) = HLen(m)
      /\ c.salt = LongSalt => SaltToWc(d, c.salt) = MaxSalt(m)
      /\ c.salt = AutoSalt => SaltToWc(d, c.salt) = Discover
      /\ c.salt \in Nat => SaltToWc(d, c.salt) = c.salt
  BY SpecialsTyped DEF SaltToWc
<1>2. HLen(m) \in Nat /\ MaxSalt(m) \in Nat /\ Discover < 0
  BY Lengths DEF Discover
<1>3. CASE w.salt = {} /\ (c.salt = AutoDigestMax \/ c.salt \in Nat)
  <2>1. SaltToWc(d, c.salt) \in Nat
    BY <1>1, <1>2, <1>3
  <2>2. SaltToWc(d, c.salt) # Discover
    BY <1>2, <2>1
  <2> QED BY <1>3, <2>2
<1>4. CASE w.salt = {c.salt} /\ c.salt \in {DigestSalt, AutoSalt, LongSalt, 20}
  <2>1. CASE c.salt = AutoSalt
    BY <1>1, <1>4, <2>1
  <2>2. CASE c.salt = DigestSalt
    <3>1. SaltToWc(d, c.salt) = HLen(m) /\ HLen(m) # Discover /\ c.salt # n
      BY <1>1, <1>2, <2>2, SpecialsTyped
    <3> QED BY <1>4, <2>2, <3>1, SpecialsTyped
  <2>3. CASE c.salt = LongSalt
    <3>1. SaltToWc(d, c.salt) = MaxSalt(m) /\ MaxSalt(m) # Discover /\ c.salt # n
      BY <1>1, <1>2, <2>3, SpecialsTyped
    <3> QED BY <1>4, <2>3, <3>1, SpecialsTyped
  <2>4. CASE c.salt = 20
    <3>1. SaltToWc(d, c.salt) = c.salt /\ c.salt # Discover
      BY <1>1, <1>2, <2>4
    <3>2. c.salt # AutoSalt /\ c.salt # DigestSalt /\ c.salt # LongSalt
      BY <2>4, SpecialsTyped
    <3> QED BY <1>4, <3>1, <3>2
  <2> QED BY <1>4, <2>1, <2>2, <2>3, <2>4
<1> QED BY <1>3, <1>4 DEF SaltAsTold

(* What is due of a PSS signature, in terms of the context. *)
DueOf(c, w, s, t) ==
  /\ AskedFor(w, s, t)
  /\ s.pad = "pss" /\ w.salt = {} => s.salt = SaltToWc([c EXCEPT !.type = MdOf(w)], c.salt)

LEMMA VerifyPssDue ==
  ASSUME Typed, Rsa, NEW c \in Contexts, NEW w \in Wishes, AsTold(c, w), w.op = "verify",
         c.pad = "pss", NEW s \in Signatures,
         s.pad = "pss" => s.info # "none" /\ s.salt \in Nat, NEW t
  PROVE  VerifyPss(c, s, t) <=> DueOf(c, w, s, t)
<1> DEFINE q == RsaSetupMd(c, "SHA256", "verify")
           r == IF c.type = "none" THEN q ELSE Done(c)
           n == SaltToWc(r.c, c.salt)
           e == [c EXCEPT !.type = MdOf(w)]
<1>1. key.fam # "ecx" /\ c.type = MdTold(w) /\ MgfAsTold(c, w) /\ PadOf(w) = "pss"
      /\ SaltAsTold(c, w)
  BY DEF AsTold, Rsa, PadAsTold
<1>2. e.type = MdOf(w)
  BY DEF Contexts
<1>3. CASE s.pad # "pss"
  BY <1>1, <1>3 DEF VerifyPss, DueOf, AskedFor
<1>4. CASE s.pad = "pss"
  <2>1. s.info # "none" /\ s.salt \in Nat
    BY <1>4
  <2>2. DueOf(c, w, s, t) <=>
          /\ s.tbs = t /\ s.info = MdOf(w) /\ s.mgf = MgfOf(w)
          /\ SaltOf(w, s.salt) /\ (w.salt = {} => s.salt = SaltToWc(e, c.salt))
    BY <1>1, <1>4 DEF DueOf, AskedFor
  <2>3. VerifyPss(c, s, t) <=>
          /\ r.ok /\ s.tbs = t /\ s.info = r.c.type /\ s.mgf = r.c.mgf
          /\ n \in {Discover, s.salt}
    BY <1>4 DEF VerifyPss
  <2>4. CASE c.type = "none" /\ ~q.ok
    <3>1. ~r.ok
      BY <2>4
    <3>2. key.md # "SHA256"
      <4>1. key.md = "SHA256" => q.ok
        BY <2>4 DEF RsaSetupMd, Done
      <4> QED BY <2>4, <4>1
    <3>3. MdOf(w) = "none"
      BY <1>1, <2>4, <3>2, MdOfIs
    <3> QED BY <2>1, <2>2, <2>3, <3>1, <3>3
  <2>5. CASE c.type # "none" \/ q.ok
    <3>1. r.ok /\ r.c.type = MdOf(w) /\ r.c.mgf = MgfOf(w)
      <4>1. CASE c.type # "none"
        <5>1. r.ok /\ r.c = c
          BY <4>1 DEF Done
        <5>2. MdOf(w) = c.type
          BY <1>1, <4>1, MdOfIs
        <5> QED BY <1>1, <5>1, <5>2, MgfOfIs DEF MgfAsTold
      <4>2. CASE c.type = "none" /\ q.ok
        <5>1. r = q
          BY <4>2
        <5>2. RsaMdSet(c, q.c, "SHA256") /\ key.md = "SHA256"
          BY <4>2, RsaSetupMdDoes DEF MdAll
        <5>3. key.fam = "pss" /\ ~Held
          BY <1>1, <4>2, <5>2, KeyTyped, MdOfIs
        <5>4. MdOf(w) = "SHA256"
          BY <1>1, <4>2, <5>2, <5>3, MdOfIs
        <5> HIDE DEF q, r
        <5>5. q.c.mgf = MgfOf(w)
          <6>1. c.mgfSet \in BOOLEAN
            BY DEF Contexts
          <6>2. CASE c.mgfSet
            <7>1. q.c.mgf = c.mgf
              BY <5>2, <6>2 DEF RsaMdSet
            <7>2. MgfOf(w) = c.mgf
              BY <1>1, <5>3, <6>2, MgfOfIs DEF MgfAsTold
            <7> QED BY <7>1, <7>2
          <6>3. CASE ~c.mgfSet
            <7>1. q.c.mgf = "SHA256"
              BY <5>2, <6>3 DEF RsaMdSet
            <7>2. MgfOf(w) = MdOf(w)
              BY <1>1, <5>3, <6>3, MgfOfIs DEF MgfAsTold
            <7> QED BY <5>4, <7>1, <7>2
          <6> QED BY <6>1, <6>2, <6>3
        <5> QED BY <4>2, <5>1, <5>2, <5>4, <5>5 DEF RsaMdSet
      <4> QED BY <2>5, <4>1, <4>2
    <3> HIDE DEF q, r, e
    <3>2. SaltToWc(r.c, c.salt) = SaltToWc(e, c.salt)
      BY <1>2, <3>1 DEF SaltToWc
    <3>3. SaltToWc(e, c.salt) \in {Discover, s.salt} <=>
            SaltOf(w, s.salt) /\ (w.salt = {} => s.salt = SaltToWc(e, c.salt))
      BY <1>1, <1>2, <2>1, VerifySalt DEF SaltOf
    <3> QED BY <2>2, <2>3, <3>1, <3>2, <3>3
  <2> QED BY <2>4, <2>5, RsaSetupMdDoes DEF MdAll
<1> QED BY <1>3, <1>4

LEMMA VerifyDue ==
  ASSUME Typed, NEW c \in Contexts, NEW w \in Wishes, AsTold(c, w), w.op = "verify",
         NEW s \in Signatures, SoundSig(s),
         s.info = "none" /\ s.pad = "pkcs1" => c.type = "none",
         NEW t \in ToBeSigned, t.md # "none"
  PROVE  Verify(c, s, t) \in BOOLEAN /\ (Verify(c, s, t) <=> DueOf(c, w, s, t))
<1>1. key.fam # "ecx" => c.type = MdTold(w) /\ c.type \in MdAll \cup {"none"}
  BY DEF AsTold, Contexts
<1>2. key.fam \notin {"ecx", "pss"} => MdOf(w) = c.type
  BY <1>1, MdOfIs
<1>3. CASE Rsa
  <2>1. /\ Verify(c, s, t) = RsaVerify(c, s, t) /\ c.pad = PadOf(w)
        /\ c.pad \in {"pkcs1", "pss", "none", "x931"} /\ (key.fam = "pss" => c.pad = "pss")
    BY <1>3 DEF Verify, AsTold, PadAsTold, Rsa
  <2>2. CASE c.pad = "pss"
    <3>1. RsaVerify(c, s, t) = VerifyPss(c, s, t)
      BY <2>2 DEF RsaVerify
    <3>2. VerifyPss(c, s, t) \in BOOLEAN
      BY DEF VerifyPss
    <3>3. s.pad = "pss" => s.info # "none" /\ s.salt \in Nat
      BY DEF SoundSig
    <3> QED BY <1>3, <2>1, <2>2, <3>1, <3>2, <3>3, VerifyPssDue
  <2>3. c.pad # "pss" => MdOf(w) = c.type
    BY <1>2, <1>3, <2>1 DEF Rsa
  <2>4. CASE c.pad = "pkcs1"
    <3>1. RsaVerify(c, s, t) = VerifyPkcs1(c, s, t)
      BY <2>4 DEF RsaVerify
    <3>2. VerifyPkcs1(c, s, t) \in BOOLEAN
      BY DEF VerifyPkcs1
    <3>3. VerifyPkcs1(c, s, t) <=> DueOf(c, w, s, t)
      BY <2>1, <2>3, <2>4 DEF VerifyPkcs1, DueOf, AskedFor
    <3> QED BY <2>1, <3>1, <3>2, <3>3
  <2>5. CASE c.pad = "none"
    <3>1. RsaVerify(c, s, t) = VerifyNoPad(c, s, t)
      BY <2>5 DEF RsaVerify
    <3>2. VerifyNoPad(c, s, t) \in BOOLEAN
      BY DEF VerifyNoPad
    <3>3. VerifyNoPad(c, s, t) <=> DueOf(c, w, s, t)
      BY <2>1, <2>5 DEF VerifyNoPad, DueOf, AskedFor
    <3> QED BY <2>1, <3>1, <3>2, <3>3
  <2>6. CASE c.pad = "x931"
    <3>1. RsaVerify(c, s, t) = VerifyX931(c, s, t)
      BY <2>6 DEF RsaVerify
    <3>2. VerifyX931(c, s, t) \in BOOLEAN
      BY DEF VerifyX931
    <3>3. VerifyX931(c, s, t) <=> DueOf(c, w, s, t)
      BY <2>1, <2>3, <2>6 DEF VerifyX931, DueOf, AskedFor
    <3> QED BY <2>1, <3>1, <3>2, <3>3
  <2> QED BY <2>1, <2>2, <2>4, <2>5, <2>6
<1>4. CASE key.fam = "ecdsa"
  <2>1. Verify(c, s, t) = EcdsaVerify(c, s, t) /\ PadOf(w) = "ecdsa"
    BY <1>4 DEF Verify, Rsa, PadOf
  <2>2. EcdsaVerify(c, s, t) \in BOOLEAN
    BY DEF EcdsaVerify
  <2>3. s.pad = "ecdsa" /\ s.tbs = t => (EcdsaTakes(c, t) <=> MdOf(w) \in {"none", t.md})
    <3>1. c.type # "none" => (LenOf(t) = HLen(c.type) <=> t.md = c.type)
      BY <1>1, <1>4, LenOfIs
    <3>2. s.pad = "ecdsa" /\ s.tbs = t => LenOf(t) >= MinDigest
      BY DEF SoundSig
    <3> QED BY <1>2, <1>4, <3>1, <3>2 DEF EcdsaTakes
  <2>4. EcdsaVerify(c, s, t) <=> DueOf(c, w, s, t)
    BY <2>1, <2>3 DEF EcdsaVerify, DueOf, AskedFor
  <2> QED BY <2>1, <2>2, <2>4
<1>5. CASE key.fam = "ecx"
  <2>1. Verify(c, s, t) = EcxVerify(c, s, t) /\ PadOf(w) = "ecx"
    BY <1>5 DEF Verify, Rsa, PadOf
  <2>2. EcxVerify(c, s, t) \in BOOLEAN
    BY DEF EcxVerify
  <2>3. EcxVerify(c, s, t) <=> DueOf(c, w, s, t)
    BY <2>1 DEF EcxVerify, DueOf, AskedFor
  <2> QED BY <2>1, <2>2, <2>3
<1> QED BY <1>3, <1>4, <1>5, KeyTyped DEF Rsa, Family

LEMMA AnswerSame ==
  ASSUME NEW a \in BOOLEAN, NEW b \in BOOLEAN, a <=> b, NEW r, r = [got |-> a, due |-> b]
  PROVE  r.got = r.due
OBVIOUS

LEMMA Answered ==
  ASSUME NEW a \in BOOLEAN, NEW b \in BOOLEAN, a <=> b, Answer(a, b)
  PROVE  AnswerIsTrue'
<1>1. \A r : r = [got |-> a, due |-> b] => r.got = r.due
  BY AnswerSame
<1> QED BY <1>1 DEF Answer, AnswerIsTrue

LEMMA KnownTyped ==
  ASSUME Typed, SoundSigs, NEW s \in Known
  PROVE  s \in Signatures /\ SoundSig(s)
<1>1. PICK i \in 1 .. Len(sigs) : s = sigs[i].sig
  BY DEF Known
<1>2. sigs[i] \in Records
  BY <1>1 DEF Typed
<1>3. sigs[i].sig \in Signatures
  BY <1>2 DEF Records
<1> QED BY <1>1, <1>3 DEF SoundSigs

(* The salt due is that of the context, or of the copy that verifies. *)
LEMMA DueIs ==
  ASSUME NEW c, NEW s, NEW t, NEW w, ctx \in Contexts, c \in Contexts,
         Rsa => c.salt = ctx.salt
  PROVE  Due(w, s, t) \in BOOLEAN /\ (Due(w, s, t) <=> DueOf(c, w, s, t))
<1>1. Due(w, s, t) \in BOOLEAN
  BY DEF Due, AskedFor, SaltOf
<1> DEFINE e == [ctx EXCEPT !.type = MdOf(w)]
           d == [c EXCEPT !.type = MdOf(w)]
<1>2. e.type = d.type
  BY DEF Contexts
<1>3. CASE Rsa
  <2> HIDE DEF e, d
  <2>1. SaltToWc(e, ctx.salt) = SaltToWc(d, c.salt)
    BY <1>2, <1>3 DEF SaltToWc
  <2> QED BY <1>1, <2>1 DEF Due, DueOf, e, d
<1>4. CASE ~Rsa
  <2>1. AskedFor(w, s, t) => s.pad = key.fam
    BY <1>4 DEF AskedFor, PadOf
  <2>2. AskedFor(w, s, t) => s.pad # "pss"
    BY <1>4, <2>1 DEF Rsa
  <2> QED BY <1>1, <2>2 DEF Due, DueOf
<1> QED BY <1>3, <1>4

LEMMA DigestAnswered ==
  ASSUME Base, ToldInv, Habits = {}, NEW own \in BOOLEAN, NEW s \in Known,
         DigestVerifyFinal(own, s)
  PROVE  AnswerIsTrue'
<1> DEFINE d == IF own THEN ctx ELSE DupCtx(ctx)
           t == Digest(d.type, d.fed)
           got == Verify(d, s, t)
           due == Due(told, s, Digest(MdOf(told), told.data))
<1>1. /\ Typed /\ SoundSigs /\ ctx \in Contexts /\ told \in Wishes
      /\ told.op = "verify" /\ ctx.type # "none"
      /\ ~(s.info = "none" /\ s.pad = "pkcs1") /\ Answer(got, due)
  BY DEF Base, Typed, ToldInv, DigestVerifyFinal
<1>2. d \in Contexts /\ AsTold(d, told) /\ d.fed = told.data /\ d.type = ctx.type
  BY <1>1, SignerAsTold
<1>3. Rsa => d.salt = ctx.salt
  BY <1>1, DupDoes
<1> HIDE DEF d
<1>4. t \in ToBeSigned /\ t.md = d.type
  BY <1>2, TbsTyped
<1>5. MdOf(told) = d.type
  <2>1. key.fam # "ecx"
    BY <1>1, <1>2 DEF AsTold
  <2> QED BY <1>1, <1>2, <2>1, MdOfIs DEF AsTold
<1>6. Digest(MdOf(told), told.data) = t
  BY <1>2, <1>5
<1> HIDE DEF t
<1>7. s \in Signatures /\ SoundSig(s)
  BY <1>1, KnownTyped
<1>8. got \in BOOLEAN /\ (got <=> DueOf(d, told, s, t))
  BY <1>1, <1>2, <1>4, <1>7, VerifyDue
<1>9. due \in BOOLEAN /\ (due <=> DueOf(d, told, s, t))
  BY <1>1, <1>2, <1>3, <1>6, DueIs
<1> HIDE DEF got, due
<1> QED BY <1>1, <1>8, <1>9, Answered

LEMMA RawAnswered ==
  ASSUME Base, ToldInv, Habits = {}, NEW s \in Known, NEW t \in Tbs, RawVerify(s, t)
  PROVE  AnswerIsTrue'
<1> DEFINE got == Verify(ctx, s, t)
           due == Due(told, s, t)
<1>1. /\ Typed /\ SoundSigs /\ ctx \in Contexts /\ told \in Wishes /\ AsTold(ctx, told)
      /\ told.op = "verify" /\ Answer(got, due)
      /\ s.info = "none" /\ s.pad = "pkcs1" => ctx.type = "none"
  BY DEF Base, Typed, Ready, ToldInv, RawVerify
<1>2. t \in ToBeSigned /\ t.md # "none"
  <2>1. t.md # "none"
    BY ConstantsTyped DEF Tbs, Digest, RawBlock, MdAll
  <2> QED BY <2>1, TbsTyped
<1>3. s \in Signatures /\ SoundSig(s)
  BY <1>1, KnownTyped
<1>4. got \in BOOLEAN /\ (got <=> DueOf(ctx, told, s, t))
  BY <1>1, <1>2, <1>3, VerifyDue
<1>5. due \in BOOLEAN /\ (due <=> DueOf(ctx, told, s, t))
  BY <1>1, DueIs
<1> HIDE DEF got, due
<1> QED BY <1>1, <1>4, <1>5, Answered

LEMMA RecoverAnswered ==
  ASSUME Base, ToldInv, NEW s \in Known, VerifyRecover(s)
  PROVE  AnswerIsTrue'
<1> DEFINE got == key.fam = "rsa" /\ ctx.pad = "pkcs1" /\ s.pad = "pkcs1"
           due == key.fam = "rsa" /\ PadOf(told) = "pkcs1" /\ s.pad = "pkcs1"
<1>1. AsTold(ctx, told) /\ Answer(got, due)
  BY DEF Base, Ready, ToldInv, VerifyRecover
<1>2. key.fam = "rsa" => ctx.pad = PadOf(told)
  BY <1>1 DEF AsTold, PadAsTold, Rsa
<1>3. got \in BOOLEAN /\ due \in BOOLEAN /\ (got <=> due)
  BY <1>2
<1> HIDE DEF got, due
<1> QED BY <1>1, <1>3, Answered

(* AnswerIsTrue: a verification answers 1 exactly for a signature over what  *)
(* was fed to it, with the digest, padding, mask and salt its program asked  *)
(* for, through any order of inits, parameters, copies and finals            *)
(* (wp_rsa_verify_pss, wp_rsa_verify_pkcs1, wp_ecdsa_verify and the others   *)
(* against the contexts their inits and settings leave).                     *)
THEOREM SpecAnswerIsTrue ==
  ASSUME Habits = {}
  PROVE  Spec => []AnswerIsTrue
<1>1. Init => AnswerIsTrue
  BY DEF Init, AnswerIsTrue
<1>2. Base /\ ToldInv /\ AnswerIsTrue /\ [Next]_vars => AnswerIsTrue'
  <2> SUFFICES ASSUME Base, ToldInv, AnswerIsTrue, [Next]_vars PROVE AnswerIsTrue'
    OBVIOUS
  <2>1. ASSUME Unanswered PROVE AnswerIsTrue'
    BY <2>1 DEF Unanswered, AnswerIsTrue
  <2>2. ASSUME result' = result PROVE AnswerIsTrue'
    BY <2>2 DEF AnswerIsTrue
  <2>3. CASE \/ \E op \in {"sign", "verify"}, m \in Md \cup {""}, g \in Givens :
                  DigestInit(op, m, g)
             \/ \E m \in Md \cup {""} : DigestReinit(m)
             \/ \E op \in {"sign", "verify", "recover"}, g \in Givens : RawInit(op, g)
    BY <2>1, <2>3 DEF DigestInit, DigestReinit, RawInit
  <2>4. CASE \/ \E s \in Settings : Set(s)
             \/ Update \/ Copy
             \/ \E own \in BOOLEAN : DigestSignFinal(own)
             \/ \E t \in Tbs : RawSign(t)
             \/ UNCHANGED vars
    BY <2>2, <2>4 DEF Set, Update, Copy, DigestSignFinal, RawSign, vars
  <2>5. ASSUME NEW own \in BOOLEAN, NEW s \in Known, DigestVerifyFinal(own, s)
        PROVE  AnswerIsTrue'
    BY <2>5, DigestAnswered
  <2>6. ASSUME NEW s \in Known, NEW t \in Tbs, RawVerify(s, t) PROVE AnswerIsTrue'
    BY <2>6, RawAnswered
  <2>7. ASSUME NEW s \in Known, VerifyRecover(s) PROVE AnswerIsTrue'
    BY <2>7, RecoverAnswered
  <2> QED BY <2>3, <2>4, <2>5, <2>6, <2>7 DEF Next
<1> QED BY <1>1, <1>2, SpecBase, SpecTold, PTL DEF Spec

------------------------------------------------------------------------------
(* A signature and what was asked for.                                       *)
Sha1Apart == Sha1NotHeld /\ (Fips \/ "SHA-1" \notin Md)
NoSha1Told == "SHA-1" \notin Md => told.md # "SHA-1"

LEMMA TypeNotSha1 ==
  ASSUME Base, ToldInv, FipsInv, NoSha1Told, Sha1Apart, told.op = "sign"
  PROVE  ctx.type # "SHA-1"
<1>1. ctx.op = "sign" /\ AsTold(ctx, told) /\ key \in Keys
  BY DEF Base, Typed, Ready, ToldInv
<1>2. CASE Fips
  BY <1>1, <1>2 DEF FipsInv, Clean
<1>3. CASE ~Fips /\ key.fam # "ecx"
  <2>1. told.md # "SHA-1" /\ ctx.type = MdTold(told)
    BY <1>1, <1>3 DEF AsTold, NoSha1Told, Sha1Apart
  <2>2. Held => Default(key.md) # "SHA-1"
    BY <1>1 DEF Sha1Apart, Sha1NotHeld, Held, Default
  <2> QED BY <2>1, <2>2 DEF MdTold
<1>4. CASE key.fam = "ecx"
  BY <1>1, <1>4 DEF AsTold
<1> QED BY <1>2, <1>3, <1>4

LEMMA MdGivenNoSha1 ==
  ASSUME "SHA-1" \notin Md, NEW g \in Givens, NEW m, m # "SHA-1"
  PROVE  MdGiven(m, g) # "SHA-1"
<1>1. g # <<>> /\ g[1].what = "md" => g[1].to \in Md
  BY DEF Givens, Settings
<1> QED BY <1>1 DEF MdGiven

LEMMA NextNoSha1 ==
  ASSUME Habits = {}, Sha1NotHeld
  PROVE  Base /\ ToldInv /\ NoSha1Told /\ [Next]_vars => NoSha1Told'
<1> SUFFICES ASSUME Base, ToldInv, NoSha1Told, [Next]_vars, "SHA-1" \notin Md
             PROVE  told'.md # "SHA-1"
  BY DEF NoSha1Told
<1>0. /\ Typed /\ told.md # "SHA-1" /\ Nothing.md # "SHA-1"
  BY Fresh DEF Base, NoSha1Told
<1>1. ASSUME NEW op \in {"sign", "verify"}, NEW m \in Md \cup {""}, NEW g \in Givens,
             DigestInit(op, m, g)
      PROVE  told'.md # "SHA-1"
  <2>1. MdGiven(m, g) # "SHA-1"
    BY MdGivenNoSha1
  <2> QED BY <1>0, <1>1, <2>1, DigestInitBase DEF Begun
<1>2. ASSUME NEW m \in Md \cup {""}, DigestReinit(m) PROVE told'.md # "SHA-1"
  <2> DEFINE named == IF m = "" THEN ctx.name ELSE m
  <2>1. AsTold(ctx, told) /\ key \in Keys /\ told.way = "digest"
    BY <1>0, <1>2 DEF ToldInv, DigestReinit, Typed
  <2>2. ctx.name = NameOf(ctx.type) /\ ctx.type = MdTold(told)
    BY <2>1 DEF AsTold
  <2>3. Held => Default(key.md) # "SHA-1"
    BY <2>1 DEF Sha1NotHeld, Held, Default
  <2>4. named # "SHA-1"
    BY <1>0, <2>2, <2>3 DEF NameOf, MdTold
  <2> HIDE DEF named
  <2>5. MdGiven(named, <<>>) # "SHA-1"
    BY <2>4 DEF MdGiven
  <2> QED BY <1>0, <1>2, <2>5, DigestReinitBase DEF Begun, named
<1>3. ASSUME NEW op \in {"sign", "verify", "recover"}, NEW g \in Givens, RawInit(op, g)
      PROVE  told'.md # "SHA-1"
  <2>1. MdGiven("", g) # "SHA-1"
    BY MdGivenNoSha1
  <2> QED BY <1>0, <1>3, <2>1, RawInitBase DEF Begun
<1>4. ASSUME NEW s \in Settings, Set(s) PROVE told'.md # "SHA-1"
  <2>1. s.what = "md" => s.to \in Md
    BY DEF Settings
  <2>2. Settable(s) /\ (Keep(s) \/ told' = Nothing \/ told' = told)
    BY <1>4, SetBase
  <2>3. Keep(s) => told'.md = IF s.what = "md" THEN s.to ELSE told.md
    BY <1>0, <2>2, KeepDoes
  <2> QED BY <1>0, <2>1, <2>2, <2>3
<1>5. CASE Update
  <2>1. told' = [told EXCEPT !.data = Append(told.data, <<Len(sigs), Len(told.data) + 1>>)]
    BY <1>5, UpdateBase
  <2>2. told'.md = told.md
    BY <1>0, <2>1 DEF Typed, Wishes
  <2> QED BY <1>0, <2>2
<1>6. CASE Copy
  BY <1>0, <1>6, CopyBase
<1>7. CASE \/ \E own \in BOOLEAN : DigestSignFinal(own)
           \/ \E own \in BOOLEAN, s \in Known : DigestVerifyFinal(own, s)
  <2>1. PICK own \in BOOLEAN : Finalised(own)
    BY <1>7 DEF DigestSignFinal, DigestVerifyFinal
  <2> QED BY <1>0, <2>1, FinalisedDoes
<1>8. CASE \/ \E t \in Tbs : RawSign(t)
           \/ \E s \in Known, t \in Tbs : RawVerify(s, t)
           \/ \E s \in Known : VerifyRecover(s)
  BY <1>0, <1>8 DEF RawSign, RawVerify, VerifyRecover, Freed
<1>9. CASE UNCHANGED vars
  BY <1>0, <1>9 DEF vars
<1> QED BY <1>1, <1>2, <1>3, <1>4, <1>5, <1>6, <1>7, <1>8, <1>9 DEF Next

(* What SignedAsAsked says of one signature. *)
AsAsked(w, s, id) ==
  /\ AskedFor(w, s, IF w.way = "digest" THEN Digest(MdOf(w), w.data) ELSE s.tbs)
  /\ s.pad = "pss" /\ s.salt \in 1 .. 255 => id = IdOf(s)
  /\ s.pad \in {"pkcs1", "ecdsa"} /\ w.way = "digest" /\ id.md # "" => id = IdOf(s)

LEMMA SignedAsAskedIs ==
  SignedAsAsked <=> \A i \in 1 .. Len(sigs) : AsAsked(sigs[i].want, sigs[i].sig, sigs[i].id)
BY DEF SignedAsAsked, AsAsked

LEMMA AsAskedNext ==
  ASSUME key' = key,
         \A i \in 1 .. Len(sigs') : AsAsked(sigs'[i].want, sigs'[i].sig, sigs'[i].id)
  PROVE  SignedAsAsked'
<1>1. Rsa' = Rsa
  BY DEF Rsa
<1>2. \A w : PadOf(w)' = PadOf(w) /\ MdOf(w)' = MdOf(w)
  BY <1>1 DEF PadOf, MdOf
<1>3. \A w : MgfOf(w)' = MgfOf(w)
  BY <1>2 DEF MgfOf
<1>4. \A w, n : SaltOf(w, n)' <=> SaltOf(w, n)
  BY <1>2 DEF SaltOf
<1> QED BY <1>2, <1>3, <1>4 DEF SignedAsAsked, AsAsked, AskedFor

LEMMA AsAskedMade ==
  ASSUME Base, SignedAsAsked, NEW s, Made(s), key' = key, s # NoSig => s \in Signatures,
         s # NoSig => AsAsked(told, s, AlgId(ctx))
  PROVE  SignedAsAsked'
<1>1. \A i \in 1 .. Len(sigs') :
        \/ i \in 1 .. Len(sigs) /\ sigs'[i] = sigs[i]
        \/ s # NoSig /\ sigs'[i].sig = s /\ sigs'[i].want = told /\ sigs'[i].id = AlgId(ctx)
  BY MadeDoes DEF Base
<1>2. \A i \in 1 .. Len(sigs) : AsAsked(sigs[i].want, sigs[i].sig, sigs[i].id)
  BY SignedAsAskedIs
<1>3. ASSUME NEW i \in 1 .. Len(sigs')
      PROVE  AsAsked(sigs'[i].want, sigs'[i].sig, sigs'[i].id)
  BY <1>1, <1>2
<1> QED BY <1>3, AsAskedNext

LEMMA DupAlgId ==
  ASSUME Typed, NEW c \in Contexts, key.fam # "ecx"
  PROVE  AlgId(DupCtx(c)) = AlgId(c)
<1> DEFINE d == DupCtx(c)
<1>1. /\ d.name = c.name
      /\ Rsa => d.pad = c.pad /\ d.salt = c.salt /\ d.mgfName = c.mgfName
  BY DupDoes
<1> HIDE DEF d
<1>2. Rsa => PssEncodeAlgId(d) = PssEncodeAlgId(c)
  BY <1>1 DEF PssEncodeAlgId
<1>3. Rsa => RsaGetAlgId(d) = RsaGetAlgId(c)
  BY <1>1, <1>2 DEF RsaGetAlgId
<1>4. EcdsaGetAlgId(d) = EcdsaGetAlgId(c)
  BY <1>1 DEF EcdsaGetAlgId
<1>5. AlgId(d) = AlgId(c)
  BY <1>3, <1>4 DEF AlgId
<1> QED BY <1>5 DEF d

LEMMA SignedInTime ==
  ASSUME Base, ToldInv, FipsInv, NoSha1Told, Sha1Apart, SignedAsAsked,
         NEW own \in BOOLEAN, DigestSignFinal(own)
  PROVE  SignedAsAsked'
<1> DEFINE d == IF own THEN ctx ELSE DupCtx(ctx)
           t == Digest(d.type, d.fed)
           s == Sign(d, t)
<1>1. /\ t \in ToBeSigned /\ t.md = d.type
      /\ s # NoSig => SignedOf(d, t, s)
  BY DigestSigned
<1>2. /\ Typed /\ Made(s) /\ key' = key /\ told.op = "sign" /\ told.way = "digest"
      /\ ctx.type # "none" /\ ctx \in Contexts /\ told \in Wishes
  BY DEF DigestSignFinal, Base, Typed
<1>3. d \in Contexts /\ AsTold(d, told) /\ d.fed = told.data /\ d.type = ctx.type
  BY <1>2, SignerAsTold
<1>4. ctx.type # "SHA-1"
  BY <1>2, TypeNotSha1
<1>5. key.fam # "ecx"
  BY <1>2, <1>3 DEF AsTold
<1>6. AlgId(d) = AlgId(ctx)
  BY <1>2, <1>5, DupAlgId
<1>7. MdOf(told) = d.type
  BY <1>2, <1>3, <1>5, MdOfIs DEF AsTold
<1>8. t = Digest(MdOf(told), told.data)
  BY <1>3, <1>7
<1> HIDE DEF d, t, s
<1>9. ASSUME s # NoSig PROVE AsAsked(told, s, AlgId(ctx))
  <2>1. SignedOf(d, t, s) /\ t.md # "none"
    BY <1>1, <1>2, <1>3, <1>9
  <2>2. AskedFor(told, s, t)
    BY <1>1, <1>2, <1>3, <2>1, SignedAskedFor
  <2>3. /\ s.pad = "pss" /\ s.salt \in 1 .. 255 => AlgId(ctx) = IdOf(s)
        /\ s.pad \in {"pkcs1", "ecdsa"} /\ AlgId(ctx).md # "" => AlgId(ctx) = IdOf(s)
    <3>1. d.type # "SHA-1"
      BY <1>3, <1>4
    <3> QED BY <1>1, <1>2, <1>3, <1>6, <2>1, <3>1, IdAsTold
  <2> QED BY <1>2, <1>8, <2>2, <2>3 DEF AsAsked
<1>10. s # NoSig => s \in Signatures
  BY <1>1 DEF SignedOf
<1> QED BY <1>2, <1>9, <1>10, AsAskedMade

LEMMA SignedAtOnce ==
  ASSUME Base, ToldInv, FipsInv, NoSha1Told, Sha1Apart, SignedAsAsked,
         NEW t \in Tbs, RawSign(t)
  PROVE  SignedAsAsked'
<1> DEFINE s == Sign(ctx, t)
<1>1. s # NoSig => SignedOf(ctx, t, s)
  BY RawSigned
<1>2. /\ Typed /\ Made(s) /\ key' = key /\ told.op = "sign" /\ told.way = "raw"
      /\ ctx \in Contexts /\ told \in Wishes /\ AsTold(ctx, told)
  BY DEF RawSign, Base, Typed, Ready, ToldInv
<1>3. ctx.type # "SHA-1"
  BY <1>2, TypeNotSha1
<1>4. t \in ToBeSigned /\ t.md # "none"
  <2>1. t.md # "none"
    BY ConstantsTyped DEF Tbs, Digest, RawBlock, MdAll
  <2> QED BY <2>1, TbsTyped
<1> HIDE DEF s
<1>5. ASSUME s # NoSig PROVE AsAsked(told, s, AlgId(ctx))
  <2>1. SignedOf(ctx, t, s) /\ s.tbs = t
    BY <1>1, <1>5 DEF SignedOf
  <2>2. AskedFor(told, s, t)
    BY <1>2, <1>4, <2>1, SignedAskedFor
  <2>3. s.pad = "pss" /\ s.salt \in 1 .. 255 => AlgId(ctx) = IdOf(s)
    BY <1>2, <1>3, <1>4, <2>1, IdAsTold
  <2> QED BY <1>2, <2>1, <2>2, <2>3 DEF AsAsked
<1>6. s # NoSig => s \in Signatures
  BY <1>1 DEF SignedOf
<1> QED BY <1>2, <1>5, <1>6, AsAskedMade

LEMMA NextSigned ==
  ASSUME Sha1Apart
  PROVE  Base /\ ToldInv /\ FipsInv /\ NoSha1Told /\ SignedAsAsked /\ [Next]_vars
           => SignedAsAsked'
<1> SUFFICES ASSUME Base, ToldInv, FipsInv, NoSha1Told, SignedAsAsked, [Next]_vars
             PROVE  SignedAsAsked'
  OBVIOUS
<1>1. ASSUME key' = key, sigs' = sigs PROVE SignedAsAsked'
  <2>1. \A i \in 1 .. Len(sigs) : AsAsked(sigs[i].want, sigs[i].sig, sigs[i].id)
    BY SignedAsAskedIs
  <2> QED BY <1>1, <2>1, AsAskedNext
<1>2. ASSUME NEW own \in BOOLEAN, DigestSignFinal(own) PROVE SignedAsAsked'
  BY <1>2, SignedInTime
<1>3. ASSUME NEW t \in Tbs, RawSign(t) PROVE SignedAsAsked'
  BY <1>3, SignedAtOnce
<1>4. CASE \/ \E op \in {"sign", "verify"}, m \in Md \cup {""}, g \in Givens :
                DigestInit(op, m, g)
           \/ \E m \in Md \cup {""} : DigestReinit(m)
           \/ \E op \in {"sign", "verify", "recover"}, g \in Givens : RawInit(op, g)
           \/ \E s \in Settings : Set(s)
           \/ Update \/ Copy
  <2>1. key' = key /\ sigs' = sigs
    BY <1>4 DEF DigestInit, DigestReinit, RawInit, Set, Update, Copy
  <2> QED BY <1>1, <2>1
<1>5. CASE \/ \E own \in BOOLEAN, s \in Known : DigestVerifyFinal(own, s)
           \/ \E s \in Known, t \in Tbs : RawVerify(s, t)
           \/ \E s \in Known : VerifyRecover(s)
  <2>1. key' = key /\ sigs' = sigs
    BY <1>5, VerifyBase
  <2> QED BY <1>1, <2>1
<1>6. CASE UNCHANGED vars
  BY <1>1, <1>6 DEF vars
<1> QED BY <1>2, <1>3, <1>4, <1>5, <1>6 DEF Next

(* SignedAsAsked: a signature covers exactly what was fed to its context,    *)
(* with the digest, padding, mask and salt its program asked for or the      *)
(* defaults of the key, and the algorithm identifier the context reports     *)
(* says so (wp_pss_encode_alg_id and the tables of the others), through any  *)
(* order of inits, parameters, copies and finals.                            *)
THEOREM SpecSignedAsAsked ==
  ASSUME Habits = {}, Sha1Apart
  PROVE  Spec => []SignedAsAsked
<1>1. Init => NoSha1Told /\ SignedAsAsked
  <2>1. ASSUME Init PROVE NoSha1Told /\ SignedAsAsked
    <3>1. Len(sigs) = 0
      BY <2>1 DEF Init
    <3>2. \A i \in 1 .. Len(sigs) : FALSE
      BY <3>1
    <3>3. told.md = ""
      BY <2>1, Fresh DEF Init
    <3> QED BY <3>2, <3>3 DEF NoSha1Told, SignedAsAsked
  <2> QED BY <2>1
<1>2. Base /\ ToldInv /\ NoSha1Told /\ [Next]_vars => NoSha1Told'
  BY NextNoSha1 DEF Sha1Apart
<1>3. Base /\ ToldInv /\ FipsInv /\ NoSha1Told /\ SignedAsAsked /\ [Next]_vars
        => SignedAsAsked'
  BY NextSigned
<1>4. Spec => []FipsInv
  BY SpecFipsInv DEF Sha1Apart
<1> QED BY <1>1, <1>2, <1>3, <1>4, SpecBase, SpecTold, PTL DEF Spec
==============================================================================
