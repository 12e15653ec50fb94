------------------------------ MODULE WpKeyMgmt ------------------------------
(***************************************************************************)
(* What the key objects hold: import, export, generation, duplication and  *)
(* comparison in wp_rsa_kmgmt.c, wp_ecc_kmgmt.c, wp_ecx_kmgmt.c and        *)
(* wp_dh_kmgmt.c.  Their reference counts are WpKeyRef.                    *)
(*                                                                         *)
(* A number of a key is the material it belongs to.  A private part is its *)
(* material and its form, for X25519 and X448 clear and set bits of what   *)
(* they are given.                                                         *)
(***************************************************************************)
EXTENDS Naturals

CONSTANTS
  Families,      \* those the runs look at
  Slot,          \* EVP_PKEYs of a program
  NoKey,
  Mat, None,     \* key material
  Grp, NoGrp,    \* curves and DH groups; names
  Own,           \* DH parameters that no name stands for
  BadName,       \* a name the tables of groups do not have
  Other,         \* PSS restrictions; the ECDH cofactor
  NoOther,
  PssDefaults,   \* SHA-1 with 20 bytes of salt
  AutoPublic,    \* built for OpenSSL 4: EC computes a missing public key
  Uses           \* pairs of a family and something programs do with its keys

Family == {"rsa", "pss", "ec", "x", "ed", "dh"}
Use == {"bare_private", "bare_pair", "dup_public", "dup_private",
        "copy_parameters", "template", "explicit", "named_params",
        "unrestricted", "generate"}

Form == {"given", "clamped"}
Priv == Mat \X Form

Keys == [id : Grp \cup {NoGrp}, p : Grp \cup Own \cup {NoGrp}, pub : Mat \cup {None},
         priv : Priv \cup {None}, hasPub : BOOLEAN, hasPriv : BOOLEAN,
         other : Other \cup {PssDefaults, NoOther}, pssDefSet : BOOLEAN,
         clamped : BOOLEAN, unclamped : Form]

(* What import takes and export hands out. *)
Handed == [grp : Grp \cup {NoGrp, BadName}, p : Grp \cup Own \cup {NoGrp},
           pub : Mat \cup {None}, priv : Priv \cup {None}, other : Other \cup {PssDefaults, NoOther}]

ASSUME KeyMgmtAssumption ==
  /\ Families \subseteq Family /\ Uses \subseteq Family \X Use
  /\ NoKey \notin Slot \cup Keys \cup Handed /\ None \notin Mat \cup Priv
  /\ Grp \cap Own = {} /\ {NoGrp, BadName} \cap (Grp \cup Own) = {} /\ NoGrp # BadName
  /\ PssDefaults \notin Other /\ NoOther \notin Other \cup {PssDefaults}
  /\ AutoPublic \in BOOLEAN

VARIABLES
  fam,     \* the family of the keys
  keys,    \* the key objects: wp_Rsa, wp_Ecc, wp_Ecx, wp_Dh
  said     \* the parts each ought to have, from what the program asked

vars == <<fam, keys, said>>

(* Selections, as libcrypto makes them. *)
Params == {"domain", "other"}
Public == Params \cup {"pub"}
KeyPair == Public \cup {"priv"}
Pair == {"pub", "priv"}

Blank == [id |-> NoGrp, p |-> NoGrp, pub |-> None, priv |-> None, hasPub |-> FALSE,
          hasPriv |-> FALSE, other |-> NoOther, pssDefSet |-> FALSE,
          clamped |-> FALSE, unclamped |-> "given"]

(* Every field of a key is within its type, and so is what is said of it. *)
TypeOK ==
  /\ fam \in Families
  /\ keys \in [Slot -> Keys \cup {NoKey}]
  /\ said \in [Slot -> [grp : Grp \cup Own \cup {NoGrp, BadName}, pub : Mat \cup {None},
                        priv : Priv \cup {None},
                        other : Other \cup {PssDefaults, NoOther}] \cup {NoKey}]

Init ==
  /\ fam \in Families
  /\ keys = [s \in Slot |-> NoKey] /\ said = [s \in Slot |-> NoKey]

Rsa == fam \in {"rsa", "pss"}
Ecx == fam \in {"x", "ed"}
Does(use) == <<fam, use>> \in Uses

------------------------------------------------------------------------------
(* wp_*_has *)
Flagged(k, sel) == ("pub" \in sel => k.hasPub) /\ ("priv" \in sel => k.hasPriv)
EcHas(k, sel) == Flagged(k, sel) /\ ("domain" \in sel => k.id # NoGrp)
DhHas(k, sel) ==
  /\ "pub" \in sel => k.pub # None
  /\ "priv" \in sel => k.priv # None
  /\ "domain" \in sel => k.id # NoGrp \/ k.p # NoGrp
Has(k, sel) ==
  CASE Rsa \/ Ecx -> Flagged(k, sel)
    [] fam = "ec" -> EcHas(k, sel) [] fam = "dh" -> DhHas(k, sel)

(* exportPub of wp_EcxData: computed from the private key when not set. *)
EcxPub(k) == IF k.pub # None THEN k.pub ELSE IF k.priv # None THEN k.priv[1] ELSE None

(* wp_*_match.  A private key is compared when no public one was; the RSA    *)
(* exponent, always the same number, whatever is selected.                   *)
RsaMatch(a, b, sel) ==
  /\ (a.pub = None) = (b.pub = None)
  /\ "pub" \in sel => a.pub = b.pub
  /\ "priv" \in sel /\ "pub" \notin sel => a.priv = b.priv
EcMatch(a, b, sel) ==
  /\ "domain" \in sel => a.id = b.id
  /\ "pub" \in sel => a.pub = b.pub
  /\ "priv" \in sel /\ "pub" \notin sel => a.priv = b.priv
EcxMatch(a, b, sel) ==
  /\ "priv" \in sel => a.hasPriv /\ b.hasPriv /\ a.priv = b.priv
  /\ "pub" \in sel => a.hasPub /\ b.hasPub /\ EcxPub(a) = EcxPub(b)
DhMatchNames(a, b, sel) ==
  /\ "pub" \in sel => a.pub = b.pub
  /\ "priv" \in sel => a.priv = b.priv
  /\ "domain" \in sel => a.id = b.id
DhMatch(a, b, sel) ==
  /\ "pub" \in sel => a.pub = b.pub
  /\ "priv" \in sel => a.priv = b.priv
  /\ "domain" \in sel => a.id = b.id /\ (a.id = NoGrp => a.p = b.p)
Match(a, b, sel) ==
  CASE Rsa -> RsaMatch(a, b, sel) [] Ecx -> EcxMatch(a, b, sel)
    [] fam = "ec" -> EcMatch(a, b, sel) [] fam = "dh" -> DhMatch(a, b, sel)

------------------------------------------------------------------------------
(* wp_*_import into a new key; NoKey when refused.  Of the parameters, those *)
(* not given are None, NoGrp, NoOther.                                       *)
PssSetParams(k, other) ==
  [k EXCEPT !.pssDefSet = TRUE,
            !.other = IF other = NoOther THEN PssDefaults ELSE other]
RsaImport(sel, par) ==
  LET numbers == [Blank EXCEPT !.pub = par.pub, !.priv = par.priv]
      pss == IF fam = "pss" /\ "other" \in sel THEN PssSetParams(numbers, par.other)
             ELSE numbers
  IN IF sel \cap Pair # {} /\ par.pub = None THEN NoKey
     ELSE [pss EXCEPT !.hasPub = "pub" \in sel, !.hasPriv = "priv" \in sel]

(* A curve that is not in the table is refused. *)
EcGroup(k, name) ==
  IF name = NoGrp THEN k ELSE IF name \in Grp THEN [k EXCEPT !.id = name] ELSE NoKey

EcSetPub(k, m) == [k EXCEPT !.pub = m, !.hasPub = TRUE]
EcKeyPair(k, sel, par) ==
  LET pub == IF par.pub # None THEN EcSetPub(k, par.pub) ELSE k
      priv == IF "priv" \in sel /\ par.priv # None
              THEN [pub EXCEPT !.priv = par.priv, !.hasPriv = TRUE] ELSE pub
  IN IF AutoPublic /\ priv.hasPriv /\ ~priv.hasPub /\ priv.id # NoGrp
     THEN EcSetPub(priv, priv.priv[1]) ELSE priv
EcImport(sel, par) ==
  LET k == EcGroup(Blank, par.grp)
      pair == IF sel \cap Pair # {} THEN EcKeyPair(k, sel, par) ELSE k
  IN IF "domain" \notin sel \/ k = NoKey THEN NoKey
     ELSE IF "other" \in sel THEN [pair EXCEPT !.other = par.other] ELSE pair

(* The bits that wolfCrypt changes in the key it stores are kept beside it.  *)
Stored(v) == IF fam = "x" THEN <<v[1], "clamped">> ELSE v
EcxSetPub(k, m) == [k EXCEPT !.pub = m, !.hasPub = TRUE]
EcxImport(sel, par) ==
  LET priv == IF "priv" \in sel /\ par.priv # None
              THEN [Blank EXCEPT !.priv = Stored(par.priv), !.unclamped = par.priv[2],
                                 !.clamped = TRUE, !.hasPriv = TRUE, !.hasPub = TRUE]
              ELSE Blank
      k == IF "pub" \in sel /\ par.pub # None THEN EcxSetPub(priv, par.pub) ELSE priv
  IN IF k.hasPub THEN k ELSE NoKey

DhGroup(k, name) ==
  IF name \in Grp THEN [k EXCEPT !.id = name, !.p = name] ELSE NoKey
DhImport(sel, par) ==
  LET g == IF sel \cap Params = {} THEN Blank
           ELSE IF par.grp # NoGrp THEN DhGroup(Blank, par.grp)
           ELSE [Blank EXCEPT !.p = par.p]
  IN IF g = NoKey THEN NoKey
     ELSE [g EXCEPT !.pub = IF sel \cap Pair # {} THEN par.pub ELSE None,
                    !.priv = IF "priv" \in sel THEN par.priv ELSE None]

Import(sel, par) ==
  CASE Rsa -> RsaImport(sel, par) [] Ecx -> EcxImport(sel, par)
    [] fam = "ec" -> EcImport(sel, par) [] fam = "dh" -> DhImport(sel, par)

------------------------------------------------------------------------------
(* wp_*_export: the parameters handed out, NoKey when refused.               *)
Nothing == [grp |-> NoGrp, p |-> NoGrp, pub |-> None, priv |-> None, other |-> NoOther]

RsaExport(k, sel) ==
  IF sel \cap (Pair \cup {"other"}) = {} THEN NoKey
  ELSE [Nothing EXCEPT
          !.pub = IF sel \cap Pair # {} THEN k.pub ELSE None,
          !.priv = IF "priv" \in sel THEN k.priv ELSE None,
          !.other = IF "other" \in sel /\ fam = "pss" /\ k.pssDefSet
                    THEN k.other ELSE NoOther]

EcExport(k, sel) ==
  IF \/ "domain" \notin sel
     \/ "priv" \in sel /\ "pub" \notin sel
     \/ "other" \in sel /\ sel \cap Pair = {}
     \/ sel \cap Pair # {} /\ k.pub = None
  THEN NoKey
  ELSE [Nothing EXCEPT
          !.grp = k.id,
          !.pub = IF sel \cap Pair # {} THEN k.pub ELSE None,
          !.priv = IF "priv" \in sel THEN k.priv ELSE None,
          !.other = IF "other" \in sel THEN k.other ELSE NoOther]

EcxPrivStored(k) == k.priv
EcxPriv(k) == IF k.clamped /\ k.priv # None THEN <<k.priv[1], k.unclamped>> ELSE k.priv
EcxExport(k, sel) ==
  [Nothing EXCEPT !.pub = EcxPub(k), !.priv = IF "priv" \in sel THEN EcxPriv(k) ELSE None]

DhExportNumbers(k, sel) ==
  [Nothing EXCEPT !.p = IF sel \cap Params # {} THEN k.p ELSE NoGrp,
                  !.pub = k.pub, !.priv = k.priv]
(* The key pair goes with whatever is selected. *)
DhExport(k, sel) ==
  [Nothing EXCEPT
     !.grp = IF sel \cap Params # {} THEN k.id ELSE NoGrp,
     !.p = IF sel \cap Params # {} /\ k.id = NoGrp THEN k.p ELSE NoGrp,
     !.pub = k.pub, !.priv = k.priv]

Export(k, sel) ==
  CASE Rsa -> RsaExport(k, sel) [] Ecx -> EcxExport(k, sel)
    [] fam = "ec" -> EcExport(k, sel) [] fam = "dh" -> DhExport(k, sel)

------------------------------------------------------------------------------
(* wp_*_dup *)
RsaDup(k, sel) ==
  IF sel \cap Pair = {} THEN NoKey
  ELSE [k EXCEPT !.priv = IF "priv" \in sel THEN @ ELSE None,
                 !.hasPub = TRUE, !.hasPriv = "priv" \in sel]

EcDupClaims(k, sel) ==
  [Blank EXCEPT !.id = IF "domain" \in sel THEN k.id ELSE NoGrp,
                !.pub = IF "pub" \in sel THEN k.pub ELSE None,
                !.hasPub = "pub" \in sel,
                !.priv = IF "priv" \in sel THEN k.priv ELSE None,
                !.hasPriv = "priv" \in sel,
                !.other = IF "other" \in sel THEN k.other ELSE NoOther]
EcDup(k, sel) ==
  LET pub == k.hasPub /\ "pub" \in sel
      priv == k.hasPriv /\ "priv" \in sel
  IN [Blank EXCEPT !.id = IF "domain" \in sel THEN k.id ELSE NoGrp,
                   !.pub = IF pub THEN k.pub ELSE None, !.hasPub = pub,
                   !.priv = IF priv THEN k.priv ELSE None, !.hasPriv = priv,
                   !.other = IF "other" \in sel THEN k.other ELSE NoOther]

EcxDup(k, sel) == [k EXCEPT !.clamped = FALSE, !.unclamped = "given"]

DhDup(k, sel) ==
  IF \/ sel \cap Pair # {} /\ "domain" \notin sel
     \/ "pub" \in sel /\ k.pub = None
     \/ "priv" \in sel /\ k.priv = None
  THEN NoKey
  ELSE [Blank EXCEPT !.id = IF "domain" \in sel THEN k.id ELSE NoGrp,
                     !.p = IF "domain" \in sel THEN k.p ELSE NoGrp,
                     !.pub = IF "pub" \in sel THEN k.pub ELSE None,
                     !.priv = IF "priv" \in sel THEN k.priv ELSE None]

Dup(k, sel) ==
  CASE Rsa -> RsaDup(k, sel) [] Ecx -> EcxDup(k, sel)
    [] fam = "ec" -> EcDup(k, sel) [] fam = "dh" -> DhDup(k, sel)

------------------------------------------------------------------------------
(* wp_*_gen with what gen_init, gen_set_params and the template have put into *)
(* the context: a selection, the name of a group, the other parameters, a key *)
(* whose group is wanted.  m and p are what wolfCrypt comes up with.          *)
NewPair(k, m) ==
  [k EXCEPT !.pub = m, !.priv = Stored(<<m, "given">>), !.hasPub = TRUE, !.hasPriv = TRUE]

(* The restrictions go into an RSA-PSS key, but not that they are set.       *)
RsaGen(sel, other, m) ==
  IF sel \cap Pair = {} THEN NoKey ELSE [NewPair(Blank, m) EXCEPT !.other = other]

EcGen(sel, name, other, from, m) ==
  LET asked == IF from # NoKey THEN from.id ELSE name
      k == EcGroup(Blank, asked)
  IN IF asked = NoGrp \/ k = NoKey THEN NoKey
     ELSE IF sel \cap Pair # {} THEN [NewPair(k, m) EXCEPT !.other = other] ELSE k

EcxGen(sel, m) == IF sel \cap Pair # {} THEN NewPair(Blank, m) ELSE Blank

(* New parameters when parameters are selected, whatever the name; those of  *)
(* a template without its name.                                              *)
DhGenGroup(sel, name, from, p) ==
  IF "domain" \in sel THEN [Blank EXCEPT !.p = p]
  ELSE IF from # NoKey THEN [Blank EXCEPT !.p = from.p]
  ELSE DhGroup(Blank, name)
DhGenPair(k, m) == [k EXCEPT !.pub = m, !.priv = <<m, "given">>]
DhGen(sel, name, from, m, p) ==
  LET k == DhGenGroup(sel, name, from, p)
  IN IF k = NoKey \/ sel \cap Pair = {} THEN k ELSE DhGenPair(k, m)

Gen(sel, name, other, from, m, p) ==
  CASE Rsa -> RsaGen(sel, other, m) [] Ecx -> EcxGen(sel, m)
    [] fam = "ec" -> EcGen(sel, name, other, from, m)
    [] fam = "dh" -> DhGen(sel, name, from, m, p)

------------------------------------------------------------------------------
(* What programs do; Uses names what they do beyond.                         *)

Live == {s \in Slot : keys[s] # NoKey}

NewKey(s, k, parts) ==
  /\ s \notin Live /\ k # NoKey
  /\ keys' = [keys EXCEPT ![s] = k]
  /\ said' = [said EXCEPT ![s] = parts]
  /\ UNCHANGED fam

(* The parameters a program hands to EVP_PKEY_fromdata: of one material, as  *)
(* much as the selection wants or more.                                      *)
Given(sel, m) ==
  {par \in [grp : IF fam \in {"ec", "dh"} THEN Grp \cup {BadName, NoGrp} ELSE {NoGrp},
             p : IF fam # "dh" THEN {NoGrp}
                 ELSE Own \cup {NoGrp} \cup IF Does("explicit") THEN Grp ELSE {},
             pub : {m, None}, priv : {<<m, "given">>, <<m, "clamped">>, None},
             other : IF fam \in {"ec", "pss"} THEN Other \cup {NoOther} ELSE {NoOther}] :
     /\ fam = "ec" => par.grp # NoGrp
     /\ fam = "dh" => (par.grp = NoGrp) # (par.p = NoGrp)
     /\ fam # "x" => par.priv # <<m, "clamped">>
     /\ par.priv = None /\ par.pub = None => sel \cap Pair = {}
     /\ par.pub = None /\ par.priv # None => "priv" \in sel
     /\ fam = "ec" /\ ~AutoPublic /\ par.pub = None /\ par.priv # None => Does("bare_private")
     /\ Rsa /\ par.priv = None /\ "priv" \in sel => Does("bare_pair")
     /\ fam = "pss" /\ par.other = NoOther => Does("unrestricted")}

Derives == Ecx \/ (fam = "ec" /\ AutoPublic)
Intended(sel, par) ==
  [grp |-> IF par.grp # NoGrp THEN par.grp ELSE par.p,
   priv |-> IF "priv" \in sel THEN par.priv ELSE None,
   pub |-> IF "pub" \notin sel THEN None
           ELSE IF par.pub = None /\ par.priv # None /\ Derives THEN par.priv[1] ELSE par.pub,
   other |-> par.other]

Selections == {Public, KeyPair} \cup IF fam \in {"ec", "dh"} THEN {{"domain"}} ELSE {}

ImportKey(s) ==
  \E sel \in Selections, m \in Mat : \E par \in Given(sel, m) :
    /\ sel = {"domain"} => par.other = NoOther
    /\ NewKey(s, Import(sel, par), Intended(sel, par))

(* EVP_PKEY_dup, and EVP_PKEY_copy_parameters into an empty key.             *)
DupKey(s, d) ==
  /\ s \in Live
  /\ \/ /\ Rsa /\ said[s].priv = None => Does("dup_public")
        /\ fam = "x" /\ keys[s].clamped /\ keys[s].unclamped = "given" => Does("dup_private")
        /\ NewKey(d, Dup(keys[s], KeyPair), said[s])
     \/ /\ Ecx /\ said[s].pub # None => Does("copy_parameters")
        /\ NewKey(d, Dup(keys[s], Params), [said[s] EXCEPT !.pub = None, !.priv = None])

(* EVP_PKEY_set1_encoded_public_key on the key of a peer: wp_*_set_params.   *)
SetPub(s, m) ==
  /\ s \in Live /\ ~Rsa /\ said[s].priv = None
  /\ keys' = [keys EXCEPT ![s] = CASE fam = "ec" -> EcSetPub(@, m)
                                    [] Ecx -> EcxSetPub(@, m)
                                    [] fam = "dh" -> [@ EXCEPT !.pub = m]]
  /\ said' = [said EXCEPT ![s].pub = m]
  /\ UNCHANGED fam

(* EVP_PKEY_paramgen and EVP_PKEY_keygen, with a name or from a key.         *)
GenKey(s, sel, name, other, from, m, p) ==
  LET k == Gen(sel, name, other, IF from = NoKey THEN NoKey ELSE keys[from], m, p)
      named == IF from # NoKey THEN said[from].grp ELSE name
      grp == IF fam = "dh" /\ sel = Params /\ name = NoGrp THEN p
             ELSE IF fam \in {"ec", "dh"} THEN named ELSE NoGrp
  IN /\ fam = "pss" => Does("generate")
     /\ fam \notin {"ec", "dh"} => name = NoGrp
     /\ from # NoKey => from \in Live /\ fam \in {"ec", "dh"} /\ name = NoGrp /\ sel = Pair
     /\ fam = "dh" /\ from # NoKey => keys[from].id = NoGrp \/ Does("template")
     /\ fam = "dh" /\ sel = Params /\ name # NoGrp => Does("named_params")
     /\ fam \notin {"ec", "pss"} \/ sel = Params => other = NoOther
     /\ \A t \in Live : said[t].pub # m /\ (said[t].priv # None => said[t].priv[1] # m)
                        /\ said[t].grp # p
     /\ NewKey(s, k, [grp |-> grp, pub |-> IF sel = Pair THEN m ELSE None,
                      priv |-> IF sel = Pair THEN Stored(<<m, "given">>) ELSE None,
                      other |-> other])

Free(s) ==
  /\ s \in Live
  /\ keys' = [keys EXCEPT ![s] = NoKey] /\ said' = [said EXCEPT ![s] = NoKey]
  /\ UNCHANGED fam

Next ==
  \/ \E s \in Slot : ImportKey(s) \/ Free(s)
  \/ \E s, d \in Slot : DupKey(s, d)
  \/ \E s \in Slot, m \in Mat : SetPub(s, m)
  \/ \E s \in Slot, sel \in {Params, Pair}, name \in Grp \cup {BadName, NoGrp},
       other \in Other \cup {NoOther}, from \in Slot \cup {NoKey}, m \in Mat, p \in Own :
         GenKey(s, sel, name, other, from, m, p)

Spec == Init /\ [][Next]_vars

------------------------------------------------------------------------------
Grouped == fam \in {"ec", "dh"}

(* EVP_PKEY_can_sign, the exporters and libcrypto's comparison ask a key what *)
(* it has: it has the parts it was given, made with or copied from, and only  *)
(* those.                                                                     *)
HasIsTrue ==
  \A s \in Live :
    /\ Has(keys[s], {"pub"}) <=> said[s].pub # None
    /\ Has(keys[s], {"priv"}) <=> said[s].priv # None
    /\ Grouped => (Has(keys[s], {"domain"}) <=> said[s].grp # NoGrp)

(* EVP_PKEY_eq compares the public keys when both have one, else the pairs.  *)
Equal(a, b) ==
  Match(a, b, {"domain"} \cup IF Has(a, {"pub"}) /\ Has(b, {"pub"}) THEN {"pub"} ELSE Pair)

(* EVP_PKEY_parameters_eq is true of keys in one group, EVP_PKEY_eq of keys   *)
(* in one group with the same parts, however each came about.                 *)
MatchIsTrue ==
  \A s, t \in Live :
    /\ Grouped => (Match(keys[s], keys[t], {"domain"}) <=> said[s].grp = said[t].grp)
    /\ (\A u \in {s, t} : said[u].pub # None \/ said[u].priv # None) =>
         (Equal(keys[s], keys[t]) <=>
            /\ said[s].grp = said[t].grp /\ said[s].pub = said[t].pub
            /\ said[s].pub = None => said[s].priv = said[t].priv)

(* The selections a key can answer in full. *)
Whole(s) ==
  {sel \in Selections : /\ Grouped => said[s].grp # NoGrp
                        /\ "pub" \in sel => said[s].pub # None
                        /\ "priv" \in sel => said[s].priv # None}

(* EVP_PKEY_todata and a move to another provider hand out the parts that are *)
(* selected as the program gave them, the clamped bits of X25519 and X448 and *)
(* the restrictions of PSS included, and but for DH no private key unasked.   *)
ExportIsTrue ==
  \A s \in Live : \A sel \in Whole(s) :
    LET e == Export(keys[s], sel)
    IN /\ e # NoKey
       /\ Grouped => (IF e.grp # NoGrp THEN e.grp ELSE e.p) = said[s].grp
       /\ "pub" \in sel => e.pub = said[s].pub
       /\ "priv" \in sel => e.priv = said[s].priv
       /\ "priv" \notin sel /\ fam # "dh" => e.priv = None
       /\ "other" \in sel => e.other = said[s].other

Parts(e, sel) ==
  [e EXCEPT !.pub = IF "pub" \in sel THEN @ ELSE None,
            !.priv = IF "priv" \in sel THEN @ ELSE None]

(* A key imported from what another exports cannot be told from it.          *)
RoundTrip ==
  \A s \in Live : \A sel \in Whole(s) :
    LET k == Import(sel, Export(keys[s], sel))
    IN /\ k # NoKey
       /\ \A part \in sel \cap Pair : Has(k, {part})
       /\ Parts(Export(k, sel), sel) = Parts(Export(keys[s], sel), sel)
       /\ Grouped => Match(k, keys[s], {"domain"})
       /\ "pub" \in sel => Equal(k, keys[s])
==============================================================================
