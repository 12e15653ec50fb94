--------------------------- MODULE WpKeyMgmt_proofs ---------------------------
(***************************************************************************)
(* What the keys of the four key managers hold, for any number of keys and *)
(* any material: a key has what the program gave it, and so has, match,    *)
(* export and import agree about it.  And what is loaded from a file of    *)
(* keys, through the decoders and through the file store, for any keys and *)
(* any number of pieces.                                                   *)
(***************************************************************************)
EXTENDS WpKeyMgmt, WpCodec, FiniteSetTheorems, SequenceTheorems, WellFoundedInduction, TLAPS

SaidParts == [grp : Grp \cup Own \cup {NoGrp, BadName}, pub : Mat \cup {None},
              priv : Priv \cup {None}, other : Other \cup {PssDefaults, NoOther}]

(* An RSA key has its public key, always, and its exponent when it says so; *)
(* one for PSS has its restrictions.                                        *)
RsaHolds(f, k, w) ==
  /\ k.id = NoGrp /\ w.grp = NoGrp
  /\ k.pub = w.pub /\ w.pub # None /\ k.hasPub = TRUE
  /\ k.hasPriv = (w.priv # None)
  /\ w.priv # None => k.priv = w.priv
  /\ f = "pss" => k.pssDefSet = TRUE /\ k.other = w.other /\ w.other # NoOther
  /\ f = "rsa" => w.other = NoOther

(* An EC key has a curve; a private key comes with its public key. *)
EcHolds(k, w) ==
  /\ k.id = w.grp /\ w.grp \in Grp
  /\ k.pub = w.pub /\ k.priv = w.priv /\ k.other = w.other
  /\ k.hasPub = (w.pub # None) /\ k.hasPriv = (w.priv # None)
  /\ w.priv # None => w.pub # None

(* The public key of an ECX key may still be in its private key alone, and  *)
(* the bits of the private key beside it.                                   *)
EcxHolds(f, k, w) ==
  /\ w.grp = NoGrp /\ w.other = NoOther
  /\ k.hasPub = (w.pub # None) /\ k.hasPriv = (w.priv # None)
  /\ k.priv # None <=> w.priv # None
  /\ w.pub # None => EcxPub(k) = w.pub
  /\ w.priv # None => w.pub # None /\ EcxPriv(k) = w.priv
  /\ k.clamped = TRUE /\ f = "x" => k.priv = <<k.priv[1], "clamped">>
  /\ k.clamped = TRUE /\ f = "ed" => k.priv = <<k.priv[1], k.unclamped>>

(* A DH key is in a group with a name, or has parameters that have none. *)
DhHolds(k, w) ==
  /\ \/ k.id \in Grp /\ k.p = k.id /\ w.grp = k.id
     \/ k.id = NoGrp /\ k.p \in Own /\ w.grp = k.p
  /\ k.pub = w.pub /\ k.priv = w.priv /\ w.other = NoOther

Holds(f, k, w) ==
  /\ k \in Keys /\ w \in SaidParts
  /\ f \in {"rsa", "pss"} => RsaHolds(f, k, w)
  /\ f = "ec" => EcHolds(k, w)
  /\ f \in {"x", "ed"} => EcxHolds(f, k, w)
  /\ f = "dh" => DhHolds(k, w)

(* Something is said of the keys there are. *)
SaidOfKeys == \A s \in Slot : keys[s] # NoKey => said[s] \in SaidParts

(* Every key has what is said of it. *)
Held == \A s \in Slot : keys[s] # NoKey => Holds(fam, keys[s], said[s])

IInv ==
  /\ TypeOK
  /\ SaidOfKeys
  /\ Held

------------------------------------------------------------------------------
LEMMA Distinct ==
  /\ NoKey \notin Slot /\ NoKey \notin Keys /\ NoKey \notin Handed
  /\ None \notin Mat /\ None \notin Priv
  /\ Grp \cap Own = {} /\ NoGrp \notin Grp /\ NoGrp \notin Own
  /\ BadName \notin Grp /\ BadName \notin Own /\ NoGrp # BadName
  /\ NoOther \notin Other /\ NoOther # PssDefaults
BY KeyMgmtAssumption

LEMMA FamilyCases ==
  ASSUME fam \in Families
  PROVE  fam \in {"rsa", "pss", "ec", "x", "ed", "dh"}
BY KeyMgmtAssumption DEF Family

(* The selections are those with the public key, and the group alone. *)
LEMMA SelectionsAre ==
  ASSUME NEW sel \in Selections
  PROVE  /\ "domain" \in sel
         /\ "other" \in sel <=> "pub" \in sel
         /\ "priv" \in sel => "pub" \in sel
         /\ sel \cap Pair # {} <=> "pub" \in sel
         /\ sel \cap Params # {}
         /\ "pub" \notin sel => sel = {"domain"} /\ Grouped
<1>1. CASE sel = Public
  BY <1>1 DEF Public, Params, Pair
<1>2. CASE sel = KeyPair
  BY <1>2 DEF KeyPair, Public, Params, Pair
<1>3. CASE sel = {"domain"} /\ Grouped
  BY <1>3 DEF Params, Pair
<1>q. QED  BY <1>1, <1>2, <1>3 DEF Selections, Grouped

LEMMA PrivIs ==
  ASSUME NEW v \in Priv
  PROVE  v[1] \in Mat /\ v[2] \in Form /\ v = <<v[1], v[2]>> /\ v # None
BY Distinct DEF Priv

LEMMA MadePriv ==
  ASSUME NEW m \in Mat, NEW f \in Form
  PROVE  <<m, f>> \in Priv /\ <<m, f>> # None /\ <<m, f>>[1] = m /\ <<m, f>>[2] = f
BY Distinct DEF Priv

LEMMA StoredIs ==
  ASSUME NEW v \in Priv
  PROVE  /\ Stored(v) \in Priv /\ Stored(v)[1] = v[1] /\ Stored(v) # None
         /\ fam = "x" => Stored(v) = <<v[1], "clamped">>
         /\ fam # "x" => Stored(v) = v
BY PrivIs, MadePriv DEF Stored, Form

LEMMA BlankTyped == Blank \in Keys
BY DEF Blank, Keys, Form

(* What a program hands in is of the types import takes. *)
LEMMA GivenIs ==
  ASSUME fam \in Families, NEW sel, NEW m \in Mat, NEW par \in Given(sel, m)
  PROVE  /\ par \in Handed
         /\ par.p \in Grp \cup Own \cup {NoGrp} /\ par.other \in Other \cup {NoOther}
         /\ par.pub \in {m, None}
         /\ par.priv # None => par.priv \in Priv /\ par.priv[1] = m
         /\ fam \notin {"ec", "dh"} => par.grp = NoGrp
         /\ fam # "dh" => par.p = NoGrp
         /\ fam = "ec" => par.grp # NoGrp
         /\ fam = "dh" => (par.grp = NoGrp) # (par.p = NoGrp)
         /\ par.priv = None /\ par.pub = None => sel \cap Pair = {}
         /\ par.pub = None /\ par.priv # None => "priv" \in sel
         /\ fam \notin {"ec", "pss"} => par.other = NoOther
<1>1. /\ par.grp \in Grp \cup {BadName, NoGrp}
      /\ par.p \in Grp \cup Own \cup {NoGrp}
      /\ par.pub \in {m, None}
      /\ par.priv \in {<<m, "given">>, <<m, "clamped">>, None}
      /\ par.other \in Other \cup {NoOther}
      /\ par = [grp |-> par.grp, p |-> par.p, pub |-> par.pub, priv |-> par.priv,
                other |-> par.other]
  BY DEF Given
<1>2. par.priv # None => par.priv \in Priv /\ par.priv[1] = m
  BY <1>1, MadePriv DEF Form
<1>3. par \in Handed
  BY <1>1, <1>2 DEF Handed
<1>4. /\ fam \notin {"ec", "dh"} => par.grp = NoGrp
      /\ fam # "dh" => par.p = NoGrp
      /\ fam \notin {"ec", "pss"} => par.other = NoOther
  BY DEF Given
<1>5. /\ fam = "ec" => par.grp # NoGrp
      /\ fam = "dh" => (par.grp = NoGrp) # (par.p = NoGrp)
      /\ par.priv = None /\ par.pub = None => sel \cap Pair = {}
      /\ par.pub = None /\ par.priv # None => "priv" \in sel
  BY DEF Given
<1>q. QED  BY <1>1, <1>2, <1>3, <1>4, <1>5

(* And what they do not do. *)
LEMMA PlainGiven ==
  ASSUME Uses = {}, fam \in Families, NEW sel, NEW m \in Mat, NEW par \in Given(sel, m)
  PROVE  /\ fam = "dh" => par.p \in Own \cup {NoGrp}
         /\ fam = "ec" /\ ~AutoPublic /\ par.pub = None => par.priv = None
         /\ fam \in {"rsa", "pss"} /\ "priv" \in sel => par.priv # None
         /\ fam = "pss" => par.other # NoOther
BY DEF Given, Does, Rsa

------------------------------------------------------------------------------
(* What the operations make is a key or nothing. *)
LEMMA RsaImportIs ==
  ASSUME NEW sel, NEW par \in Handed
  PROVE  LET k == RsaImport(sel, par)
             set == fam = "pss" /\ "other" \in sel
         IN \/ k = NoKey /\ sel \cap Pair # {} /\ par.pub = None
            \/ /\ k = [id |-> NoGrp, p |-> NoGrp, pub |-> par.pub, priv |-> par.priv,
                       hasPub |-> "pub" \in sel, hasPriv |-> "priv" \in sel,
                       other |-> IF ~set THEN NoOther
                                 ELSE IF par.other = NoOther THEN PssDefaults ELSE par.other,
                       pssDefSet |-> set, clamped |-> FALSE, unclamped |-> "given"]
               /\ ~(sel \cap Pair # {} /\ par.pub = None)
<1>. DEFINE set == fam = "pss" /\ "other" \in sel
<1>1. CASE sel \cap Pair # {} /\ par.pub = None
  BY <1>1 DEF RsaImport
<1>2. CASE ~(sel \cap Pair # {} /\ par.pub = None) /\ set
  BY <1>2 DEF RsaImport, PssSetParams, Blank
<1>3. CASE ~(sel \cap Pair # {} /\ par.pub = None) /\ ~set
  BY <1>3 DEF RsaImport, Blank
<1>q. QED  BY <1>1, <1>2, <1>3

LEMMA RsaImportTyped ==
  ASSUME NEW sel, NEW par \in Handed
  PROVE  /\ RsaImport(sel, par) \in Keys \cup {NoKey}
         /\ par.pub # None => RsaImport(sel, par) \in Keys
<1>1. par.pub \in Mat \cup {None} /\ par.priv \in Priv \cup {None}
      /\ par.other \in Other \cup {PssDefaults, NoOther}
  BY DEF Handed
<1>. DEFINE set == fam = "pss" /\ "other" \in sel
            o == IF ~set THEN NoOther
                 ELSE IF par.other = NoOther THEN PssDefaults ELSE par.other
<1>2. o \in Other \cup {PssDefaults, NoOther}
  BY <1>1
<1>3. set \in BOOLEAN /\ ("pub" \in sel) \in BOOLEAN /\ ("priv" \in sel) \in BOOLEAN
  OBVIOUS
<1>4. "given" \in Form /\ FALSE \in BOOLEAN
  BY DEF Form
<1>5. [id |-> NoGrp, p |-> NoGrp, pub |-> par.pub, priv |-> par.priv,
       hasPub |-> "pub" \in sel, hasPriv |-> "priv" \in sel, other |-> o,
       pssDefSet |-> set, clamped |-> FALSE, unclamped |-> "given"] \in Keys
  <2>. HIDE DEF o, set
  <2>. QED  BY <1>1, <1>2, <1>3, <1>4 DEF Keys
<1>q. QED  BY <1>5, RsaImportIs

EcPrivOf(sel, par) == IF sel \cap Pair # {} /\ "priv" \in sel THEN par.priv ELSE None
EcPubOf(sel, par) ==
  IF sel \cap Pair = {} THEN None
  ELSE IF par.pub # None THEN par.pub
  ELSE IF AutoPublic /\ "priv" \in sel /\ par.priv # None /\ par.grp # NoGrp
       THEN par.priv[1] ELSE None

LEMMA EcOfTyped ==
  ASSUME NEW sel, NEW par \in Handed
  PROVE  EcPrivOf(sel, par) \in Priv \cup {None} /\ EcPubOf(sel, par) \in Mat \cup {None}
<1>1. par.pub \in Mat \cup {None} /\ par.priv \in Priv \cup {None}
  BY DEF Handed
<1>q. QED  BY <1>1, PrivIs DEF EcPrivOf, EcPubOf

LEMMA EcKeyPairIs ==
  ASSUME NEW sel, sel \cap Pair # {}, NEW par \in Handed,
         NEW k, k = [Blank EXCEPT !.id = par.grp]
  PROVE  EcKeyPair(k, sel, par) =
           [id |-> par.grp, p |-> NoGrp, pub |-> EcPubOf(sel, par),
            priv |-> EcPrivOf(sel, par), hasPub |-> EcPubOf(sel, par) # None,
            hasPriv |-> EcPrivOf(sel, par) # None, other |-> NoOther,
            pssDefSet |-> FALSE, clamped |-> FALSE, unclamped |-> "given"]
<1>. DEFINE pub == IF par.pub # None THEN EcSetPub(k, par.pub) ELSE k
            priv == IF "priv" \in sel /\ par.priv # None
                    THEN [pub EXCEPT !.priv = par.priv, !.hasPriv = TRUE] ELSE pub
<1>1. pub = [id |-> par.grp, p |-> NoGrp, pub |-> par.pub, priv |-> None,
             hasPub |-> par.pub # None, hasPriv |-> FALSE, other |-> NoOther,
             pssDefSet |-> FALSE, clamped |-> FALSE, unclamped |-> "given"]
  <2>1. CASE par.pub # None
    BY <2>1 DEF EcSetPub, Blank
  <2>2. CASE par.pub = None
    BY <2>2 DEF Blank
  <2>q. QED  BY <2>1, <2>2
<1>2. priv = [id |-> par.grp, p |-> NoGrp, pub |-> par.pub, priv |-> EcPrivOf(sel, par),
              hasPub |-> par.pub # None, hasPriv |-> EcPrivOf(sel, par) # None,
              other |-> NoOther, pssDefSet |-> FALSE, clamped |-> FALSE,
              unclamped |-> "given"]
  <2>. HIDE DEF pub
  <2>1. CASE "priv" \in sel /\ par.priv # None
    <3>1. EcPrivOf(sel, par) = par.priv
      BY <2>1 DEF EcPrivOf
    <3>q. QED  BY <1>1, <2>1, <3>1
  <2>2. CASE ~("priv" \in sel /\ par.priv # None)
    <3>1. EcPrivOf(sel, par) = None
      BY <2>2 DEF EcPrivOf
    <3>q. QED  BY <1>1, <2>2, <3>1
  <2>q. QED  BY <2>1, <2>2
<1>3. EcKeyPair(k, sel, par) =
        IF AutoPublic /\ priv.hasPriv /\ ~priv.hasPub /\ priv.id # NoGrp
        THEN EcSetPub(priv, priv.priv[1]) ELSE priv
  BY DEF EcKeyPair
<1>. HIDE DEF priv
<1>4. /\ priv.hasPriv <=> EcPrivOf(sel, par) # None
      /\ priv.hasPub <=> par.pub # None
      /\ priv.id = par.grp /\ priv.priv = EcPrivOf(sel, par)
  BY <1>2
<1>5. CASE AutoPublic /\ EcPrivOf(sel, par) # None /\ par.pub = None /\ par.grp # NoGrp
  <2>1. EcKeyPair(k, sel, par) = EcSetPub(priv, priv.priv[1])
    BY <1>3, <1>4, <1>5
  <2>2. EcPubOf(sel, par) = priv.priv[1]
    BY <1>4, <1>5 DEF EcPubOf, EcPrivOf
  <2>3. EcPubOf(sel, par) # None
    BY <1>5, PrivIs, Distinct DEF EcPubOf, EcPrivOf, Handed
  <2>q. QED  BY <1>2, <2>1, <2>2, <2>3 DEF EcSetPub
<1>6. CASE ~(AutoPublic /\ EcPrivOf(sel, par) # None /\ par.pub = None /\ par.grp # NoGrp)
  <2>1. EcKeyPair(k, sel, par) = priv
    BY <1>3, <1>4, <1>6
  <2>2. EcPubOf(sel, par) = par.pub
    BY <1>6 DEF EcPubOf, EcPrivOf
  <2>q. QED  BY <1>2, <2>1, <2>2
<1>q. QED  BY <1>5, <1>6

LEMMA EcImportIs ==
  ASSUME NEW sel, "domain" \in sel, NEW par \in Handed,
         par.grp # NoGrp
  PROVE  /\ par.grp \notin Grp => EcImport(sel, par) = NoKey
         /\ par.grp \in Grp =>
              EcImport(sel, par) =
                [id |-> par.grp, p |-> NoGrp, pub |-> EcPubOf(sel, par),
                 priv |-> EcPrivOf(sel, par), hasPub |-> EcPubOf(sel, par) # None,
                 hasPriv |-> EcPrivOf(sel, par) # None,
                 other |-> IF "other" \in sel THEN par.other ELSE NoOther,
                 pssDefSet |-> FALSE, clamped |-> FALSE, unclamped |-> "given"]
<1>. DEFINE k == EcGroup(Blank, par.grp)
            pair == IF sel \cap Pair # {} THEN EcKeyPair(k, sel, par) ELSE k
<1>1. CASE par.grp \notin Grp
  BY <1>1, Distinct DEF EcImport, EcGroup
<1>2. CASE par.grp \in Grp
  <2>1. k = [Blank EXCEPT !.id = par.grp]
    BY <1>2, Distinct DEF EcGroup
  <2>2. k \in Keys
    BY <2>1, <1>2 DEF Blank, Keys, Form
  <2>3. k # NoKey
    BY <2>2, Distinct
  <2>4. pair = [id |-> par.grp, p |-> NoGrp, pub |-> EcPubOf(sel, par),
                priv |-> EcPrivOf(sel, par), hasPub |-> EcPubOf(sel, par) # None,
                hasPriv |-> EcPrivOf(sel, par) # None, other |-> NoOther,
                pssDefSet |-> FALSE, clamped |-> FALSE, unclamped |-> "given"]
    <3>1. CASE sel \cap Pair # {}
      <4>. HIDE DEF k
      <4>q. QED  BY <3>1, <2>1, EcKeyPairIs
    <3>2. CASE sel \cap Pair = {}
      BY <3>2, <2>1 DEF EcPubOf, EcPrivOf, Blank
    <3>q. QED  BY <3>1, <3>2
  <2>5. EcImport(sel, par) = IF "other" \in sel THEN [pair EXCEPT !.other = par.other] ELSE pair
    BY <2>3 DEF EcImport
  <2>. HIDE DEF pair
  <2>6. CASE "other" \in sel
    BY <2>4, <2>5, <2>6, <1>2
  <2>7. CASE "other" \notin sel
    BY <2>4, <2>5, <2>7, <1>2
  <2>q. QED  BY <2>6, <2>7
<1>q. QED  BY <1>1, <1>2

LEMMA EcImportTyped ==
  ASSUME NEW sel, "domain" \in sel, NEW par \in Handed, par.grp # NoGrp
  PROVE  /\ EcImport(sel, par) \in Keys \cup {NoKey}
         /\ par.grp \in Grp => EcImport(sel, par) \in Keys
<1>. DEFINE o == IF "other" \in sel THEN par.other ELSE NoOther
            pub == EcPubOf(sel, par)
            priv == EcPrivOf(sel, par)
<1>1. o \in Other \cup {PssDefaults, NoOther}
  BY DEF Handed
<1>2. pub \in Mat \cup {None} /\ priv \in Priv \cup {None}
  BY EcOfTyped
<1>3. (pub # None) \in BOOLEAN /\ (priv # None) \in BOOLEAN /\ "given" \in Form
  BY DEF Form
<1>4. CASE par.grp \in Grp
  <2>1. EcImport(sel, par) =
          [id |-> par.grp, p |-> NoGrp, pub |-> pub, priv |-> priv, hasPub |-> pub # None,
           hasPriv |-> priv # None, other |-> o, pssDefSet |-> FALSE,
           clamped |-> FALSE, unclamped |-> "given"]
    BY <1>4, EcImportIs
  <2>. HIDE DEF o, pub, priv
  <2>q. QED  BY <1>1, <1>2, <1>3, <1>4, <2>1 DEF Keys
<1>5. CASE par.grp \notin Grp
  BY <1>5, EcImportIs
<1>q. QED  BY <1>4, <1>5

EcxTakesPriv(sel, par) == "priv" \in sel /\ par.priv # None
EcxTakesPub(sel, par) == "pub" \in sel /\ par.pub # None

LEMMA EcxImportIs ==
  ASSUME NEW sel, NEW par \in Handed
  PROVE  /\ ~EcxTakesPriv(sel, par) /\ ~EcxTakesPub(sel, par) => EcxImport(sel, par) = NoKey
         /\ EcxTakesPriv(sel, par) =>
              EcxImport(sel, par) =
                [id |-> NoGrp, p |-> NoGrp,
                 pub |-> IF EcxTakesPub(sel, par) THEN par.pub ELSE None,
                 priv |-> Stored(par.priv), hasPub |-> TRUE, hasPriv |-> TRUE,
                 other |-> NoOther, pssDefSet |-> FALSE,
                 clamped |-> TRUE, unclamped |-> par.priv[2]]
         /\ ~EcxTakesPriv(sel, par) /\ EcxTakesPub(sel, par) =>
              EcxImport(sel, par) =
                [id |-> NoGrp, p |-> NoGrp, pub |-> par.pub, priv |-> None,
                 hasPub |-> TRUE, hasPriv |-> FALSE, other |-> NoOther,
                 pssDefSet |-> FALSE, clamped |-> FALSE, unclamped |-> "given"]
<1>1. CASE ~EcxTakesPriv(sel, par) /\ ~EcxTakesPub(sel, par)
  BY <1>1 DEF EcxTakesPriv, EcxTakesPub, EcxImport, Blank
<1>2. CASE ~EcxTakesPriv(sel, par) /\ EcxTakesPub(sel, par)
  BY <1>2 DEF EcxTakesPriv, EcxTakesPub, EcxImport, EcxSetPub, Blank
<1>3. CASE EcxTakesPriv(sel, par) /\ EcxTakesPub(sel, par)
  BY <1>3 DEF EcxTakesPriv, EcxTakesPub, EcxImport, EcxSetPub, Blank
<1>4. CASE EcxTakesPriv(sel, par) /\ ~EcxTakesPub(sel, par)
  BY <1>4 DEF EcxTakesPriv, EcxTakesPub, EcxImport, Blank
<1>q. QED  BY <1>1, <1>2, <1>3, <1>4

LEMMA EcxImportTyped ==
  ASSUME NEW sel, NEW par \in Handed
  PROVE  /\ EcxImport(sel, par) \in Keys \cup {NoKey}
         /\ EcxTakesPriv(sel, par) \/ EcxTakesPub(sel, par) => EcxImport(sel, par) \in Keys
<1>1. par.pub \in Mat \cup {None} /\ par.priv \in Priv \cup {None}
  BY DEF Handed
<1>2. "given" \in Form
  BY DEF Form
<1>3. CASE EcxTakesPriv(sel, par)
  <2>1. par.priv \in Priv
    BY <1>1, <1>3 DEF EcxTakesPriv
  <2>2. Stored(par.priv) \in Priv /\ par.priv[2] \in Form
    BY <2>1, PrivIs, StoredIs
  <2>. DEFINE pub == IF EcxTakesPub(sel, par) THEN par.pub ELSE None
              v == Stored(par.priv)
              u == par.priv[2]
  <2>3. pub \in Mat \cup {None} /\ v \in Priv /\ u \in Form
    BY <1>1, <2>2
  <2>4. EcxImport(sel, par) =
          [id |-> NoGrp, p |-> NoGrp, pub |-> pub, priv |-> v, hasPub |-> TRUE,
           hasPriv |-> TRUE, other |-> NoOther, pssDefSet |-> FALSE,
           clamped |-> TRUE, unclamped |-> u]
    BY <1>3, EcxImportIs
  <2>. HIDE DEF pub, v, u
  <2>q. QED  BY <2>3, <2>4 DEF Keys
<1>4. CASE ~EcxTakesPriv(sel, par) /\ EcxTakesPub(sel, par)
  <2>. DEFINE pub == par.pub
  <2>1. EcxImport(sel, par) =
          [id |-> NoGrp, p |-> NoGrp, pub |-> pub, priv |-> None, hasPub |-> TRUE,
           hasPriv |-> FALSE, other |-> NoOther, pssDefSet |-> FALSE,
           clamped |-> FALSE, unclamped |-> "given"]
    BY <1>4, EcxImportIs
  <2>2. pub \in Mat \cup {None}
    BY <1>1
  <2>. HIDE DEF pub
  <2>q. QED  BY <1>2, <2>1, <2>2 DEF Keys
<1>5. CASE ~EcxTakesPriv(sel, par) /\ ~EcxTakesPub(sel, par)
  BY <1>5, EcxImportIs
<1>q. QED  BY <1>3, <1>4, <1>5

DhPubOf(sel, par) == IF sel \cap Pair # {} THEN par.pub ELSE None
DhPrivOf(sel, par) == IF "priv" \in sel THEN par.priv ELSE None

LEMMA DhImportIs ==
  ASSUME NEW sel, sel \cap Params # {}, NEW par \in Handed
  PROVE  /\ par.grp = BadName => DhImport(sel, par) = NoKey
         /\ par.grp \in Grp =>
              DhImport(sel, par) =
                [Blank EXCEPT !.id = par.grp, !.p = par.grp, !.pub = DhPubOf(sel, par),
                              !.priv = DhPrivOf(sel, par)]
         /\ par.grp = NoGrp =>
              DhImport(sel, par) =
                [Blank EXCEPT !.p = par.p, !.pub = DhPubOf(sel, par),
                              !.priv = DhPrivOf(sel, par)]
<1>1. CASE par.grp = BadName
  BY <1>1, Distinct DEF DhImport, DhGroup
<1>2. CASE par.grp \in Grp
  <2>. DEFINE g == [Blank EXCEPT !.id = par.grp, !.p = par.grp]
  <2>1. g \in Keys
    BY <1>2 DEF Blank, Keys, Form
  <2>2. g # NoKey
    BY <2>1, Distinct
  <2>3. DhImport(sel, par) = [g EXCEPT !.pub = DhPubOf(sel, par), !.priv = DhPrivOf(sel, par)]
    BY <1>2, <2>2, Distinct DEF DhImport, DhGroup, DhPubOf, DhPrivOf
  <2>q. QED  BY <1>2, <2>3, Distinct DEF Blank
<1>3. CASE par.grp = NoGrp
  <2>. DEFINE g == [Blank EXCEPT !.p = par.p]
  <2>1. g \in Keys
    BY <1>3 DEF Blank, Keys, Form, Handed
  <2>2. g # NoKey
    BY <2>1, Distinct
  <2>3. DhImport(sel, par) = [g EXCEPT !.pub = DhPubOf(sel, par), !.priv = DhPrivOf(sel, par)]
    BY <1>3, <2>2, Distinct DEF DhImport, DhPubOf, DhPrivOf
  <2>q. QED  BY <1>3, <2>3, Distinct DEF Blank
<1>q. QED  BY <1>1, <1>2, <1>3 DEF Handed

LEMMA DhImportTyped ==
  ASSUME NEW sel, sel \cap Params # {}, NEW par \in Handed
  PROVE  /\ DhImport(sel, par) \in Keys \cup {NoKey}
         /\ par.grp # BadName => DhImport(sel, par) \in Keys
<1>. DEFINE pub == DhPubOf(sel, par)
            priv == DhPrivOf(sel, par)
<1>1. pub \in Mat \cup {None} /\ priv \in Priv \cup {None}
  BY DEF Handed, DhPubOf, DhPrivOf
<1>2. "given" \in Form
  BY DEF Form
<1>3. CASE par.grp \in Grp
  <2>1. DhImport(sel, par) =
          [id |-> par.grp, p |-> par.grp, pub |-> pub, priv |-> priv, hasPub |-> FALSE,
           hasPriv |-> FALSE, other |-> NoOther, pssDefSet |-> FALSE,
           clamped |-> FALSE, unclamped |-> "given"]
    <3>1. DhImport(sel, par) = [Blank EXCEPT !.id = par.grp, !.p = par.grp, !.pub = pub,
                                             !.priv = priv]
      BY <1>3, DhImportIs
    <3>q. QED  BY <3>1 DEF Blank
  <2>. HIDE DEF pub, priv
  <2>q. QED  BY <1>1, <1>2, <1>3, <2>1 DEF Keys
<1>4. CASE par.grp = NoGrp
  <2>. DEFINE p == par.p
  <2>1. DhImport(sel, par) =
          [id |-> NoGrp, p |-> p, pub |-> pub, priv |-> priv, hasPub |-> FALSE,
           hasPriv |-> FALSE, other |-> NoOther, pssDefSet |-> FALSE,
           clamped |-> FALSE, unclamped |-> "given"]
    <3>1. DhImport(sel, par) = [Blank EXCEPT !.p = p, !.pub = pub, !.priv = priv]
      BY <1>4, DhImportIs
    <3>q. QED  BY <3>1 DEF Blank
  <2>2. p \in Grp \cup Own \cup {NoGrp}
    BY DEF Handed
  <2>. HIDE DEF p, pub, priv
  <2>q. QED  BY <1>1, <1>2, <2>1, <2>2 DEF Keys
<1>5. CASE par.grp = BadName
  <2>1. DhImport(sel, par) = NoKey
    BY <1>5, DhImportIs
  <2>q. QED  BY <1>5, <2>1
<1>q. QED  BY <1>3, <1>4, <1>5 DEF Handed

LEMMA ImportTyped ==
  ASSUME fam \in Families, NEW sel \in Selections, NEW par \in Handed,
         fam = "ec" => par.grp # NoGrp
  PROVE  Import(sel, par) \in Keys \cup {NoKey}
<1>1. CASE Rsa
  <2>1. Import(sel, par) = RsaImport(sel, par)
    BY <1>1 DEF Import, Rsa, Ecx
  <2>q. QED  BY <2>1, RsaImportTyped
<1>2. CASE Ecx
  BY <1>2, EcxImportTyped DEF Import, Rsa, Ecx
<1>3. CASE fam = "ec"
  BY <1>3, EcImportTyped, SelectionsAre DEF Import, Rsa, Ecx
<1>4. CASE fam = "dh"
  BY <1>4, DhImportTyped, SelectionsAre DEF Import, Rsa, Ecx
<1>q. QED  BY <1>1, <1>2, <1>3, <1>4, FamilyCases DEF Rsa, Ecx

LEMMA KeyIs ==
  ASSUME NEW k \in Keys
  PROVE  /\ k.id \in Grp \cup {NoGrp} /\ k.p \in Grp \cup Own \cup {NoGrp}
         /\ k.pub \in Mat \cup {None} /\ k.priv \in Priv \cup {None}
         /\ k.hasPub \in BOOLEAN /\ k.hasPriv \in BOOLEAN
         /\ k.other \in Other \cup {PssDefaults, NoOther} /\ k.pssDefSet \in BOOLEAN
         /\ k.clamped \in BOOLEAN /\ k.unclamped \in Form
         /\ k = [id |-> k.id, p |-> k.p, pub |-> k.pub, priv |-> k.priv,
                 hasPub |-> k.hasPub, hasPriv |-> k.hasPriv, other |-> k.other,
                 pssDefSet |-> k.pssDefSet, clamped |-> k.clamped, unclamped |-> k.unclamped]
BY DEF Keys

LEMMA RsaDupTyped ==
  ASSUME NEW k \in Keys, NEW sel
  PROVE  RsaDup(k, sel) \in Keys \cup {NoKey}
<1>. DEFINE v == IF "priv" \in sel THEN k.priv ELSE None
            b == "priv" \in sel
<1>1. v \in Priv \cup {None} /\ b \in BOOLEAN
  BY KeyIs
<1>2. RsaDup(k, sel) = NoKey \/ RsaDup(k, sel) = [k EXCEPT !.priv = v, !.hasPub = TRUE, !.hasPriv = b]
  BY DEF RsaDup
<1>. HIDE DEF v, b
<1>q. QED  BY <1>1, <1>2 DEF Keys

LEMMA EcDupTyped ==
  ASSUME NEW k \in Keys, NEW sel
  PROVE  EcDup(k, sel) \in Keys
<1>. DEFINE pub == k.hasPub /\ "pub" \in sel
            priv == k.hasPriv /\ "priv" \in sel
            i == IF "domain" \in sel THEN k.id ELSE NoGrp
            m == IF pub THEN k.pub ELSE None
            v == IF priv THEN k.priv ELSE None
            o == IF "other" \in sel THEN k.other ELSE NoOther
<1>1. /\ i \in Grp \cup {NoGrp} /\ m \in Mat \cup {None} /\ v \in Priv \cup {None}
      /\ o \in Other \cup {PssDefaults, NoOther}
  BY KeyIs
<1>2. pub \in BOOLEAN /\ priv \in BOOLEAN
  OBVIOUS
<1>3. EcDup(k, sel) = [Blank EXCEPT !.id = i, !.pub = m, !.hasPub = pub, !.priv = v,
                                    !.hasPriv = priv, !.other = o]
  BY DEF EcDup
<1>. HIDE DEF pub, priv, i, m, v, o
<1>q. QED  BY <1>1, <1>2, <1>3, BlankTyped DEF Keys

LEMMA EcxDupTyped ==
  ASSUME NEW k \in Keys, NEW sel
  PROVE  EcxDup(k, sel) \in Keys
BY DEF EcxDup, Keys, Form

LEMMA DhDupTyped ==
  ASSUME NEW k \in Keys, NEW sel
  PROVE  DhDup(k, sel) \in Keys \cup {NoKey}
<1>. DEFINE i == IF "domain" \in sel THEN k.id ELSE NoGrp
            p == IF "domain" \in sel THEN k.p ELSE NoGrp
            m == IF "pub" \in sel THEN k.pub ELSE None
            v == IF "priv" \in sel THEN k.priv ELSE None
<1>1. /\ i \in Grp \cup {NoGrp} /\ p \in Grp \cup Own \cup {NoGrp}
      /\ m \in Mat \cup {None} /\ v \in Priv \cup {None}
  BY KeyIs
<1>2. \/ DhDup(k, sel) = NoKey
      \/ DhDup(k, sel) = [Blank EXCEPT !.id = i, !.p = p, !.pub = m, !.priv = v]
  BY DEF DhDup
<1>. HIDE DEF i, p, m, v
<1>3. [Blank EXCEPT !.id = i, !.p = p, !.pub = m, !.priv = v] \in Keys
  BY <1>1, BlankTyped DEF Keys
<1>q. QED  BY <1>2, <1>3

LEMMA DupTyped ==
  ASSUME fam \in Families, NEW k \in Keys, NEW sel
  PROVE  Dup(k, sel) \in Keys \cup {NoKey}
<1>1. CASE Rsa
  <2>1. Dup(k, sel) = RsaDup(k, sel)
    BY <1>1 DEF Dup, Rsa, Ecx
  <2>q. QED  BY <2>1, RsaDupTyped
<1>2. CASE Ecx
  BY <1>2, EcxDupTyped DEF Dup, Rsa, Ecx
<1>3. CASE fam = "ec"
  BY <1>3, EcDupTyped DEF Dup, Rsa, Ecx
<1>4. CASE fam = "dh"
  BY <1>4, DhDupTyped DEF Dup, Rsa, Ecx
<1>q. QED  BY <1>1, <1>2, <1>3, <1>4, FamilyCases DEF Rsa, Ecx

LEMMA SetTyped ==
  ASSUME NEW k \in Keys, NEW m \in Mat
  PROVE  /\ EcSetPub(k, m) \in Keys /\ EcxSetPub(k, m) \in Keys
         /\ [k EXCEPT !.pub = m] \in Keys
BY DEF EcSetPub, EcxSetPub, Keys

LEMMA NewPairTyped ==
  ASSUME NEW k \in Keys, NEW m \in Mat
  PROVE  NewPair(k, m) \in Keys
<1>. DEFINE v == Stored(<<m, "given">>)
<1>1. v \in Priv
  BY MadePriv, StoredIs DEF Form
<1>2. NewPair(k, m) = [k EXCEPT !.pub = m, !.priv = v, !.hasPub = TRUE, !.hasPriv = TRUE]
  BY DEF NewPair
<1>. HIDE DEF v
<1>q. QED  BY <1>1, <1>2 DEF Keys

LEMMA GroupTyped ==
  ASSUME NEW k \in Keys, NEW name
  PROVE  /\ EcGroup(k, name) \in Keys \cup {NoKey}
         /\ DhGroup(k, name) \in Keys \cup {NoKey}
BY DEF EcGroup, DhGroup, Keys

LEMMA WithOther ==
  ASSUME NEW k \in Keys, NEW o \in Other \cup {NoOther}
  PROVE  [k EXCEPT !.other = o] \in Keys
BY DEF Keys

LEMMA EcGenTyped ==
  ASSUME NEW sel, NEW name, NEW o \in Other \cup {NoOther}, NEW from, NEW m \in Mat
  PROVE  EcGen(sel, name, o, from, m) \in Keys \cup {NoKey}
<1>. DEFINE asked == IF from # NoKey THEN from.id ELSE name
            k == EcGroup(Blank, asked)
<1>1. EcGen(sel, name, o, from, m) \in {NoKey, k, [NewPair(k, m) EXCEPT !.other = o]}
      /\ (k = NoKey => EcGen(sel, name, o, from, m) = NoKey)
  BY DEF EcGen
<1>2. k \in Keys \cup {NoKey}
  BY GroupTyped, BlankTyped
<1>. HIDE DEF k
<1>3. k \in Keys => [NewPair(k, m) EXCEPT !.other = o] \in Keys
  BY NewPairTyped, WithOther
<1>q. QED  BY <1>1, <1>2, <1>3

LEMMA DhGenTyped ==
  ASSUME NEW sel, NEW name, NEW from \in Keys \cup {NoKey}, NEW m \in Mat, NEW p \in Own
  PROVE  DhGen(sel, name, from, m, p) \in Keys \cup {NoKey}
<1>. DEFINE k == DhGenGroup(sel, name, from, p)
<1>1. k \in Keys \cup {NoKey}
  <2>1. CASE "domain" \in sel
    <3>1. k = [Blank EXCEPT !.p = p]
      BY <2>1 DEF DhGenGroup
    <3>q. QED  BY <3>1, BlankTyped DEF Keys
  <2>2. CASE "domain" \notin sel /\ from # NoKey
    <3>1. k = [Blank EXCEPT !.p = from.p]
      BY <2>2 DEF DhGenGroup
    <3>2. from.p \in Grp \cup Own \cup {NoGrp}
      BY <2>2, KeyIs
    <3>. DEFINE q == from.p
    <3>3. k = [Blank EXCEPT !.p = q] /\ q \in Grp \cup Own \cup {NoGrp}
      BY <3>1, <3>2
    <3>. HIDE DEF k, q
    <3>q. QED  BY <3>3, BlankTyped DEF Keys
  <2>3. CASE "domain" \notin sel /\ from = NoKey
    BY <2>3, GroupTyped, BlankTyped DEF DhGenGroup
  <2>q. QED  BY <2>1, <2>2, <2>3
<1>2. \/ DhGen(sel, name, from, m, p) = k
      \/ k # NoKey /\ DhGen(sel, name, from, m, p) = DhGenPair(k, m)
  BY DEF DhGen
<1>. HIDE DEF k
<1>3. k \in Keys => DhGenPair(k, m) \in Keys
  <2>. DEFINE v == <<m, "given">>
  <2>1. v \in Priv
    BY MadePriv DEF Form
  <2>2. DhGenPair(k, m) = [k EXCEPT !.pub = m, !.priv = v]
    BY DEF DhGenPair
  <2>. HIDE DEF v
  <2>q. QED  BY <2>1, <2>2 DEF Keys
<1>q. QED  BY <1>1, <1>2, <1>3

LEMMA GenTyped ==
  ASSUME fam \in Families, NEW sel, NEW name, NEW o \in Other \cup {NoOther},
         NEW from \in Keys \cup {NoKey}, NEW m \in Mat, NEW p \in Own
  PROVE  Gen(sel, name, o, from, m, p) \in Keys \cup {NoKey}
<1>1. CASE Rsa
  <2>1. Gen(sel, name, o, from, m, p) = RsaGen(sel, o, m)
    BY <1>1 DEF Gen, Rsa, Ecx
  <2>2. [NewPair(Blank, m) EXCEPT !.other = o] \in Keys
    BY BlankTyped, NewPairTyped, WithOther
  <2>3. RsaGen(sel, o, m) \in {NoKey, [NewPair(Blank, m) EXCEPT !.other = o]}
    BY DEF RsaGen
  <2>q. QED  BY <2>1, <2>2, <2>3
<1>2. CASE Ecx
  <2>1. Gen(sel, name, o, from, m, p) = EcxGen(sel, m)
    BY <1>2 DEF Gen, Rsa, Ecx
  <2>q. QED  BY <2>1, BlankTyped, NewPairTyped DEF EcxGen
<1>3. CASE fam = "ec"
  <2>1. Gen(sel, name, o, from, m, p) = EcGen(sel, name, o, from, m)
    BY <1>3 DEF Gen, Rsa, Ecx
  <2>q. QED  BY <2>1, EcGenTyped
<1>4. CASE fam = "dh"
  <2>1. Gen(sel, name, o, from, m, p) = DhGen(sel, name, from, m, p)
    BY <1>4 DEF Gen, Rsa, Ecx
  <2>q. QED  BY <2>1, DhGenTyped
<1>q. QED  BY <1>1, <1>2, <1>3, <1>4, FamilyCases DEF Rsa, Ecx

------------------------------------------------------------------------------
(* Types, for every use of the keys. *)
Types == TypeOK /\ SaidOfKeys

LEMMA NewKeyTypes ==
  ASSUME Types, NEW s \in Slot, NEW k \in Keys \cup {NoKey},
         NEW w, k # NoKey => w \in SaidParts, NewKey(s, k, w)
  PROVE  Types'
<1>1. k \in Keys /\ w \in SaidParts /\ fam' = fam
  BY DEF NewKey
<1>2. keys' \in [Slot -> Keys \cup {NoKey}]
  BY <1>1 DEF Types, TypeOK, NewKey
<1>3. said' \in [Slot -> SaidParts \cup {NoKey}]
  BY <1>1 DEF Types, TypeOK, NewKey, SaidParts
<1>4. SaidOfKeys'
  BY <1>1 DEF Types, TypeOK, SaidOfKeys, NewKey
<1>q. QED  BY <1>1, <1>2, <1>3, <1>4 DEF Types, TypeOK, SaidParts

LEMMA IntendedTyped ==
  ASSUME fam \in Families, NEW sel \in Selections, NEW m \in Mat, NEW par \in Given(sel, m)
  PROVE  Intended(sel, par) \in SaidParts
<1>. DEFINE w == Intended(sel, par)
<1>1. /\ par.grp \in Grp \cup {NoGrp, BadName} /\ par.p \in Grp \cup Own \cup {NoGrp}
      /\ par.pub \in Mat \cup {None} /\ par.priv \in Priv \cup {None}
      /\ par.other \in Other \cup {NoOther}
  BY GivenIs DEF Handed
<1>. DEFINE g == IF par.grp # NoGrp THEN par.grp ELSE par.p
            v == IF "priv" \in sel THEN par.priv ELSE None
            m1 == IF "pub" \notin sel THEN None
                  ELSE IF par.pub = None /\ par.priv # None /\ Derives THEN par.priv[1]
                  ELSE par.pub
            o == par.other
<1>2. g \in Grp \cup Own \cup {NoGrp, BadName} /\ v \in Priv \cup {None}
  BY <1>1
<1>3. m1 \in Mat \cup {None} /\ o \in Other \cup {PssDefaults, NoOther}
  BY <1>1, PrivIs
<1>4. w = [grp |-> g, priv |-> v, pub |-> m1, other |-> o]
  BY DEF Intended
<1>. HIDE DEF g, v, m1, o, w
<1>q. QED  BY <1>2, <1>3, <1>4 DEF SaidParts, w

LEMMA ImportKeyTypes ==
  ASSUME Types, NEW s \in Slot, ImportKey(s)
  PROVE  Types'
<1>0. fam \in Families
  BY DEF Types, TypeOK
<1>1. PICK sel \in Selections, m \in Mat : \E par \in Given(sel, m) :
        NewKey(s, Import(sel, par), Intended(sel, par))
  BY DEF ImportKey
<1>2. PICK par \in Given(sel, m) : NewKey(s, Import(sel, par), Intended(sel, par))
  BY <1>1
<1>3. Intended(sel, par) \in SaidParts
  BY <1>0, IntendedTyped
<1>4. par \in Handed /\ (fam = "ec" => par.grp # NoGrp)
  BY <1>0, GivenIs
<1>5. Import(sel, par) \in Keys \cup {NoKey}
  BY <1>0, <1>4, ImportTyped
<1>q. QED  BY <1>2, <1>3, <1>5, NewKeyTypes

LEMMA DupKeyTypes ==
  ASSUME Types, NEW s \in Slot, NEW d \in Slot, DupKey(s, d)
  PROVE  Types'
<1>1. fam \in Families /\ keys[s] \in Keys /\ said[s] \in SaidParts
  BY DEF Types, TypeOK, SaidOfKeys, DupKey, Live
<1>2. Dup(keys[s], KeyPair) \in Keys \cup {NoKey} /\ Dup(keys[s], Params) \in Keys \cup {NoKey}
  BY <1>1, DupTyped
<1>3. [said[s] EXCEPT !.pub = None, !.priv = None] \in SaidParts
  BY <1>1 DEF SaidParts
<1>q. QED  BY <1>1, <1>2, <1>3, NewKeyTypes DEF DupKey

LEMMA SetPubTypes ==
  ASSUME Types, NEW s \in Slot, NEW m \in Mat, SetPub(s, m)
  PROVE  Types'
<1>1. fam \in Families /\ keys[s] \in Keys /\ said[s] \in SaidParts /\ ~Rsa /\ fam' = fam
  BY DEF Types, TypeOK, SaidOfKeys, SetPub, Live
<1>2. PICK k \in {EcSetPub(keys[s], m), EcxSetPub(keys[s], m), [keys[s] EXCEPT !.pub = m]} :
        keys' = [keys EXCEPT ![s] = k]
  <2>1. CASE fam = "ec"
    BY <2>1 DEF SetPub, Types, TypeOK, Ecx
  <2>2. CASE Ecx
    BY <2>2 DEF SetPub, Types, TypeOK, Ecx
  <2>3. CASE fam = "dh"
    BY <2>3 DEF SetPub, Types, TypeOK, Ecx
  <2>q. QED  BY <1>1, <2>1, <2>2, <2>3, FamilyCases DEF Rsa, Ecx
<1>3. k \in Keys
  BY <1>1, <1>2, SetTyped
<1>. DEFINE w == [said[s] EXCEPT !.pub = m]
<1>4. w \in SaidParts
  BY <1>1 DEF SaidParts
<1>5. said' = [said EXCEPT ![s] = w]
  BY DEF SetPub, Types, TypeOK
<1>. HIDE DEF w
<1>6. keys' \in [Slot -> Keys \cup {NoKey}]
  BY <1>2, <1>3 DEF Types, TypeOK
<1>7. said' \in [Slot -> SaidParts \cup {NoKey}]
  BY <1>4, <1>5 DEF Types, TypeOK, SaidParts
<1>8. SaidOfKeys'
  BY <1>2, <1>4, <1>5 DEF Types, TypeOK, SaidOfKeys
<1>q. QED  BY <1>1, <1>6, <1>7, <1>8 DEF Types, TypeOK, SaidParts

LEMMA GenKeyTypes ==
  ASSUME Types, NEW s \in Slot, NEW sel \in {Params, Pair},
         NEW name \in Grp \cup {BadName, NoGrp}, NEW other \in Other \cup {NoOther},
         NEW from \in Slot \cup {NoKey}, NEW m \in Mat, NEW p \in Own,
         GenKey(s, sel, name, other, from, m, p)
  PROVE  Types'
<1>. DEFINE f == IF from = NoKey THEN NoKey ELSE keys[from]
            k == Gen(sel, name, other, f, m, p)
            named == IF from # NoKey THEN said[from].grp ELSE name
            grp == IF fam = "dh" /\ sel = Params /\ name = NoGrp THEN p
                   ELSE IF fam \in {"ec", "dh"} THEN named ELSE NoGrp
            pub == IF sel = Pair THEN m ELSE None
            priv == IF sel = Pair THEN Stored(<<m, "given">>) ELSE None
            w == [grp |-> grp, pub |-> pub, priv |-> priv, other |-> other]
<1>1. fam \in Families /\ NewKey(s, k, w)
  BY DEF GenKey, Types, TypeOK
<1>2. f \in Keys \cup {NoKey}
  BY DEF Types, TypeOK
<1>3. named \in Grp \cup Own \cup {NoGrp, BadName}
  <2>1. from # NoKey => said[from] \in SaidParts
    BY DEF GenKey, Live, Types, SaidOfKeys
  <2>q. QED  BY <2>1 DEF SaidParts
<1>4. grp \in Grp \cup Own \cup {NoGrp, BadName}
  BY <1>3
<1>5. pub \in Mat \cup {None} /\ priv \in Priv \cup {None}
  BY MadePriv, StoredIs DEF Form
<1>6. w \in SaidParts
  <2>. HIDE DEF grp, pub, priv
  <2>q. QED  BY <1>4, <1>5 DEF SaidParts
<1>7. k \in Keys \cup {NoKey}
  <2>. HIDE DEF f
  <2>q. QED  BY <1>1, <1>2, GenTyped
<1>. HIDE DEF k, w
<1>q. QED  BY <1>1, <1>6, <1>7, NewKeyTypes

LEMMA TypesInvariant == Spec => []Types
<1>1. Init => Types
  BY DEF Init, Types, TypeOK, SaidOfKeys
<1>2. Types /\ [Next]_vars => Types'
  <2>. SUFFICES ASSUME Types, [Next]_vars PROVE Types'
    OBVIOUS
  <2>1. ASSUME NEW s \in Slot, ImportKey(s) PROVE Types'
    BY <2>1, ImportKeyTypes
  <2>2. ASSUME NEW s \in Slot, Free(s) PROVE Types'
    BY <2>2 DEF Free, Types, TypeOK, SaidOfKeys
  <2>3. ASSUME NEW s \in Slot, NEW d \in Slot, DupKey(s, d) PROVE Types'
    BY <2>3, DupKeyTypes
  <2>4. ASSUME NEW s \in Slot, NEW m \in Mat, SetPub(s, m) PROVE Types'
    BY <2>4, SetPubTypes
  <2>5. ASSUME NEW s \in Slot, NEW sel \in {Params, Pair},
               NEW name \in Grp \cup {BadName, NoGrp}, NEW other \in Other \cup {NoOther},
               NEW from \in Slot \cup {NoKey}, NEW m \in Mat, NEW p \in Own,
               GenKey(s, sel, name, other, from, m, p)
        PROVE  Types'
    BY <2>5, GenKeyTypes
  <2>6. CASE UNCHANGED vars
    BY <2>6 DEF vars, Types, TypeOK, SaidOfKeys
  <2>q. QED  BY <2>1, <2>2, <2>3, <2>4, <2>5, <2>6 DEF Next
<1>q. QED  BY <1>1, <1>2, PTL DEF Spec

(* For every use of the keys, the ones the properties are not about included: *)
(* the fields of a key and what is said of it stay within their types.       *)
THEOREM SpecTypeOK == Spec => []TypeOK
BY TypesInvariant, PTL DEF Types

------------------------------------------------------------------------------
(* What follows of a key that holds what is said of it. *)
LEMMA HoldsCases ==
  ASSUME fam \in Families, NEW k, NEW w, Holds(fam, k, w)
  PROVE  /\ k \in Keys /\ w \in SaidParts
         /\ \/ fam \in {"rsa", "pss"} /\ RsaHolds(fam, k, w)
            \/ fam = "ec" /\ EcHolds(k, w)
            \/ fam \in {"x", "ed"} /\ EcxHolds(fam, k, w)
            \/ fam = "dh" /\ DhHolds(k, w)
BY FamilyCases DEF Holds

LEMMA HoldsHas ==
  ASSUME fam \in Families, NEW k, NEW w, Holds(fam, k, w)
  PROVE  /\ Has(k, {"pub"}) <=> w.pub # None
         /\ Has(k, {"priv"}) <=> w.priv # None
         /\ Grouped => (Has(k, {"domain"}) <=> w.grp # NoGrp) /\ w.grp # NoGrp
         /\ ~Grouped => w.grp = NoGrp
<1>1. CASE fam \in {"rsa", "pss"} /\ RsaHolds(fam, k, w)
  BY <1>1 DEF Has, Rsa, Ecx, Flagged, RsaHolds, Grouped
<1>2. CASE fam = "ec" /\ EcHolds(k, w)
  BY <1>2, Distinct DEF Has, Rsa, Ecx, EcHas, Flagged, EcHolds, Grouped
<1>3. CASE fam \in {"x", "ed"} /\ EcxHolds(fam, k, w)
  BY <1>3 DEF Has, Rsa, Ecx, Flagged, EcxHolds, Grouped
<1>4. CASE fam = "dh" /\ DhHolds(k, w)
  BY <1>4, Distinct DEF Has, Rsa, Ecx, DhHas, DhHolds, Grouped
<1>q. QED  BY <1>1, <1>2, <1>3, <1>4, HoldsCases

LEMMA HoldsMatch ==
  ASSUME fam \in Families, NEW a, NEW u, Holds(fam, a, u), NEW b, NEW w, Holds(fam, b, w)
  PROVE  Grouped => (Match(a, b, {"domain"}) <=> u.grp = w.grp)
<1>1. CASE fam = "ec"
  BY <1>1 DEF Match, Rsa, Ecx, EcMatch, EcHolds, Holds
<1>2. CASE fam = "dh"
  BY <1>2, Distinct DEF Match, Rsa, Ecx, DhMatch, DhHolds, Holds
<1>q. QED  BY <1>1, <1>2 DEF Grouped

LEMMA HoldsEqual ==
  ASSUME fam \in Families, NEW a, NEW u, Holds(fam, a, u), NEW b, NEW w, Holds(fam, b, w),
         u.pub # None \/ u.priv # None, w.pub # None \/ w.priv # None
  PROVE  Equal(a, b) <=> /\ u.grp = w.grp /\ u.pub = w.pub
                         /\ u.pub = None => u.priv = w.priv
<1>. DEFINE both == u.pub # None /\ w.pub # None
            how == {"domain"} \cup IF both THEN {"pub"} ELSE Pair
<1>1. Equal(a, b) <=> Match(a, b, how)
  BY HoldsHas DEF Equal
<1>2. /\ "domain" \in how /\ "pub" \in how
      /\ "priv" \in how <=> ~both
  BY DEF Pair
<1>. HIDE DEF how
<1>3. CASE fam \in {"rsa", "pss"}
  <2>1. RsaHolds(fam, a, u) /\ RsaHolds(fam, b, w)
    BY <1>3 DEF Holds
  <2>2. Match(a, b, how) <=> RsaMatch(a, b, how)
    BY <1>3 DEF Match, Rsa, Ecx
  <2>q. QED  BY <1>1, <1>2, <2>1, <2>2 DEF RsaMatch, RsaHolds
<1>4. CASE fam = "ec"
  <2>1. EcHolds(a, u) /\ EcHolds(b, w)
    BY <1>4 DEF Holds
  <2>2. Match(a, b, how) <=> EcMatch(a, b, how)
    BY <1>4 DEF Match, Rsa, Ecx
  <2>q. QED  BY <1>1, <1>2, <2>1, <2>2 DEF EcMatch, EcHolds
<1>5. CASE fam \in {"x", "ed"}
  <2>1. EcxHolds(fam, a, u) /\ EcxHolds(fam, b, w)
    BY <1>5 DEF Holds
  <2>2. Match(a, b, how) <=> EcxMatch(a, b, how)
    BY <1>5 DEF Match, Rsa, Ecx
  <2>q. QED  BY <1>1, <1>2, <2>1, <2>2 DEF EcxMatch, EcxHolds
<1>6. CASE fam = "dh"
  <2>1. DhHolds(a, u) /\ DhHolds(b, w)
    BY <1>6 DEF Holds
  <2>2. Match(a, b, how) <=> DhMatch(a, b, how)
    BY <1>6 DEF Match, Rsa, Ecx
  <2>q. QED  BY <1>1, <1>2, <2>1, <2>2, Distinct DEF DhMatch, DhHolds
<1>q. QED  BY <1>3, <1>4, <1>5, <1>6, FamilyCases

(* The parts that a selection asks for are there. *)
KeyAnswers(w, sel) ==
  /\ Grouped => w.grp # NoGrp
  /\ "pub" \in sel => w.pub # None
  /\ "priv" \in sel => w.priv # None

LEMMA HoldsExport ==
  ASSUME fam \in Families, NEW k, NEW w, Holds(fam, k, w), NEW sel \in Selections, KeyAnswers(w, sel)
  PROVE  /\ Export(k, sel) \in Handed
         /\ Grouped => (IF Export(k, sel).grp # NoGrp THEN Export(k, sel).grp
                        ELSE Export(k, sel).p) = w.grp
         /\ "pub" \in sel => Export(k, sel).pub = w.pub
         /\ "priv" \in sel => Export(k, sel).priv = w.priv
         /\ "priv" \notin sel /\ fam # "dh" => Export(k, sel).priv = None
         /\ "other" \in sel => Export(k, sel).other = w.other
         /\ Export(k, sel).other = IF "other" \in sel THEN w.other ELSE NoOther
         /\ Export(k, sel).grp = IF w.grp \in Grp THEN w.grp ELSE NoGrp
         /\ Export(k, sel).p = IF w.grp \in Own THEN w.grp ELSE NoGrp
<1>. DEFINE e == Export(k, sel)
<1>0. /\ w.pub \in Mat \cup {None} /\ w.priv \in Priv \cup {None}
      /\ w.other \in Other \cup {PssDefaults, NoOther}
      /\ w.grp \in Grp \cup Own \cup {NoGrp, BadName}
  BY DEF Holds, SaidParts
<1>1. CASE fam \in {"rsa", "pss"}
  <2>1. RsaHolds(fam, k, w)
    BY <1>1 DEF Holds
  <2>2. "pub" \in sel /\ sel \cap Pair # {} /\ "other" \in sel
    BY <1>1, SelectionsAre DEF Grouped
  <2>3. e = RsaExport(k, sel)
    BY <1>1 DEF Export, Rsa, Ecx
  <2>. DEFINE v == IF "priv" \in sel THEN w.priv ELSE None
  <2>4. e = [grp |-> NoGrp, p |-> NoGrp, pub |-> w.pub, priv |-> v, other |-> w.other]
    <3>1. (IF "priv" \in sel THEN k.priv ELSE None) = v
      BY <2>1 DEF RsaHolds, KeyAnswers
    <3>2. (IF "other" \in sel /\ fam = "pss" /\ k.pssDefSet THEN k.other ELSE NoOther) = w.other
      BY <1>1, <2>1, <2>2 DEF RsaHolds
    <3>3. k.pub = w.pub
      BY <2>1 DEF RsaHolds
    <3>q. QED  BY <2>2, <2>3, <3>1, <3>2, <3>3 DEF RsaExport, Nothing
  <2>5. v \in Priv \cup {None}
    BY <1>0
  <2>6. e \in Handed
    <3>. HIDE DEF v, e
    <3>q. QED  BY <1>0, <2>4, <2>5 DEF Handed
  <2>7. w.grp = NoGrp
    BY <2>1 DEF RsaHolds
  <2>q. QED  BY <1>1, <2>2, <2>4, <2>6, <2>7, Distinct DEF Grouped
<1>2. CASE fam = "ec"
  <2>1. EcHolds(k, w)
    BY <1>2 DEF Holds
  <2>2. e = EcExport(k, sel)
    BY <1>2 DEF Export, Rsa, Ecx
  <2>. DEFINE m == IF "pub" \in sel THEN w.pub ELSE None
              v == IF "priv" \in sel THEN w.priv ELSE None
              o == IF "other" \in sel THEN w.other ELSE NoOther
  <2>3. e = [grp |-> w.grp, p |-> NoGrp, pub |-> m, priv |-> v, other |-> o]
    <3>1. /\ "domain" \in sel /\ ("priv" \in sel => "pub" \in sel)
          /\ "other" \in sel <=> "pub" \in sel
          /\ sel \cap Pair # {} <=> "pub" \in sel
      BY SelectionsAre
    <3>2. k.id = w.grp /\ k.pub = w.pub /\ k.priv = w.priv /\ k.other = w.other
          /\ ("pub" \in sel => w.pub # None)
      BY <2>1 DEF EcHolds, KeyAnswers
    <3>q. QED  BY <2>2, <3>1, <3>2 DEF EcExport, Nothing
  <2>4. m \in Mat \cup {None} /\ v \in Priv \cup {None} /\ o \in Other \cup {PssDefaults, NoOther}
        /\ w.grp \in Grp
    BY <1>0, <2>1 DEF EcHolds
  <2>5. e \in Handed
    <3>. HIDE DEF m, v, o, e
    <3>q. QED  BY <2>3, <2>4 DEF Handed
  <2>q. QED  BY <1>2, <2>3, <2>4, <2>5, Distinct DEF Grouped
<1>3. CASE fam \in {"x", "ed"}
  <2>1. EcxHolds(fam, k, w)
    BY <1>3 DEF Holds
  <2>2. "pub" \in sel
    BY <1>3, SelectionsAre DEF Grouped
  <2>3. e = EcxExport(k, sel)
    BY <1>3 DEF Export, Rsa, Ecx
  <2>. DEFINE v == IF "priv" \in sel THEN w.priv ELSE None
  <2>4. e = [grp |-> NoGrp, p |-> NoGrp, pub |-> w.pub, priv |-> v, other |-> NoOther]
    <3>1. EcxPub(k) = w.pub /\ ("priv" \in sel => EcxPriv(k) = w.priv)
      BY <2>1, <2>2 DEF EcxHolds, KeyAnswers
    <3>q. QED  BY <2>3, <3>1 DEF EcxExport, Nothing
  <2>5. v \in Priv \cup {None} /\ w.other = NoOther
    BY <1>0, <2>1 DEF EcxHolds
  <2>6. e \in Handed
    <3>. HIDE DEF v, e
    <3>q. QED  BY <1>0, <2>4, <2>5 DEF Handed
  <2>7. w.grp = NoGrp
    BY <2>1 DEF EcxHolds
  <2>q. QED  BY <1>3, <2>4, <2>5, <2>6, <2>7, Distinct DEF Grouped
<1>4. CASE fam = "dh"
  <2>1. DhHolds(k, w) /\ k \in Keys
    BY <1>4 DEF Holds
  <2>2. sel \cap Params # {}
    BY SelectionsAre
  <2>3. e = DhExport(k, sel)
    BY <1>4 DEF Export, Rsa, Ecx
  <2>. DEFINE g == k.id
              p == IF k.id = NoGrp THEN k.p ELSE NoGrp
  <2>4. e = [grp |-> g, p |-> p, pub |-> w.pub, priv |-> w.priv, other |-> NoOther]
    BY <2>1, <2>2, <2>3 DEF DhExport, DhHolds, Nothing
  <2>5. g \in Grp \cup {NoGrp} /\ p \in Grp \cup Own \cup {NoGrp} /\ w.other = NoOther
    BY <2>1, KeyIs DEF DhHolds
  <2>6. /\ (IF g # NoGrp THEN g ELSE p) = w.grp
        /\ g = IF w.grp \in Grp THEN w.grp ELSE NoGrp
        /\ p = IF w.grp \in Own THEN w.grp ELSE NoGrp
    BY <2>1, Distinct DEF DhHolds
  <2>7. e \in Handed
    <3>. HIDE DEF g, p, e
    <3>q. QED  BY <1>0, <2>4, <2>5 DEF Handed
  <2>. HIDE DEF g, p
  <2>q. QED  BY <1>4, <2>4, <2>5, <2>6, <2>7 DEF Grouped
<1>q. QED  BY <1>1, <1>2, <1>3, <1>4, FamilyCases

------------------------------------------------------------------------------
(* Import, of what a program hands in or of what another key exports.        *)
Proper(sel, par) ==
  /\ par \in Handed
  /\ fam \notin {"ec", "dh"} => par.grp = NoGrp
  /\ fam # "dh" => par.p = NoGrp
  /\ fam = "ec" => par.grp # NoGrp
  /\ fam = "dh" => (par.grp = NoGrp) # (par.p = NoGrp) /\ par.p \in Own \cup {NoGrp}
  /\ fam # "dh" /\ par.pub = None /\ par.priv = None => "pub" \notin sel
  /\ fam # "dh" /\ par.pub = None /\ par.priv # None => "priv" \in sel
  /\ fam \notin {"ec", "pss"} => par.other = NoOther
  /\ fam = "pss" => par.other # NoOther
  /\ fam = "ec" /\ "other" \notin sel => par.other = NoOther
  /\ fam = "ec" /\ ~AutoPublic /\ par.pub = None => par.priv = None
  /\ fam \in {"rsa", "pss"} /\ "priv" \in sel => par.priv # None

LEMMA IntendedIs ==
  ASSUME fam \in Families, NEW sel \in Selections, NEW par \in Handed
  PROVE  /\ Intended(sel, par) \in SaidParts
         /\ Intended(sel, par).grp = IF par.grp # NoGrp THEN par.grp ELSE par.p
         /\ Intended(sel, par).priv = IF "priv" \in sel THEN par.priv ELSE None
         /\ Intended(sel, par).other = par.other
         /\ "pub" \notin sel => Intended(sel, par).pub = None
         /\ "pub" \in sel /\ par.pub # None => Intended(sel, par).pub = par.pub
         /\ "pub" \in sel /\ par.pub = None =>
              Intended(sel, par).pub =
                IF par.priv # None /\ Derives THEN par.priv[1] ELSE None
<1>1. /\ par.grp \in Grp \cup {NoGrp, BadName} /\ par.p \in Grp \cup Own \cup {NoGrp}
      /\ par.pub \in Mat \cup {None} /\ par.priv \in Priv \cup {None}
      /\ par.other \in Other \cup {PssDefaults, NoOther}
  BY DEF Handed
<1>. DEFINE g == IF par.grp # NoGrp THEN par.grp ELSE par.p
            v == IF "priv" \in sel THEN par.priv ELSE None
            m == IF "pub" \notin sel THEN None
                 ELSE IF par.pub = None /\ par.priv # None /\ Derives THEN par.priv[1]
                 ELSE par.pub
            o == par.other
<1>2. /\ g \in Grp \cup Own \cup {NoGrp, BadName} /\ v \in Priv \cup {None}
      /\ m \in Mat \cup {None} /\ o \in Other \cup {PssDefaults, NoOther}
  BY <1>1, PrivIs
<1>3. Intended(sel, par) = [grp |-> g, priv |-> v, pub |-> m, other |-> o]
  BY DEF Intended
<1>4. Intended(sel, par) \in SaidParts
  <2>. HIDE DEF g, v, m, o
  <2>q. QED  BY <1>2, <1>3 DEF SaidParts
<1>q. QED  BY <1>3, <1>4

LEMMA ImportHolds ==
  ASSUME fam \in Families, NEW sel \in Selections, NEW par, Proper(sel, par),
         Import(sel, par) # NoKey
  PROVE  Holds(fam, Import(sel, par), Intended(sel, par))
<1>. DEFINE k == Import(sel, par)
            w == Intended(sel, par)
<1>0. /\ par \in Handed /\ k \in Keys /\ w \in SaidParts
      /\ par.grp \in Grp \cup {NoGrp, BadName} /\ par.p \in Grp \cup Own \cup {NoGrp}
      /\ par.pub \in Mat \cup {None} /\ par.priv \in Priv \cup {None}
  <2>1. par \in Handed /\ (fam = "ec" => par.grp # NoGrp)
    BY DEF Proper
  <2>2. k \in Keys
    BY <2>1, ImportTyped
  <2>q. QED  BY <2>1, <2>2, IntendedIs DEF Handed
<1>s. /\ "domain" \in sel /\ ("other" \in sel <=> "pub" \in sel)
      /\ "priv" \in sel => "pub" \in sel
      /\ sel \cap Pair # {} <=> "pub" \in sel
      /\ sel \cap Params # {}
      /\ "pub" \notin sel => Grouped
  BY SelectionsAre
<1>1. CASE fam \in {"rsa", "pss"}
  <2>1. k = RsaImport(sel, par)
    BY <1>1 DEF Import, Rsa, Ecx
  <2>2. "pub" \in sel /\ "other" \in sel
    BY <1>1, <1>s DEF Grouped
  <2>3. par.pub # None
    BY <1>0, <1>s, <2>1, <2>2 DEF RsaImport
  <2>4. /\ k.id = NoGrp /\ k.pub = par.pub /\ k.hasPub = TRUE
        /\ k.hasPriv = ("priv" \in sel) /\ k.priv = par.priv
        /\ fam = "pss" => k.pssDefSet = TRUE
                          /\ k.other = IF par.other = NoOther THEN PssDefaults ELSE par.other
    <3>1. RsaImport(sel, par) =
            [id |-> NoGrp, p |-> NoGrp, pub |-> par.pub, priv |-> par.priv,
             hasPub |-> "pub" \in sel, hasPriv |-> "priv" \in sel,
             other |-> IF ~(fam = "pss" /\ "other" \in sel) THEN NoOther
                       ELSE IF par.other = NoOther THEN PssDefaults ELSE par.other,
             pssDefSet |-> fam = "pss" /\ "other" \in sel, clamped |-> FALSE,
             unclamped |-> "given"]
      BY <1>0, <2>3, RsaImportIs
    <3>. HIDE DEF k
    <3>2. /\ k.id = NoGrp /\ k.pub = par.pub /\ k.priv = par.priv
          /\ k.hasPub = ("pub" \in sel) /\ k.hasPriv = ("priv" \in sel)
      BY <2>1, <3>1
    <3>3. k.pssDefSet = (fam = "pss" /\ "other" \in sel)
      BY <2>1, <3>1
    <3>4. fam = "pss" => k.other = IF par.other = NoOther THEN PssDefaults ELSE par.other
      BY <2>1, <2>2, <3>1
    <3>5. fam = "pss" => k.pssDefSet = TRUE
      BY <2>2, <3>3
    <3>6. k.hasPub = TRUE
      BY <2>2, <3>2
    <3>q. QED  BY <3>2, <3>4, <3>5, <3>6
  <2>5. /\ par.grp = NoGrp /\ par.p = NoGrp /\ (fam = "pss" => par.other # NoOther)
        /\ fam = "rsa" => par.other = NoOther
        /\ "priv" \in sel => par.priv # None
    BY <1>1 DEF Proper
  <2>6. /\ w.grp = NoGrp /\ w.pub = par.pub /\ w.other = par.other
        /\ w.priv = IF "priv" \in sel THEN par.priv ELSE None
    BY <1>0, <2>2, <2>3, <2>5, IntendedIs
  <2>. HIDE DEF k, w
  <2>7. RsaHolds(fam, k, w)
    BY <2>3, <2>4, <2>5, <2>6 DEF RsaHolds
  <2>q. QED  BY <1>0, <1>1, <2>7 DEF Holds, k, w
<1>2. CASE fam = "ec"
  <2>1. k = EcImport(sel, par)
    BY <1>2 DEF Import, Rsa, Ecx
  <2>2. par.grp \in Grp /\ par.p = NoGrp
    BY <1>0, <1>2, <1>s, <2>1, EcImportIs DEF Proper
  <2>3. /\ k.id = par.grp /\ k.pub = EcPubOf(sel, par) /\ k.priv = EcPrivOf(sel, par)
        /\ k.hasPub = (EcPubOf(sel, par) # None) /\ k.hasPriv = (EcPrivOf(sel, par) # None)
        /\ k.other = IF "other" \in sel THEN par.other ELSE NoOther
    BY <1>0, <1>s, <2>1, <2>2, Distinct, EcImportIs
  <2>4. /\ w.grp = par.grp /\ w.other = par.other /\ w.priv = EcPrivOf(sel, par)
    BY <1>0, <1>s, <2>2, Distinct, IntendedIs DEF EcPrivOf
  <2>5. /\ "pub" \in sel /\ par.pub = None => "priv" \in sel
        /\ "pub" \in sel /\ par.pub = None => par.priv # None /\ AutoPublic
        /\ "other" \notin sel => par.other = NoOther
    BY <1>2 DEF Proper
  <2>6. w.pub = EcPubOf(sel, par)
    <3>1. CASE "pub" \notin sel
      BY <1>0, <1>s, <3>1, IntendedIs DEF EcPubOf
    <3>2. CASE "pub" \in sel /\ par.pub # None
      BY <1>0, <1>s, <3>2, IntendedIs DEF EcPubOf
    <3>3. CASE "pub" \in sel /\ par.pub = None
      <4>1. Derives
        BY <1>2, <2>5, <3>3 DEF Derives
      <4>2. w.pub = par.priv[1]
        BY <1>0, <2>5, <3>3, <4>1, IntendedIs
      <4>3. EcPubOf(sel, par) = par.priv[1]
        BY <1>s, <2>2, <2>5, <3>3, Distinct DEF EcPubOf
      <4>q. QED  BY <4>2, <4>3
    <3>q. QED  BY <3>1, <3>2, <3>3
  <2>7. w.priv # None => w.pub # None
    <3>1. CASE par.pub # None
      BY <1>s, <2>4, <2>6, <3>1 DEF EcPrivOf, EcPubOf
    <3>2. CASE par.pub = None /\ "priv" \in sel
      <4>1. EcPubOf(sel, par) = par.priv[1] /\ par.priv \in Priv
        BY <1>0, <1>s, <2>2, <2>5, <3>2, Distinct DEF EcPubOf
      <4>q. QED  BY <2>6, <4>1, PrivIs, Distinct
    <3>3. CASE "priv" \notin sel
      BY <2>4, <3>3 DEF EcPrivOf
    <3>q. QED  BY <3>1, <3>2, <3>3
  <2>. HIDE DEF k, w
  <2>8. k.other = w.other
    BY <2>3, <2>4, <2>5
  <2>9. EcHolds(k, w)
    BY <2>2, <2>3, <2>4, <2>6, <2>7, <2>8 DEF EcHolds
  <2>q. QED  BY <1>0, <1>2, <2>9 DEF Holds, k, w
<1>3. CASE fam \in {"x", "ed"}
  <2>1. k = EcxImport(sel, par)
    BY <1>3 DEF Import, Rsa, Ecx
  <2>2. "pub" \in sel /\ Derives
    BY <1>3, <1>s DEF Grouped, Derives, Ecx
  <2>3. par.grp = NoGrp /\ par.p = NoGrp /\ par.other = NoOther
        /\ (par.pub = None => par.priv # None /\ "priv" \in sel)
    BY <1>3, <2>2 DEF Proper
  <2>4. w.grp = NoGrp /\ w.other = NoOther
        /\ w.priv = IF "priv" \in sel THEN par.priv ELSE None
    BY <1>0, <2>2, <2>3, IntendedIs
  <2>p. par.pub # None => w.pub = par.pub
    BY <1>0, <2>2, IntendedIs
  <2>n. par.pub = None => w.pub = par.priv[1]
    BY <1>0, <2>2, <2>3, IntendedIs
  <2>. HIDE DEF k, w
  <2>5. CASE EcxTakesPriv(sel, par)
    <3>1. /\ k.pub = par.pub /\ k.priv = Stored(par.priv) /\ k.hasPub = TRUE
          /\ k.hasPriv = TRUE /\ k.clamped = TRUE /\ k.unclamped = par.priv[2]
      BY <1>0, <2>1, <2>2, <2>5, EcxImportIs DEF EcxTakesPub
    <3>2. par.priv \in Priv /\ w.priv = par.priv
      BY <1>0, <2>4, <2>5 DEF EcxTakesPriv
    <3>3. /\ Stored(par.priv)[1] = par.priv[1] /\ Stored(par.priv) # None
          /\ par.priv[1] \in Mat /\ par.priv = <<par.priv[1], par.priv[2]>>
          /\ fam = "x" => Stored(par.priv) = <<par.priv[1], "clamped">>
          /\ fam # "x" => Stored(par.priv) = par.priv
      BY <3>2, StoredIs, PrivIs
    <3>4. w.pub # None /\ w.priv # None
      BY <1>0, <2>p, <2>n, <3>2, <3>3, Distinct
    <3>5. EcxPub(k) = w.pub
      BY <2>p, <2>n, <3>1, <3>3 DEF EcxPub
    <3>6. EcxPriv(k) = w.priv
      BY <3>1, <3>2, <3>3 DEF EcxPriv
    <3>7. EcxHolds(fam, k, w)
      BY <2>4, <3>1, <3>3, <3>4, <3>5, <3>6 DEF EcxHolds
    <3>q. QED  BY <1>0, <1>3, <3>7 DEF Holds, k, w
  <2>6. CASE ~EcxTakesPriv(sel, par)
    <3>1. w.priv = None /\ par.pub # None /\ w.pub = par.pub
      BY <2>3, <2>4, <2>p, <2>6 DEF EcxTakesPriv
    <3>2. /\ k.pub = par.pub /\ k.priv = None /\ k.hasPub = TRUE /\ k.hasPriv = FALSE
          /\ k.clamped = FALSE
      BY <1>0, <2>1, <2>2, <2>6, <3>1, EcxImportIs DEF EcxTakesPub
    <3>3. EcxHolds(fam, k, w)
      BY <2>4, <3>1, <3>2 DEF EcxHolds, EcxPub
    <3>q. QED  BY <1>0, <1>3, <3>3 DEF Holds, k, w
  <2>q. QED  BY <2>5, <2>6
<1>4. CASE fam = "dh"
  <2>1. k = DhImport(sel, par)
    BY <1>4 DEF Import, Rsa, Ecx
  <2>2. par.other = NoOther /\ (par.grp = NoGrp) # (par.p = NoGrp) /\ par.p \in Own \cup {NoGrp}
    BY <1>4 DEF Proper
  <2>3. par.grp # BadName
    BY <1>0, <1>s, <2>1, DhImportIs
  <2>4. /\ w.other = NoOther /\ w.priv = DhPrivOf(sel, par)
        /\ w.grp = IF par.grp # NoGrp THEN par.grp ELSE par.p
    BY <1>0, <2>2, IntendedIs DEF DhPrivOf
  <2>5. w.pub = DhPubOf(sel, par)
    <3>1. ~Derives
      BY <1>4 DEF Derives, Ecx
    <3>q. QED  BY <1>0, <1>s, <3>1, IntendedIs DEF DhPubOf
  <2>6. CASE par.grp \in Grp
    <3>1. k = [Blank EXCEPT !.id = par.grp, !.p = par.grp, !.pub = DhPubOf(sel, par),
                            !.priv = DhPrivOf(sel, par)]
      BY <1>0, <1>s, <2>1, <2>6, DhImportIs
    <3>2. k.id = par.grp /\ k.p = par.grp /\ k.pub = w.pub /\ k.priv = w.priv
      BY <2>4, <2>5, <3>1 DEF Blank
    <3>. HIDE DEF k, w
    <3>3. DhHolds(k, w)
      BY <2>4, <2>6, <3>2, Distinct DEF DhHolds
    <3>q. QED  BY <1>0, <1>4, <3>3 DEF Holds, k, w
  <2>7. CASE par.grp = NoGrp
    <3>1. k = [Blank EXCEPT !.p = par.p, !.pub = DhPubOf(sel, par),
                            !.priv = DhPrivOf(sel, par)]
      BY <1>0, <1>s, <2>1, <2>7, DhImportIs
    <3>2. k.id = NoGrp /\ k.p = par.p /\ k.pub = w.pub /\ k.priv = w.priv
      BY <2>4, <2>5, <3>1 DEF Blank
    <3>. HIDE DEF k, w
    <3>3. DhHolds(k, w)
      BY <2>2, <2>4, <2>7, <3>2, Distinct DEF DhHolds
    <3>q. QED  BY <1>0, <1>4, <3>3 DEF Holds, k, w
  <2>q. QED  BY <1>0, <2>3, <2>6, <2>7
<1>q. QED  BY <1>1, <1>2, <1>3, <1>4, FamilyCases

LEMMA GivenProper ==
  ASSUME Uses = {}, fam \in Families, NEW sel \in Selections, NEW m \in Mat,
         NEW par \in Given(sel, m), sel = {"domain"} => par.other = NoOther
  PROVE  Proper(sel, par)
<1>1. par \in Handed
  BY GivenIs
<1>2. /\ fam \notin {"ec", "dh"} => par.grp = NoGrp
      /\ fam # "dh" => par.p = NoGrp
      /\ fam = "ec" => par.grp # NoGrp
      /\ fam = "dh" => (par.grp = NoGrp) # (par.p = NoGrp)
      /\ par.priv = None /\ par.pub = None => sel \cap Pair = {}
      /\ par.pub = None /\ par.priv # None => "priv" \in sel
      /\ fam \notin {"ec", "pss"} => par.other = NoOther
  BY GivenIs
<1>3. /\ fam = "dh" => par.p \in Own \cup {NoGrp}
      /\ fam = "ec" /\ ~AutoPublic /\ par.pub = None => par.priv = None
      /\ fam \in {"rsa", "pss"} /\ "priv" \in sel => par.priv # None
      /\ fam = "pss" => par.other # NoOther
  BY PlainGiven
<1>4. /\ "other" \notin sel => sel = {"domain"}
      /\ sel \cap Pair # {} <=> "pub" \in sel
  BY SelectionsAre
<1>q. QED  BY <1>1, <1>2, <1>3, <1>4 DEF Proper

(* What a key exports, another can be imported from, and it holds the same.  *)
LEMMA HoldsRoundTrip ==
  ASSUME fam \in Families, NEW k, NEW w, Holds(fam, k, w), NEW sel \in Selections, KeyAnswers(w, sel)
  PROVE  LET j == Import(sel, Export(k, sel))
         IN /\ j # NoKey
            /\ \A part \in sel \cap Pair : Has(j, {part})
            /\ Parts(Export(j, sel), sel) = Parts(Export(k, sel), sel)
            /\ Grouped => Match(j, k, {"domain"})
            /\ "pub" \in sel => Equal(j, k)
<1>. DEFINE e == Export(k, sel)
            j == Import(sel, e)
            v == Intended(sel, e)
<1>1. /\ e \in Handed
      /\ Grouped => (IF e.grp # NoGrp THEN e.grp ELSE e.p) = w.grp
      /\ "pub" \in sel => e.pub = w.pub
      /\ "priv" \in sel => e.priv = w.priv
      /\ "priv" \notin sel /\ fam # "dh" => e.priv = None
      /\ e.other = IF "other" \in sel THEN w.other ELSE NoOther
      /\ e.grp = IF w.grp \in Grp THEN w.grp ELSE NoGrp
      /\ e.p = IF w.grp \in Own THEN w.grp ELSE NoGrp
  BY HoldsExport
<1>2. /\ "domain" \in sel /\ ("other" \in sel <=> "pub" \in sel)
      /\ "priv" \in sel => "pub" \in sel
      /\ sel \cap Pair # {} <=> "pub" \in sel
      /\ sel \cap Params # {}
      /\ "pub" \notin sel => Grouped
  BY SelectionsAre
<1>3. /\ "pub" \in sel => w.pub # None
      /\ "priv" \in sel => w.priv # None
  BY DEF KeyAnswers
<1>4. /\ fam \notin {"ec", "dh"} => w.grp = NoGrp
      /\ fam = "ec" => w.grp \in Grp
      /\ fam = "dh" => w.grp \in Grp \cup Own
      /\ fam \notin {"ec", "pss"} => w.other = NoOther
      /\ fam = "pss" => w.other # NoOther
  BY FamilyCases DEF Holds, RsaHolds, EcHolds, EcxHolds, DhHolds
<1>. HIDE DEF e
<1>5. Proper(sel, e)
  <2>1. /\ fam \notin {"ec", "dh"} => e.grp = NoGrp
        /\ fam # "dh" => e.p = NoGrp
        /\ fam = "ec" => e.grp # NoGrp
        /\ fam = "dh" => (e.grp = NoGrp) # (e.p = NoGrp) /\ e.p \in Own \cup {NoGrp}
    BY <1>1, <1>4, Distinct, FamilyCases
  <2>2. /\ fam \notin {"ec", "pss"} => e.other = NoOther
        /\ fam = "ec" /\ "other" \notin sel => e.other = NoOther
    BY <1>1, <1>4
  <2>3. fam = "pss" => e.other # NoOther
    BY <1>1, <1>2, <1>4 DEF Grouped
  <2>4. /\ fam # "dh" /\ e.pub = None /\ e.priv = None => "pub" \notin sel
        /\ fam # "dh" /\ e.pub = None /\ e.priv # None => "priv" \in sel
        /\ fam = "ec" /\ ~AutoPublic /\ e.pub = None => e.priv = None
        /\ fam \in {"rsa", "pss"} /\ "priv" \in sel => e.priv # None
    BY <1>1, <1>2, <1>3
  <2>q. QED  BY <1>1, <2>1, <2>2, <2>3, <2>4 DEF Proper
<1>6. j \in Keys
  <2>1. CASE Rsa
    <3>1. e.pub # None
      BY <1>1, <1>2, <1>3, <2>1 DEF Rsa, Grouped
    <3>2. j = RsaImport(sel, e)
      BY <2>1 DEF Import, Rsa, Ecx
    <3>q. QED  BY <1>1, <3>1, <3>2, RsaImportTyped
  <2>2. CASE Ecx
    <3>1. EcxTakesPub(sel, e)
      BY <1>1, <1>2, <1>3, <2>2 DEF Ecx, Grouped, EcxTakesPub
    <3>2. j = EcxImport(sel, e)
      BY <2>2 DEF Import, Rsa, Ecx
    <3>q. QED  BY <1>1, <3>1, <3>2, EcxImportTyped
  <2>3. CASE fam = "ec"
    <3>1. e.grp \in Grp /\ e.grp # NoGrp
      BY <1>1, <1>4, <2>3, Distinct
    <3>2. j = EcImport(sel, e)
      BY <2>3 DEF Import, Rsa, Ecx
    <3>q. QED  BY <1>1, <1>2, <3>1, <3>2, EcImportTyped
  <2>4. CASE fam = "dh"
    <3>1. e.grp # BadName
      BY <1>1, Distinct
    <3>2. j = DhImport(sel, e)
      BY <2>4 DEF Import, Rsa, Ecx
    <3>q. QED  BY <1>1, <1>2, <3>1, <3>2, DhImportTyped
  <2>q. QED  BY <2>1, <2>2, <2>3, <2>4, FamilyCases DEF Rsa, Ecx
<1>7. j # NoKey
  BY <1>6, Distinct
<1>8. Holds(fam, j, v)
  BY <1>5, <1>7, ImportHolds
<1>9. /\ v.grp = w.grp
      /\ "pub" \in sel => v.pub = w.pub
      /\ "priv" \in sel => v.priv = w.priv
      /\ "other" \in sel => v.other = w.other
  <2>1. v.grp = IF e.grp # NoGrp THEN e.grp ELSE e.p
    BY <1>1, IntendedIs
  <2>2. v.grp = w.grp
    BY <1>1, <1>4, <2>1, Distinct, FamilyCases DEF Grouped
  <2>3. "pub" \in sel => v.pub = w.pub
    BY <1>1, <1>3, IntendedIs
  <2>4. "priv" \in sel => v.priv = w.priv
    BY <1>1, IntendedIs
  <2>5. "other" \in sel => v.other = w.other
    BY <1>1, IntendedIs
  <2>q. QED  BY <2>2, <2>3, <2>4, <2>5
<1>. HIDE DEF j, v
<1>10. KeyAnswers(v, sel)
  BY <1>3, <1>9 DEF KeyAnswers
<1>11. \A part \in sel \cap Pair : Has(j, {part})
  <2>1. (Has(j, {"pub"}) <=> v.pub # None) /\ (Has(j, {"priv"}) <=> v.priv # None)
    BY <1>8, HoldsHas
  <2>q. QED  BY <1>3, <1>9, <2>1 DEF Pair
<1>12. Parts(Export(j, sel), sel) = Parts(e, sel)
  <2>. DEFINE d == Export(j, sel)
  <2>1. /\ d \in Handed
        /\ "pub" \in sel => d.pub = v.pub
        /\ "priv" \in sel => d.priv = v.priv
        /\ d.other = IF "other" \in sel THEN v.other ELSE NoOther
        /\ d.grp = IF v.grp \in Grp THEN v.grp ELSE NoGrp
        /\ d.p = IF v.grp \in Own THEN v.grp ELSE NoGrp
    BY <1>8, <1>10, HoldsExport
  <2>. HIDE DEF d
  <2>2. /\ d.grp = e.grp /\ d.p = e.p /\ d.other = e.other
        /\ "pub" \in sel => d.pub = e.pub
        /\ "priv" \in sel => d.priv = e.priv
    BY <1>1, <1>9, <2>1
  <2>3. \A x \in Handed :
          Parts(x, sel) = [grp |-> x.grp, p |-> x.p,
                           pub |-> IF "pub" \in sel THEN x.pub ELSE None,
                           priv |-> IF "priv" \in sel THEN x.priv ELSE None,
                           other |-> x.other]
    <3>. SUFFICES ASSUME NEW x \in Handed
                  PROVE  Parts(x, sel) =
                           [grp |-> x.grp, p |-> x.p,
                            pub |-> IF "pub" \in sel THEN x.pub ELSE None,
                            priv |-> IF "priv" \in sel THEN x.priv ELSE None,
                            other |-> x.other]
      OBVIOUS
    <3>. DEFINE m == IF "pub" \in sel THEN x.pub ELSE None
                u == IF "priv" \in sel THEN x.priv ELSE None
    <3>1. Parts(x, sel) = [x EXCEPT !.pub = m, !.priv = u]
      BY DEF Parts
    <3>2. x = [grp |-> x.grp, p |-> x.p, pub |-> x.pub, priv |-> x.priv, other |-> x.other]
      BY DEF Handed
    <3>3. Parts(x, sel) = [grp |-> x.grp, p |-> x.p, pub |-> m, priv |-> u, other |-> x.other]
      <4>. HIDE DEF m, u
      <4>q. QED  BY <3>1, <3>2
    <3>q. QED  BY <3>3
  <2>4. Parts(d, sel) = [grp |-> e.grp, p |-> e.p,
                         pub |-> IF "pub" \in sel THEN e.pub ELSE None,
                         priv |-> IF "priv" \in sel THEN e.priv ELSE None,
                         other |-> e.other]
    BY <2>1, <2>2, <2>3
  <2>5. Parts(d, sel) = Parts(e, sel)
    BY <1>1, <2>3, <2>4
  <2>q. QED  BY <2>5 DEF d
<1>13. Grouped => Match(j, k, {"domain"})
  BY <1>8, <1>9, HoldsMatch
<1>14. "pub" \in sel => Equal(j, k)
  BY <1>3, <1>8, <1>9, HoldsEqual
<1>q. QED  BY <1>7, <1>11, <1>12, <1>13, <1>14 DEF j, e

------------------------------------------------------------------------------
(* The other operations keep what is said true. *)
LEMMA KeyPairIs ==
  /\ "domain" \in KeyPair /\ "other" \in KeyPair /\ "pub" \in KeyPair /\ "priv" \in KeyPair
  /\ KeyPair \cap Pair # {}
BY DEF KeyPair, Public, Params, Pair

LEMMA DupHolds ==
  ASSUME fam \in Families, NEW k, NEW w, Holds(fam, k, w), Dup(k, KeyPair) # NoKey,
         Rsa => w.priv # None,
         ~(fam = "x" /\ k.clamped /\ k.unclamped = "given")
  PROVE  Holds(fam, Dup(k, KeyPair), w)
<1>. DEFINE j == Dup(k, KeyPair)
<1>0. k \in Keys /\ w \in SaidParts
  BY DEF Holds
<1>1. j \in Keys
  BY <1>0, DupTyped
<1>2. CASE fam \in {"rsa", "pss"}
  <2>1. j = RsaDup(k, KeyPair)
    BY <1>2 DEF Dup, Rsa, Ecx
  <2>2. j = [k EXCEPT !.priv = k.priv, !.hasPub = TRUE, !.hasPriv = TRUE]
    BY <1>0, <2>1, KeyPairIs DEF RsaDup, Keys
  <2>. HIDE DEF j
  <2>3. /\ j.id = k.id /\ j.pub = k.pub /\ j.priv = k.priv /\ j.other = k.other
        /\ j.pssDefSet = k.pssDefSet /\ j.hasPub = TRUE /\ j.hasPriv = TRUE
    BY <1>0, <2>2 DEF Keys
  <2>4. RsaHolds(fam, j, w)
    BY <1>2, <2>3 DEF RsaHolds, Holds, Rsa
  <2>q. QED  BY <1>0, <1>1, <1>2, <2>4 DEF Holds, j
<1>3. CASE fam = "ec"
  <2>0. EcHolds(k, w)
    BY <1>3 DEF Holds
  <2>1. j = EcDup(k, KeyPair)
    BY <1>3 DEF Dup, Rsa, Ecx
  <2>. HIDE DEF j
  <2>2. /\ j.id = k.id /\ j.other = k.other
        /\ j.pub = IF k.hasPub THEN k.pub ELSE None
        /\ j.priv = IF k.hasPriv THEN k.priv ELSE None
    BY <2>1, KeyPairIs DEF EcDup, Blank
  <2>3. j.hasPub = k.hasPub /\ j.hasPriv = k.hasPriv
    <3>1. j.hasPub = (k.hasPub /\ "pub" \in KeyPair) /\ j.hasPriv = (k.hasPriv /\ "priv" \in KeyPair)
      BY <2>1 DEF EcDup, Blank
    <3>q. QED  BY <1>0, <3>1, KeyIs, KeyPairIs
  <2>4. EcHolds(j, w)
    BY <2>0, <2>2, <2>3 DEF EcHolds
  <2>q. QED  BY <1>0, <1>1, <1>3, <2>4 DEF Holds, j
<1>4. CASE fam \in {"x", "ed"}
  <2>0. EcxHolds(fam, k, w)
    BY <1>4 DEF Holds
  <2>1. j = EcxDup(k, KeyPair)
    BY <1>4 DEF Dup, Rsa, Ecx
  <2>. HIDE DEF j
  <2>2. /\ j.pub = k.pub /\ j.priv = k.priv /\ j.hasPub = k.hasPub /\ j.hasPriv = k.hasPriv
        /\ j.clamped = FALSE
    BY <1>0, <2>1 DEF EcxDup, Keys
  <2>3. w.priv # None => EcxPriv(k) = k.priv
    <3>1. CASE ~k.clamped
      BY <3>1 DEF EcxPriv
    <3>2. CASE k.clamped /\ fam = "x"
      <4>1. k.unclamped = "clamped" /\ k.clamped = TRUE
        BY <1>0, <3>2, KeyIs DEF Form
      <4>2. k.priv = <<k.priv[1], "clamped">>
        BY <2>0, <3>2, <4>1 DEF EcxHolds
      <4>q. QED  BY <4>1, <4>2 DEF EcxPriv
    <3>3. CASE k.clamped /\ fam = "ed"
      <4>1. k.clamped = TRUE
        BY <1>0, <3>3, KeyIs
      <4>2. k.priv = <<k.priv[1], k.unclamped>>
        BY <2>0, <3>3, <4>1 DEF EcxHolds
      <4>q. QED  BY <4>2 DEF EcxPriv
    <3>q. QED  BY <1>4, <3>1, <3>2, <3>3
  <2>4. EcxPub(j) = EcxPub(k) /\ EcxPriv(j) = k.priv
    BY <2>2 DEF EcxPub, EcxPriv
  <2>5. EcxHolds(fam, j, w)
    BY <2>0, <2>2, <2>3, <2>4 DEF EcxHolds
  <2>q. QED  BY <1>0, <1>1, <1>4, <2>5 DEF Holds, j
<1>5. CASE fam = "dh"
  <2>0. DhHolds(k, w)
    BY <1>5 DEF Holds
  <2>1. j = DhDup(k, KeyPair)
    BY <1>5 DEF Dup, Rsa, Ecx
  <2>2. DhDup(k, KeyPair) # NoKey
    BY <2>1
  <2>. HIDE DEF j
  <2>3. j = [Blank EXCEPT !.id = k.id, !.p = k.p, !.pub = k.pub, !.priv = k.priv]
    BY <2>1, <2>2, KeyPairIs DEF DhDup
  <2>4. j.id = k.id /\ j.p = k.p /\ j.pub = k.pub /\ j.priv = k.priv
    BY <2>3 DEF Blank
  <2>5. DhHolds(j, w)
    BY <2>0, <2>4 DEF DhHolds
  <2>q. QED  BY <1>0, <1>1, <1>5, <2>5 DEF Holds, j
<1>q. QED  BY <1>2, <1>3, <1>4, <1>5, FamilyCases

(* EVP_PKEY_copy_parameters copies the group alone, and of an ECX key without *)
(* a public key nothing.                                                      *)
LEMMA DupParamsHolds ==
  ASSUME fam \in Families, NEW k, NEW w, Holds(fam, k, w), Ecx => w.pub = None,
         Dup(k, Params) # NoKey
  PROVE  Holds(fam, Dup(k, Params), [w EXCEPT !.pub = None, !.priv = None])
<1>. DEFINE j == Dup(k, Params)
            v == [w EXCEPT !.pub = None, !.priv = None]
<1>1. k \in Keys /\ w \in SaidParts
  BY DEF Holds
<1>2. j \in Keys
  BY <1>1, DupTyped
<1>3. v \in SaidParts /\ v.grp = w.grp /\ v.other = w.other /\ v.pub = None /\ v.priv = None
  BY <1>1 DEF SaidParts
<1>s. /\ "domain" \in Params /\ "other" \in Params /\ "pub" \notin Params /\ "priv" \notin Params
      /\ Params \cap Pair = {}
  BY DEF Params, Pair
<1>4. ~Rsa
  BY <1>s DEF Dup, RsaDup, Rsa, Ecx
<1>5. CASE Ecx
  <2>1. j = EcxDup(k, Params) /\ EcxHolds(fam, k, w)
    BY <1>5 DEF Dup, Rsa, Ecx, Holds
  <2>. HIDE DEF j, v
  <2>2. /\ j.priv = k.priv /\ j.hasPub = k.hasPub /\ j.hasPriv = k.hasPriv /\ j.clamped = FALSE
    BY <1>1, <2>1 DEF EcxDup, Keys
  <2>3. EcxHolds(fam, j, v)
    BY <1>3, <1>5, <2>1, <2>2 DEF EcxHolds
  <2>q. QED  BY <1>2, <1>3, <1>5, <2>3 DEF Holds, Ecx, j, v
<1>6. CASE fam = "ec"
  <2>1. j = EcDup(k, Params) /\ EcHolds(k, w)
    BY <1>6 DEF Dup, Rsa, Ecx, Holds
  <2>. HIDE DEF j, v
  <2>2. /\ j.id = k.id /\ j.other = k.other /\ j.pub = None /\ j.priv = None
        /\ j.hasPub = FALSE /\ j.hasPriv = FALSE
    BY <1>s, <2>1 DEF EcDup, Blank
  <2>3. EcHolds(j, v)
    BY <1>3, <2>1, <2>2 DEF EcHolds
  <2>q. QED  BY <1>2, <1>3, <1>6, <2>3 DEF Holds, j, v
<1>7. CASE fam = "dh"
  <2>1. j = DhDup(k, Params) /\ DhHolds(k, w)
    BY <1>7 DEF Dup, Rsa, Ecx, Holds
  <2>2. DhDup(k, Params) # NoKey
    BY <2>1
  <2>. HIDE DEF j, v
  <2>3. j.id = k.id /\ j.p = k.p /\ j.pub = None /\ j.priv = None
    BY <1>s, <2>1, <2>2 DEF DhDup, Blank
  <2>4. DhHolds(j, v)
    BY <1>3, <2>1, <2>3 DEF DhHolds
  <2>q. QED  BY <1>2, <1>3, <1>7, <2>4 DEF Holds, j, v
<1>q. QED  BY <1>4, <1>5, <1>6, <1>7, FamilyCases DEF Rsa, Ecx

LEMMA SetPubHolds ==
  ASSUME fam \in Families, NEW k, NEW w, Holds(fam, k, w), w.priv = None, NEW m \in Mat
  PROVE  LET v == [w EXCEPT !.pub = m]
         IN /\ fam = "ec" => Holds(fam, EcSetPub(k, m), v)
            /\ Ecx => Holds(fam, EcxSetPub(k, m), v)
            /\ fam = "dh" => Holds(fam, [k EXCEPT !.pub = m], v)
<1>. DEFINE v == [w EXCEPT !.pub = m]
<1>0. k \in Keys /\ w \in SaidParts /\ m # None
  BY Distinct DEF Holds
<1>1. /\ v \in SaidParts /\ v.grp = w.grp /\ v.other = w.other /\ v.priv = w.priv /\ v.pub = m
  BY <1>0 DEF SaidParts
<1>. HIDE DEF v
<1>2. CASE fam = "ec"
  <2>. DEFINE j == EcSetPub(k, m)
  <2>1. /\ j \in Keys /\ j.id = k.id /\ j.pub = m /\ j.priv = k.priv /\ j.other = k.other
        /\ j.hasPub = TRUE /\ j.hasPriv = k.hasPriv
    BY <1>0 DEF EcSetPub, Keys
  <2>. HIDE DEF j
  <2>2. EcHolds(j, v)
    BY <1>0, <1>1, <1>2, <2>1 DEF EcHolds, Holds
  <2>3. Holds(fam, j, v)
    BY <1>1, <1>2, <2>1, <2>2 DEF Holds
  <2>q. QED  BY <1>2, <2>3 DEF v, j, Ecx
<1>3. CASE Ecx
  <2>. DEFINE j == EcxSetPub(k, m)
  <2>1. /\ j \in Keys /\ j.pub = m /\ j.priv = k.priv /\ j.clamped = k.clamped
        /\ j.unclamped = k.unclamped /\ j.hasPub = TRUE /\ j.hasPriv = k.hasPriv
    BY <1>0 DEF EcxSetPub, Keys
  <2>. HIDE DEF j
  <2>2. EcxHolds(fam, j, v)
    BY <1>0, <1>1, <1>3, <2>1 DEF EcxHolds, Holds, Ecx, EcxPub
  <2>3. Holds(fam, j, v)
    BY <1>1, <1>3, <2>1, <2>2 DEF Holds, Ecx
  <2>q. QED  BY <1>3, <2>3 DEF v, j, Ecx
<1>4. CASE fam = "dh"
  <2>. DEFINE j == [k EXCEPT !.pub = m]
  <2>1. j \in Keys /\ j.id = k.id /\ j.p = k.p /\ j.pub = m /\ j.priv = k.priv
    BY <1>0 DEF Keys
  <2>. HIDE DEF j
  <2>2. DhHolds(j, v)
    BY <1>0, <1>1, <1>4, <2>1 DEF DhHolds, Holds
  <2>3. Holds(fam, j, v)
    BY <1>1, <1>4, <2>1, <2>2 DEF Holds
  <2>q. QED  BY <1>4, <2>3 DEF v, j, Ecx
<1>q. QED  BY <1>2, <1>3, <1>4 DEF Ecx

LEMMA NewPairIs ==
  ASSUME fam \in Families, NEW k \in Keys, NEW m \in Mat
  PROVE  LET j == NewPair(k, m)
         IN /\ j.id = k.id /\ j.p = k.p /\ j.other = k.other /\ j.pssDefSet = k.pssDefSet
            /\ j.clamped = k.clamped /\ j.pub = m /\ j.hasPub = TRUE /\ j.hasPriv = TRUE
            /\ j.priv = Stored(<<m, "given">>)
            /\ j \in Keys
<1>. DEFINE v == Stored(<<m, "given">>)
<1>1. NewPair(k, m) = [k EXCEPT !.pub = m, !.priv = v, !.hasPub = TRUE, !.hasPriv = TRUE]
  BY DEF NewPair
<1>2. NewPair(k, m) \in Keys
  BY NewPairTyped
<1>. HIDE DEF v
<1>3. LET j == NewPair(k, m)
      IN /\ j.id = k.id /\ j.p = k.p /\ j.other = k.other /\ j.pssDefSet = k.pssDefSet
         /\ j.clamped = k.clamped /\ j.pub = m /\ j.hasPub = TRUE /\ j.hasPriv = TRUE
         /\ j.priv = v
  BY <1>1 DEF Keys
<1>q. QED  BY <1>2, <1>3 DEF v

LEMMA GenSelections ==
  /\ Params \cap Pair = {} /\ Pair \cap Pair # {} /\ Params # Pair
  /\ "domain" \in Params /\ "domain" \notin Pair
BY DEF Params, Pair

LEMMA SaidOfGen ==
  ASSUME NEW sel, NEW m \in Mat, NEW g \in Grp \cup Own \cup {NoGrp},
         NEW o \in Other \cup {NoOther}
  PROVE  LET w == [grp |-> g, pub |-> IF sel = Pair THEN m ELSE None,
                   priv |-> IF sel = Pair THEN Stored(<<m, "given">>) ELSE None,
                   other |-> o]
         IN /\ w \in SaidParts /\ w.grp = g /\ w.other = o
            /\ sel = Pair => w.pub = m /\ w.pub # None
                             /\ w.priv = Stored(<<m, "given">>) /\ w.priv # None
            /\ sel # Pair => w.pub = None /\ w.priv = None
<1>1. m # None /\ Stored(<<m, "given">>) \in Priv /\ Stored(<<m, "given">>) # None
  BY MadePriv, StoredIs, Distinct DEF Form
<1>. DEFINE pub == IF sel = Pair THEN m ELSE None
            v == Stored(<<m, "given">>)
            priv == IF sel = Pair THEN v ELSE None
<1>2. pub \in Mat \cup {None} /\ priv \in Priv \cup {None}
  BY <1>1
<1>3. [grp |-> g, pub |-> pub, priv |-> priv, other |-> o] \in SaidParts
  <2>. HIDE DEF pub, priv
  <2>q. QED  BY <1>2 DEF SaidParts
<1>q. QED  BY <1>1, <1>3

LEMMA RsaGenHolds ==
  ASSUME fam = "rsa", fam \in Families, NEW sel \in {Params, Pair}, NEW m \in Mat,
         NEW w \in SaidParts, RsaGen(sel, NoOther, m) # NoKey,
         w.grp = NoGrp, w.other = NoOther,
         sel = Pair => w.pub = m /\ w.pub # None /\ w.priv = Stored(<<m, "given">>)
                       /\ w.priv # None
  PROVE  Holds(fam, RsaGen(sel, NoOther, m), w)
<1>. DEFINE n == NewPair(Blank, m)
            j == [n EXCEPT !.other = NoOther]
<1>1. sel = Pair /\ RsaGen(sel, NoOther, m) = j
  BY GenSelections DEF RsaGen
<1>2. /\ n.id = NoGrp /\ n.pub = m /\ n.hasPub = TRUE /\ n.hasPriv = TRUE
      /\ n.priv = Stored(<<m, "given">>) /\ n \in Keys
  <2>1. Blank.id = NoGrp
    BY DEF Blank
  <2>q. QED  BY <2>1, BlankTyped, NewPairIs
<1>. HIDE DEF n
<1>3. /\ j.id = NoGrp /\ j.pub = m /\ j.hasPub = TRUE /\ j.hasPriv = TRUE
      /\ j.priv = Stored(<<m, "given">>) /\ j \in Keys
  BY <1>2 DEF Keys
<1>. HIDE DEF j
<1>4. RsaHolds(fam, j, w)
  BY <1>1, <1>3 DEF RsaHolds
<1>q. QED  BY <1>1, <1>3, <1>4 DEF Holds

LEMMA EcxGenHolds ==
  ASSUME Ecx, fam \in Families, NEW sel \in {Params, Pair}, NEW m \in Mat, NEW w \in SaidParts,
         w.grp = NoGrp, w.other = NoOther,
         sel = Pair => w.pub = m /\ w.pub # None /\ w.priv = Stored(<<m, "given">>)
                       /\ w.priv # None,
         sel # Pair => w.pub = None /\ w.priv = None
  PROVE  Holds(fam, EcxGen(sel, m), w)
<1>1. CASE sel = Pair
  <2>. DEFINE j == NewPair(Blank, m)
  <2>1. EcxGen(sel, m) = j
    BY <1>1, GenSelections DEF EcxGen
  <2>2. /\ j.pub = m /\ j.hasPub = TRUE /\ j.hasPriv = TRUE /\ j.clamped = FALSE
        /\ j.priv = Stored(<<m, "given">>) /\ j \in Keys
    <3>1. Blank.clamped = FALSE
      BY DEF Blank
    <3>q. QED  BY <3>1, BlankTyped, NewPairIs
  <2>. HIDE DEF j
  <2>3. EcxHolds(fam, j, w)
    BY <1>1, <2>2 DEF EcxHolds, EcxPub, EcxPriv
  <2>q. QED  BY <2>1, <2>2, <2>3 DEF Holds, Ecx
<1>2. CASE sel # Pair
  <2>1. EcxGen(sel, m) = Blank
    BY <1>2, GenSelections DEF EcxGen
  <2>2. /\ Blank.pub = None /\ Blank.priv = None /\ Blank.hasPub = FALSE
        /\ Blank.hasPriv = FALSE /\ Blank.clamped = FALSE
    BY DEF Blank
  <2>3. EcxHolds(fam, Blank, w)
    BY <1>2, <2>2 DEF EcxHolds
  <2>q. QED  BY <2>1, <2>3, BlankTyped DEF Holds, Ecx
<1>q. QED  BY <1>1, <1>2

LEMMA EcGenHolds ==
  ASSUME fam = "ec", fam \in Families, NEW sel \in {Params, Pair}, NEW m \in Mat,
         NEW w \in SaidParts, NEW name \in Grp \cup {BadName, NoGrp},
         NEW o \in Other \cup {NoOther}, sel = Params => o = NoOther,
         NEW from, from # NoKey => from.id \in Grp,
         EcGen(sel, name, o, from, m) # NoKey,
         w.grp = IF from # NoKey THEN from.id ELSE name, w.other = o,
         sel = Pair => w.pub = m /\ w.pub # None /\ w.priv = Stored(<<m, "given">>)
                       /\ w.priv # None,
         sel # Pair => w.pub = None /\ w.priv = None
  PROVE  Holds(fam, EcGen(sel, name, o, from, m), w)
<1>. DEFINE asked == IF from # NoKey THEN from.id ELSE name
            k == EcGroup(Blank, asked)
<1>1. asked # NoGrp /\ k # NoKey
  BY DEF EcGen
<1>2. asked \in Grp /\ k = [Blank EXCEPT !.id = asked]
  BY <1>1 DEF EcGroup
<1>3. EcGen(sel, name, o, from, m) =
        IF sel = Pair THEN [NewPair(k, m) EXCEPT !.other = o] ELSE k
  BY <1>1, GenSelections DEF EcGen
<1>4. w.grp = asked
  OBVIOUS
<1>. HIDE DEF asked, k
<1>5. /\ k \in Keys /\ k.id = asked /\ k.pub = None /\ k.priv = None /\ k.hasPub = FALSE
      /\ k.hasPriv = FALSE /\ k.other = NoOther
  BY <1>2 DEF Blank, Keys, Form
<1>6. CASE sel = Pair
  <2>. DEFINE n == NewPair(k, m)
              j == [n EXCEPT !.other = o]
  <2>1. /\ n \in Keys /\ n.id = asked /\ n.pub = m /\ n.hasPub = TRUE /\ n.hasPriv = TRUE
        /\ n.priv = Stored(<<m, "given">>)
    BY <1>5, NewPairIs
  <2>. HIDE DEF n
  <2>2. /\ j \in Keys /\ j.id = asked /\ j.pub = m /\ j.hasPub = TRUE /\ j.hasPriv = TRUE
        /\ j.priv = Stored(<<m, "given">>) /\ j.other = o
    BY <2>1 DEF Keys
  <2>3. EcGen(sel, name, o, from, m) = j
    BY <1>3, <1>6 DEF n
  <2>. HIDE DEF j
  <2>4. EcHolds(j, w)
    BY <1>2, <1>4, <1>6, <2>2 DEF EcHolds
  <2>q. QED  BY <2>2, <2>3, <2>4 DEF Holds
<1>7. CASE sel # Pair
  <2>1. EcHolds(k, w) /\ EcGen(sel, name, o, from, m) = k
    BY <1>2, <1>3, <1>4, <1>5, <1>7 DEF EcHolds
  <2>q. QED  BY <1>5, <2>1 DEF Holds
<1>q. QED  BY <1>6, <1>7

LEMMA DhGenHolds ==
  ASSUME fam = "dh", fam \in Families, NEW sel \in {Params, Pair}, NEW m \in Mat, NEW p \in Own,
         NEW w \in SaidParts, NEW name \in Grp \cup {BadName, NoGrp},
         NEW from \in Keys \cup {NoKey},
         from # NoKey => sel = Pair /\ from.p \in Own,
         DhGen(sel, name, from, m, p) # NoKey,
         w.grp = IF sel = Params THEN p ELSE IF from # NoKey THEN from.p ELSE name,
         w.other = NoOther,
         sel = Pair => w.pub = m /\ w.priv = <<m, "given">>,
         sel # Pair => w.pub = None /\ w.priv = None
  PROVE  Holds(fam, DhGen(sel, name, from, m, p), w)
<1>. DEFINE k == DhGenGroup(sel, name, from, p)
<1>1. k # NoKey
  BY DEF DhGen
<1>2. \/ k = [Blank EXCEPT !.p = w.grp] /\ w.grp \in Own
      \/ k = [Blank EXCEPT !.id = w.grp, !.p = w.grp] /\ w.grp \in Grp
  <2>1. CASE sel = Params
    BY <2>1, GenSelections DEF DhGenGroup
  <2>2. CASE sel = Pair /\ from # NoKey
    BY <2>2, GenSelections DEF DhGenGroup
  <2>3. CASE sel = Pair /\ from = NoKey
    BY <1>1, <2>3, GenSelections DEF DhGenGroup, DhGroup
  <2>q. QED  BY <2>1, <2>2, <2>3
<1>. HIDE DEF k
<1>. DEFINE g == w.grp
<1>3. /\ \/ k.id \in Grp /\ k.p = k.id /\ g = k.id
         \/ k.id = NoGrp /\ k.p \in Own /\ g = k.p
      /\ k.pub = None /\ k.priv = None /\ k \in Keys
  <2>1. \/ k = [Blank EXCEPT !.p = g] /\ g \in Own
        \/ k = [Blank EXCEPT !.id = g, !.p = g] /\ g \in Grp
    BY <1>2
  <2>. HIDE DEF g
  <2>2. CASE k = [Blank EXCEPT !.p = g] /\ g \in Own
    BY <2>2, BlankTyped DEF Blank, Keys
  <2>3. CASE k = [Blank EXCEPT !.id = g, !.p = g] /\ g \in Grp
    BY <2>3, BlankTyped DEF Blank, Keys
  <2>q. QED  BY <2>1, <2>2, <2>3
<1>4. DhGen(sel, name, from, m, p) = IF sel = Pair THEN DhGenPair(k, m) ELSE k
  BY <1>1, GenSelections DEF DhGen, k
<1>5. CASE sel = Pair
  <2>. DEFINE u == <<m, "given">>
              j == DhGenPair(k, m)
  <2>1. u \in Priv
    BY MadePriv DEF Form
  <2>2. j = [k EXCEPT !.pub = m, !.priv = u]
    BY DEF DhGenPair
  <2>3. w.priv = u /\ w.pub = m
    BY <1>5
  <2>4. DhGen(sel, name, from, m, p) = j
    BY <1>4, <1>5
  <2>. HIDE DEF u, j
  <2>5. j \in Keys /\ j.id = k.id /\ j.p = k.p /\ j.pub = m /\ j.priv = u
    BY <1>3, <2>1, <2>2 DEF Keys
  <2>6. DhHolds(j, w)
    BY <1>3, <2>3, <2>5 DEF DhHolds
  <2>q. QED  BY <2>4, <2>5, <2>6 DEF Holds
<1>6. CASE sel # Pair
  <2>1. DhHolds(k, w)
    BY <1>3, <1>6 DEF DhHolds
  <2>q. QED  BY <1>3, <1>4, <1>6, <2>1 DEF Holds
<1>q. QED  BY <1>5, <1>6

------------------------------------------------------------------------------
(* The invariant, for programs that keep to the uses the properties are about. *)
LEMMA HeldNext ==
  ASSUME fam' = fam,
         \A s \in Slot : keys'[s] # NoKey => Holds(fam, keys'[s], said'[s])
  PROVE  Held'
<1>1. Held' <=> \A s \in Slot : keys'[s] # NoKey => Holds(fam', keys'[s], said'[s])
  BY DEF Held, Holds, RsaHolds, EcHolds, EcxHolds, DhHolds
<1>q. QED  BY <1>1

LEMMA NewKeyHolds ==
  ASSUME Types, Held, NEW s \in Slot, NEW k, NEW w, NewKey(s, k, w), Holds(fam, k, w)
  PROVE  Held'
<1>1. fam' = fam
  BY DEF NewKey
<1>2. SUFFICES ASSUME NEW t \in Slot, keys'[t] # NoKey PROVE Holds(fam, keys'[t], said'[t])
  BY <1>1, HeldNext
<1>3. CASE t = s
  <2>1. keys'[t] = k /\ said'[t] = w
    BY <1>3 DEF NewKey, Types, TypeOK
  <2>q. QED  BY <2>1
<1>4. CASE t # s
  <2>1. keys'[t] = keys[t] /\ said'[t] = said[t]
    BY <1>4 DEF NewKey, Types, TypeOK
  <2>q. QED  BY <1>2, <2>1 DEF Held
<1>q. QED  BY <1>3, <1>4

LEMMA ImportKeyHolds ==
  ASSUME Uses = {}, Types, Held, NEW s \in Slot, ImportKey(s)
  PROVE  Held'
<1>0. fam \in Families
  BY DEF Types, TypeOK
<1>1. PICK sel \in Selections, m \in Mat :
        \E par \in Given(sel, m) : /\ sel = {"domain"} => par.other = NoOther
                                   /\ NewKey(s, Import(sel, par), Intended(sel, par))
  BY DEF ImportKey
<1>2. PICK par \in Given(sel, m) : /\ sel = {"domain"} => par.other = NoOther
                                   /\ NewKey(s, Import(sel, par), Intended(sel, par))
  BY <1>1
<1>3. Proper(sel, par)
  BY <1>0, <1>2, GivenProper
<1>4. Import(sel, par) # NoKey
  BY <1>2 DEF NewKey
<1>5. Holds(fam, Import(sel, par), Intended(sel, par))
  BY <1>0, <1>3, <1>4, ImportHolds
<1>q. QED  BY <1>2, <1>5, NewKeyHolds

LEMMA DupKeyHolds ==
  ASSUME Uses = {}, Types, Held, NEW s \in Slot, NEW d \in Slot, DupKey(s, d)
  PROVE  Held'
<1>1. fam \in Families /\ Holds(fam, keys[s], said[s])
  BY DEF Types, TypeOK, Held, DupKey, Live
<1>2. CASE /\ Rsa => said[s].priv # None
           /\ ~(fam = "x" /\ keys[s].clamped /\ keys[s].unclamped = "given")
           /\ NewKey(d, Dup(keys[s], KeyPair), said[s])
  <2>1. Dup(keys[s], KeyPair) # NoKey
    BY <1>2 DEF NewKey
  <2>2. Holds(fam, Dup(keys[s], KeyPair), said[s])
    BY <1>1, <1>2, <2>1, DupHolds
  <2>q. QED  BY <1>2, <2>2, NewKeyHolds
<1>3. CASE /\ Ecx => said[s].pub = None
           /\ NewKey(d, Dup(keys[s], Params), [said[s] EXCEPT !.pub = None, !.priv = None])
  <2>0. Dup(keys[s], Params) # NoKey
    BY <1>3 DEF NewKey
  <2>1. Holds(fam, Dup(keys[s], Params), [said[s] EXCEPT !.pub = None, !.priv = None])
    BY <1>1, <1>3, <2>0, DupParamsHolds
  <2>q. QED  BY <1>3, <2>1, NewKeyHolds
<1>4. /\ ~Does("dup_public") /\ ~Does("dup_private") /\ ~Does("copy_parameters")
  BY DEF Does
<1>5. keys[s].clamped \in BOOLEAN
  BY <1>1, KeyIs DEF Holds
<1>6. \/ /\ Rsa /\ said[s].priv = None => Does("dup_public")
         /\ fam = "x" /\ keys[s].clamped /\ keys[s].unclamped = "given" => Does("dup_private")
         /\ NewKey(d, Dup(keys[s], KeyPair), said[s])
      \/ /\ Ecx /\ said[s].pub # None => Does("copy_parameters")
         /\ NewKey(d, Dup(keys[s], Params), [said[s] EXCEPT !.pub = None, !.priv = None])
  BY DEF DupKey
<1>q. QED  BY <1>2, <1>3, <1>4, <1>5, <1>6

LEMMA SetPubKeyHolds ==
  ASSUME Types, Held, NEW s \in Slot, NEW m \in Mat, SetPub(s, m)
  PROVE  Held'
<1>1. /\ fam \in Families /\ Holds(fam, keys[s], said[s]) /\ said[s].priv = None /\ ~Rsa
      /\ fam' = fam
  BY DEF Types, TypeOK, Held, SetPub, Live
<1>. DEFINE v == [said[s] EXCEPT !.pub = m]
<1>2. /\ fam = "ec" => Holds(fam, EcSetPub(keys[s], m), v)
      /\ Ecx => Holds(fam, EcxSetPub(keys[s], m), v)
      /\ fam = "dh" => Holds(fam, [keys[s] EXCEPT !.pub = m], v)
  BY <1>1, SetPubHolds
<1>3. said' = [said EXCEPT ![s] = v]
  BY DEF SetPub, Types, TypeOK
<1>4. \E k : keys' = [keys EXCEPT ![s] = k] /\ Holds(fam, k, v)
  <2>. HIDE DEF v
  <2>1. CASE fam = "ec"
    <3>1. keys' = [keys EXCEPT ![s] = EcSetPub(keys[s], m)]
      BY <2>1 DEF SetPub, Types, TypeOK, Ecx
    <3>q. QED  BY <1>2, <2>1, <3>1
  <2>2. CASE Ecx
    <3>1. keys' = [keys EXCEPT ![s] = EcxSetPub(keys[s], m)]
      BY <2>2 DEF SetPub, Types, TypeOK, Ecx
    <3>q. QED  BY <1>2, <2>2, <3>1
  <2>3. CASE fam = "dh"
    <3>1. keys' = [keys EXCEPT ![s] = [keys[s] EXCEPT !.pub = m]]
      BY <2>3 DEF SetPub, Types, TypeOK, Ecx
    <3>q. QED  BY <1>2, <2>3, <3>1
  <2>q. QED  BY <1>1, <2>1, <2>2, <2>3, FamilyCases DEF Rsa, Ecx
<1>. HIDE DEF v
<1>5. PICK k : keys' = [keys EXCEPT ![s] = k] /\ Holds(fam, k, v)
  BY <1>4
<1>6. SUFFICES ASSUME NEW t \in Slot, keys'[t] # NoKey PROVE Holds(fam, keys'[t], said'[t])
  BY <1>1, HeldNext
<1>7. CASE t = s
  <2>1. keys'[t] = k /\ said'[t] = v
    BY <1>3, <1>5, <1>7 DEF Types, TypeOK
  <2>q. QED  BY <1>5, <2>1
<1>8. CASE t # s
  <2>1. keys'[t] = keys[t] /\ said'[t] = said[t]
    BY <1>3, <1>5, <1>8 DEF Types, TypeOK
  <2>q. QED  BY <1>6, <2>1 DEF Held
<1>q. QED  BY <1>7, <1>8

LEMMA GenKeyHolds ==
  ASSUME Uses = {}, Types, Held, NEW s \in Slot, NEW sel \in {Params, Pair},
         NEW name \in Grp \cup {BadName, NoGrp}, NEW other \in Other \cup {NoOther},
         NEW from \in Slot \cup {NoKey}, NEW m \in Mat, NEW p \in Own,
         GenKey(s, sel, name, other, from, m, p)
  PROVE  Held'
<1>. DEFINE f == IF from = NoKey THEN NoKey ELSE keys[from]
            k == Gen(sel, name, other, f, m, p)
            named == IF from # NoKey THEN said[from].grp ELSE name
            grp == IF fam = "dh" /\ sel = Params /\ name = NoGrp THEN p
                   ELSE IF fam \in {"ec", "dh"} THEN named ELSE NoGrp
            w == [grp |-> grp, pub |-> IF sel = Pair THEN m ELSE None,
                  priv |-> IF sel = Pair THEN Stored(<<m, "given">>) ELSE None,
                  other |-> other]
<1>1. fam \in Families /\ NewKey(s, k, w) /\ k # NoKey
  BY DEF GenKey, NewKey, Types, TypeOK
<1>2. /\ fam # "pss"
      /\ fam \notin {"ec", "dh"} => name = NoGrp
      /\ from # NoKey => from \in Live /\ fam \in {"ec", "dh"} /\ name = NoGrp /\ sel = Pair
      /\ fam = "dh" /\ from # NoKey => keys[from].id = NoGrp
      /\ fam = "dh" /\ sel = Params => name = NoGrp
      /\ fam \notin {"ec", "pss"} \/ sel = Params => other = NoOther
  BY DEF GenKey, Does
<1>3. /\ from # NoKey => f = keys[from] /\ f # NoKey /\ Holds(fam, f, said[from])
      /\ from = NoKey => f = NoKey
  BY <1>2 DEF Held, Live
<1>4. \A g : g = grp /\ g \in Grp \cup Own \cup {NoGrp} =>
        /\ w \in SaidParts /\ w.grp = g /\ w.other = other
        /\ sel = Pair => w.pub = m /\ w.pub # None
                         /\ w.priv = Stored(<<m, "given">>) /\ w.priv # None
        /\ sel # Pair => w.pub = None /\ w.priv = None
  <2>. HIDE DEF grp
  <2>q. QED  BY SaidOfGen
<1>5. CASE fam = "rsa"
  <2>1. k = RsaGen(sel, NoOther, m)
    BY <1>2, <1>5 DEF Gen, Rsa, Ecx
  <2>2. grp = NoGrp
    BY <1>5
  <2>. HIDE DEF k, w, grp
  <2>3. Holds(fam, RsaGen(sel, NoOther, m), w)
    BY <1>1, <1>2, <1>4, <1>5, <2>1, <2>2, RsaGenHolds
  <2>q. QED  BY <1>1, <2>1, <2>3, NewKeyHolds
<1>6. CASE Ecx
  <2>1. k = EcxGen(sel, m) /\ other = NoOther
    BY <1>2, <1>6 DEF Gen, Rsa, Ecx
  <2>2. grp = NoGrp
    BY <1>6 DEF Ecx
  <2>. HIDE DEF k, w, grp
  <2>3. Holds(fam, EcxGen(sel, m), w)
    BY <1>1, <1>4, <1>6, <2>1, <2>2, EcxGenHolds
  <2>q. QED  BY <1>1, <2>1, <2>3, NewKeyHolds
<1>7. CASE fam = "ec"
  <2>1. k = EcGen(sel, name, other, f, m)
    BY <1>7 DEF Gen, Rsa, Ecx
  <2>2. f # NoKey => f.id \in Grp /\ f.id = said[from].grp /\ from # NoKey
    BY <1>3, <1>7 DEF Holds, EcHolds
  <2>3. grp = IF f # NoKey THEN f.id ELSE name
    BY <1>3, <1>7, <2>2
  <2>. HIDE DEF k, w, grp, f
  <2>4. grp \in Grp
    BY <1>1, <2>1, <2>2, <2>3, Distinct DEF EcGen, EcGroup
  <2>5. /\ w \in SaidParts /\ w.grp = grp /\ w.other = other
        /\ sel = Pair => w.pub = m /\ w.pub # None
                         /\ w.priv = Stored(<<m, "given">>) /\ w.priv # None
        /\ sel # Pair => w.pub = None /\ w.priv = None
    BY <1>4, <2>4
  <2>6. Holds(fam, EcGen(sel, name, other, f, m), w)
    BY <1>1, <1>2, <1>7, <2>1, <2>2, <2>3, <2>5, EcGenHolds
  <2>q. QED  BY <1>1, <2>1, <2>6, NewKeyHolds
<1>8. CASE fam = "dh"
  <2>1. k = DhGen(sel, name, f, m, p) /\ other = NoOther
    BY <1>2, <1>8 DEF Gen, Rsa, Ecx
  <2>2. f # NoKey => f \in Keys /\ f.p \in Own /\ f.p = said[from].grp /\ from # NoKey
                     /\ sel = Pair
    BY <1>2, <1>3, <1>8, Distinct DEF Holds, DhHolds
  <2>3. grp = IF sel = Params THEN p ELSE IF f # NoKey THEN f.p ELSE name
    <3>1. CASE sel = Params
      BY <1>2, <1>8, <3>1
    <3>2. CASE sel = Pair
      BY <1>2, <1>3, <1>8, <2>2, <3>2, GenSelections
    <3>q. QED  BY <3>1, <3>2
  <2>4. f \in Keys \cup {NoKey}
    BY <2>2
  <2>. HIDE DEF k, w, grp, f
  <2>5. grp \in Grp \cup Own
    <3>1. CASE sel = Params \/ f # NoKey
      BY <2>2, <2>3, <3>1
    <3>2. CASE sel = Pair /\ f = NoKey
      BY <1>1, <2>1, <2>3, <3>2, GenSelections DEF DhGen, DhGenGroup, DhGroup
    <3>q. QED  BY <3>1, <3>2
  <2>6. /\ w \in SaidParts /\ w.grp = grp /\ w.other = NoOther
        /\ sel = Pair => w.pub = m /\ w.priv = Stored(<<m, "given">>)
        /\ sel # Pair => w.pub = None /\ w.priv = None
    BY <1>4, <2>1, <2>5
  <2>7. Stored(<<m, "given">>) = <<m, "given">>
    BY <1>8 DEF Stored
  <2>8. Holds(fam, DhGen(sel, name, f, m, p), w)
    BY <1>1, <1>8, <2>1, <2>2, <2>3, <2>4, <2>6, <2>7, DhGenHolds
  <2>q. QED  BY <1>1, <2>1, <2>8, NewKeyHolds
<1>q. QED  BY <1>1, <1>2, <1>5, <1>6, <1>7, <1>8, FamilyCases DEF Ecx

(* Programs that use keys as the runs do, in every family: a key holds what  *)
(* the program asked for, after any number of imports, copies, generations   *)
(* and peers' keys.                                                          *)
THEOREM Invariance ==
  ASSUME Uses = {}
  PROVE  Spec => []IInv
<1>1. Init => Held
  BY DEF Init, Held
<1>2. Types /\ Held /\ [Next]_vars => Held'
  <2>. SUFFICES ASSUME Types, Held, [Next]_vars PROVE Held'
    OBVIOUS
  <2>1. ASSUME NEW s \in Slot, ImportKey(s) PROVE Held'
    BY <2>1, ImportKeyHolds
  <2>2. ASSUME NEW s \in Slot, Free(s) PROVE Held'
    <3>1. fam' = fam
      BY <2>2 DEF Free
    <3>2. SUFFICES ASSUME NEW t \in Slot, keys'[t] # NoKey PROVE Holds(fam, keys'[t], said'[t])
      BY <3>1, HeldNext
    <3>3. keys'[t] = keys[t] /\ said'[t] = said[t]
      BY <2>2, <3>2 DEF Free, Types, TypeOK
    <3>q. QED  BY <3>2, <3>3 DEF Held
  <2>3. ASSUME NEW s \in Slot, NEW d \in Slot, DupKey(s, d) PROVE Held'
    BY <2>3, DupKeyHolds
  <2>4. ASSUME NEW s \in Slot, NEW m \in Mat, SetPub(s, m) PROVE Held'
    BY <2>4, SetPubKeyHolds
  <2>5. ASSUME NEW s \in Slot, NEW sel \in {Params, Pair},
               NEW name \in Grp \cup {BadName, NoGrp}, NEW other \in Other \cup {NoOther},
               NEW from \in Slot \cup {NoKey}, NEW m \in Mat, NEW p \in Own,
               GenKey(s, sel, name, other, from, m, p)
        PROVE  Held'
    BY <2>5, GenKeyHolds
  <2>6. CASE UNCHANGED vars
    BY <2>6 DEF vars, Held, Holds, RsaHolds, EcHolds, EcxHolds, DhHolds
  <2>q. QED  BY <2>1, <2>2, <2>3, <2>4, <2>5, <2>6 DEF Next
<1>3. Types /\ Held => IInv
  BY DEF Types, IInv
<1>q. QED  BY <1>1, <1>2, <1>3, TypesInvariant, PTL DEF Spec

------------------------------------------------------------------------------
(* Under the uses of the runs: wp_*_has, which EVP_PKEY_can_sign, the        *)
(* exporters and libcrypto's comparison ask, is true to what every key was   *)
(* given, made with or copied from.                                          *)
THEOREM SpecHasIsTrue ==
  ASSUME Uses = {}
  PROVE  Spec => []HasIsTrue
<1>1. IInv => HasIsTrue
  <2>. SUFFICES ASSUME IInv, NEW s \in Live
                PROVE  /\ Has(keys[s], {"pub"}) <=> said[s].pub # None
                       /\ Has(keys[s], {"priv"}) <=> said[s].priv # None
                       /\ Grouped => (Has(keys[s], {"domain"}) <=> said[s].grp # NoGrp)
    BY DEF HasIsTrue
  <2>1. fam \in Families /\ Holds(fam, keys[s], said[s])
    BY DEF IInv, TypeOK, Held, Live
  <2>q. QED  BY <2>1, HoldsHas
<1>q. QED  BY <1>1, Invariance, PTL

(* Under the uses of the runs: wp_*_match finds two keys in one group equal  *)
(* in their parameters, and with the same parts equal, however each came     *)
(* about, and no others.                                                     *)
THEOREM SpecMatchIsTrue ==
  ASSUME Uses = {}
  PROVE  Spec => []MatchIsTrue
<1>1. IInv => MatchIsTrue
  <2>. SUFFICES ASSUME IInv, NEW s \in Live, NEW t \in Live
                PROVE  /\ Grouped => (Match(keys[s], keys[t], {"domain"})
                                        <=> said[s].grp = said[t].grp)
                       /\ (\A u \in {s, t} : said[u].pub # None \/ said[u].priv # None) =>
                            (Equal(keys[s], keys[t]) <=>
                               /\ said[s].grp = said[t].grp /\ said[s].pub = said[t].pub
                               /\ said[s].pub = None => said[s].priv = said[t].priv)
    BY DEF MatchIsTrue
  <2>1. fam \in Families /\ Holds(fam, keys[s], said[s]) /\ Holds(fam, keys[t], said[t])
    BY DEF IInv, TypeOK, Held, Live
  <2>2. Grouped => (Match(keys[s], keys[t], {"domain"}) <=> said[s].grp = said[t].grp)
    BY <2>1, HoldsMatch
  <2>3. ASSUME \A u \in {s, t} : said[u].pub # None \/ said[u].priv # None
        PROVE  Equal(keys[s], keys[t]) <=>
                 /\ said[s].grp = said[t].grp /\ said[s].pub = said[t].pub
                 /\ said[s].pub = None => said[s].priv = said[t].priv
    <3>1. (said[s].pub # None \/ said[s].priv # None) /\ (said[t].pub # None \/ said[t].priv # None)
      BY <2>3
    <3>q. QED  BY <2>1, <3>1, HoldsEqual
  <2>q. QED  BY <2>2, <2>3
<1>q. QED  BY <1>1, Invariance, PTL

LEMMA WholeAnswers ==
  ASSUME NEW s, NEW sel \in Whole(s)
  PROVE  sel \in Selections /\ KeyAnswers(said[s], sel)
BY DEF Whole, KeyAnswers

(* Under the uses of the runs: wp_*_export hands out the parts selected as   *)
(* the program gave them, and but for DH no private key that was not asked   *)
(* for.                                                                      *)
THEOREM SpecExportIsTrue ==
  ASSUME Uses = {}
  PROVE  Spec => []ExportIsTrue
<1>1. IInv => ExportIsTrue
  <2>. SUFFICES ASSUME IInv, NEW s \in Live, NEW sel \in Whole(s)
                PROVE  LET e == Export(keys[s], sel)
                       IN /\ e # NoKey
                          /\ Grouped => (IF e.grp # NoGrp THEN e.grp ELSE e.p) = said[s].grp
                          /\ "pub" \in sel => e.pub = said[s].pub
                          /\ "priv" \in sel => e.priv = said[s].priv
                          /\ "priv" \notin sel /\ fam # "dh" => e.priv = None
                          /\ "other" \in sel => e.other = said[s].other
    BY DEF ExportIsTrue
  <2>1. fam \in Families /\ Holds(fam, keys[s], said[s])
    BY DEF IInv, TypeOK, Held, Live
  <2>2. sel \in Selections /\ KeyAnswers(said[s], sel)
    BY WholeAnswers
  <2>3. Export(keys[s], sel) # NoKey
    BY <2>1, <2>2, HoldsExport, Distinct
  <2>q. QED  BY <2>1, <2>2, <2>3, HoldsExport
<1>q. QED  BY <1>1, Invariance, PTL

(* Under the uses of the runs: what one key exports, wp_*_import makes a key *)
(* of that has, exports and matches the same.                                *)
THEOREM SpecRoundTrip ==
  ASSUME Uses = {}
  PROVE  Spec => []RoundTrip
<1>1. IInv => RoundTrip
  <2>. SUFFICES ASSUME IInv, NEW s \in Live, NEW sel \in Whole(s)
                PROVE  LET k == Import(sel, Export(keys[s], sel))
                       IN /\ k # NoKey
                          /\ \A part \in sel \cap Pair : Has(k, {part})
                          /\ Parts(Export(k, sel), sel) = Parts(Export(keys[s], sel), sel)
                          /\ Grouped => Match(k, keys[s], {"domain"})
                          /\ "pub" \in sel => Equal(k, keys[s])
    BY DEF RoundTrip
  <2>1. fam \in Families /\ Holds(fam, keys[s], said[s])
    BY DEF IInv, TypeOK, Held, Live
  <2>2. sel \in Selections /\ KeyAnswers(said[s], sel)
    BY WholeAnswers
  <2>q. QED  BY <2>1, <2>2, HoldsRoundTrip
<1>q. QED  BY <1>1, Invariance, PTL

------------------------------------------------------------------------------
(* Sequences as rows, whatever is in them.                                   *)
Row(s, n) == n \in Nat /\ s = [i \in 1 .. n |-> s[i]]

LEMMA RowIs ==
  ASSUME NEW s, NEW n, Row(s, n)
  PROVE  n \in Nat /\ Len(s) = n /\ DOMAIN s = 1 .. n /\ s \in Seq({s[i] : i \in 1 .. n})
<1>1. n \in Nat /\ DOMAIN s = 1 .. n
  BY DEF Row
<1>2. s \in [1 .. n -> {s[i] : i \in 1 .. n}]
  BY DEF Row
<1>3. s \in Seq({s[i] : i \in 1 .. n})
  BY <1>1, <1>2, IsASeq
<1>4. Len(s) = n
  BY <1>1, <1>3, LenProperties
<1> QED BY <1>1, <1>3, <1>4

LongerBy(t, s, n, x) ==
  Row(t, n + 1) /\ t[n + 1] = x /\ \A i \in 1 .. n : t[i] = s[i]
LEMMA SeqIsRow ==
  ASSUME NEW S, NEW t \in Seq(S), NEW m, Len(t) = m
  PROVE  Row(t, m)
BY DEF Row

LEMMA RowAppend ==
  ASSUME NEW s, NEW n, Row(s, n), NEW x, NEW t, t = Append(s, x)
  PROVE  LongerBy(t, s, n, x)
<1> DEFINE S == {s[i] : i \in 1 .. n} \cup {x}
<1>1. n \in Nat /\ Len(s) = n /\ s \in Seq({s[i] : i \in 1 .. n})
  BY RowIs
<1>2. {s[i] : i \in 1 .. n} \subseteq S /\ x \in S
  OBVIOUS
<1> HIDE DEF S
<1>3. s \in Seq(S)
  BY <1>1, <1>2
<1>4. /\ t \in Seq(S) /\ Len(t) = n + 1 /\ t[n + 1] = x
      /\ \A i \in 1 .. n : t[i] = s[i]
  BY <1>1, <1>2, <1>3, AppendProperties
<1>5. Row(t, n + 1)
  BY <1>4, SeqIsRow
<1> QED BY <1>1, <1>4, <1>5 DEF LongerBy

LEMMA RowRest ==
  ASSUME NEW s, NEW n, Row(s, n), NEW k \in 1 .. n
  PROVE  /\ Row(SubSeq(s, k + 1, Len(s)), n - k)
         /\ \A i \in 1 .. n - k : SubSeq(s, k + 1, Len(s))[i] = s[k + i]
<1> DEFINE S == {s[i] : i \in 1 .. n}
           t == SubSeq(s, k + 1, n)
<1>1. n \in Nat /\ Len(s) = n /\ k + 1 \in Int /\ n \in Int
  <2>1. n \in Nat /\ Len(s) = n
    BY RowIs
  <2> QED BY <2>1
<1>2. \A i \in k + 1 .. n : s[i] \in S
  BY <1>1
<1>3. /\ t \in Seq(S) /\ Len(t) = IF k + 1 <= n THEN n - (k + 1) + 1 ELSE 0
      /\ \A i \in 1 .. n - (k + 1) + 1 : t[i] = s[k + 1 + i - 1]
  BY <1>1, <1>2, SubSeqProperties
<1> HIDE DEF t
<1>4. Len(t) = n - k /\ n - k \in Nat
  BY <1>1, <1>3
<1>5. \A i \in 1 .. n - k : t[i] = s[k + i]
  <2> TAKE i \in 1 .. n - k
  <2>1. i \in 1 .. n - (k + 1) + 1 /\ k + 1 + i - 1 = k + i
    BY <1>1
  <2> QED BY <1>3, <2>1
<1>6. Row(t, n - k)
  BY <1>3, <1>4 DEF Row
<1> QED BY <1>1, <1>5, <1>6 DEF t

(* A set of numbers that is not empty has a least one.                       *)
LEMMA Least ==
  ASSUME NEW T, T \subseteq Nat, T # {}
  PROVE  \E m \in T : \A y \in T : m <= y
<1> DEFINE R == {ss \in Nat \X Nat : ss[1] < ss[2]}
<1>1. IsWellFoundedOn(R, Nat)
  BY NatLessThanWellFounded DEF OpToRel
<1> HIDE DEF R
<1>2. PICK m \in T : \A y \in T : ~(<<y, m>> \in R)
  BY <1>1, WFMin
<1>3. \A y \in T : m <= y
  <2> TAKE y \in T
  <2>1. y \in Nat /\ m \in Nat /\ ~(<<y, m>> \in R)
    BY <1>2
  <2> QED BY <2>1 DEF R
<1> QED BY <1>3

------------------------------------------------------------------------------
(* The file store.  Objects are counted.                                     *)
Text(f, i) == f[i].form = "text"
LEMMA ObjectsCounted ==
  ASSUME NEW f, NEW n \in Nat
  PROVE  /\ ObjectsTo(f, n) \in Nat
         /\ \A m \in Nat : m <= n => ObjectsTo(f, m) <= ObjectsTo(f, n)
         /\ n # 0 => ObjectsTo(f, n) = IF Text(f, n) THEN ObjectsTo(f, n - 1) ELSE ObjectsTo(f, n - 1) + 1
         /\ \A m \in Nat : m <= n /\ (\A i \in m + 1 .. n : Text(f, i)) => ObjectsTo(f, m) = ObjectsTo(f, n)
<1> DEFINE O(m) == {i \in 1 .. m : f[i].form # "text"}
<1>1. \A m \in Nat : IsFiniteSet(O(m)) /\ Cardinality(O(m)) \in Nat
  <2> TAKE m \in Nat
  <2>1. IsFiniteSet(1 .. m) /\ O(m) \in SUBSET (1 .. m)
    BY FS_Interval
  <2> HIDE DEF O
  <2>2. IsFiniteSet(O(m))
    BY <2>1, FS_Subset
  <2> QED BY <2>2, FS_CardinalityType
<1>2. \A m \in Nat : m <= n => O(m) \in SUBSET O(n)
  OBVIOUS
<1>3. ASSUME n # 0
      PROVE  O(n) = IF Text(f, n) THEN O(n - 1) ELSE O(n - 1) \cup {n}
  <2>1. \A i : i \in 1 .. n <=> i \in 1 .. n - 1 \/ i = n
    BY <1>3
  <2> QED BY <2>1 DEF Text
<1>4. n # 0 => n - 1 \in Nat /\ n \notin O(n - 1)
  OBVIOUS
<1>5. ASSUME NEW m \in Nat, m <= n, \A i \in m + 1 .. n : Text(f, i)
      PROVE  O(m) = O(n)
  BY <1>5 DEF Text
<1>6. \A m : ObjectsTo(f, m) = Cardinality(O(m))
  BY DEF ObjectsTo
<1> HIDE DEF O
<1>7. \A m \in Nat : m <= n => Cardinality(O(m)) <= Cardinality(O(n))
  BY <1>1, <1>2, FS_Subset
<1>8. n # 0 => ObjectsTo(f, n) = IF Text(f, n) THEN ObjectsTo(f, n - 1) ELSE ObjectsTo(f, n - 1) + 1
  <2> SUFFICES ASSUME n # 0
               PROVE  ObjectsTo(f, n) = IF Text(f, n) THEN ObjectsTo(f, n - 1) ELSE ObjectsTo(f, n - 1) + 1
    OBVIOUS
  <2> DEFINE S == O(n - 1)
  <2>1. IsFiniteSet(S) /\ n \notin S
    BY <1>1, <1>4
  <2>2. O(n) = IF Text(f, n) THEN S ELSE S \cup {n}
    BY <1>3
  <2> HIDE DEF S
  <2>3. Cardinality(S \cup {n}) = Cardinality(S) + 1
    BY <2>1, FS_AddElement
  <2> QED BY <1>6, <2>2, <2>3 DEF S
<1> QED BY <1>1, <1>5, <1>6, <1>7, <1>8

(* The store has read up to place n of the file.                             *)
ReadTo(f, n, left) == Row(left, Len(f) - n) /\ \A i \in 1 .. Len(f) - n : left[i] = f[n + i]
SeenTo(f, n, seen) ==
  /\ Row(seen, ObjectsTo(f, n))
  /\ \A i \in 1 .. n : ~Text(f, i) => seen[ObjectsTo(f, i)] \in {f[i].due, NoKeyRead}
FileOk(f) == Row(f, Len(f)) /\ \A i \in 1 .. Len(f) : f[i] # NoPiece
StoreOk(f, s) ==
  s.open =>
    /\ s \in [open : {TRUE}, setup : {"none", "done"}, left : {s.left}, calls : Nat, seen : {s.seen}]
    /\ s.setup = "none" => s.seen = <<>>
    /\ \/ \E n \in 0 .. Len(f) : s.calls <= n /\ ReadTo(f, n, s.left) /\ SeenTo(f, n, s.seen)
       \/ s.setup = "none" /\ s.left = <<>> /\ s.calls <= Len(f)
StoreInv == FileOk(file) /\ StoreOk(file, store)

(* A load reads to the first object, or to the end where there is none.      *)
LEMMA LoadReads ==
  ASSUME NEW f, FileOk(f), NEW n \in 0 .. Len(f), NEW left, ReadTo(f, n, left), NEW r, r = ReadPemBio(left)
  PROVE  \/ /\ \A i \in n + 1 .. Len(f) : Text(f, i)
            /\ r = [piece |-> NoPiece, left |-> <<>>]
         \/ \E m \in n + 1 .. Len(f) :
              /\ \A i \in n + 1 .. m - 1 : Text(f, i)
              /\ ~Text(f, m) /\ r.piece = f[m] /\ r.piece # NoPiece /\ ReadTo(f, m, r.left)
<1> DEFINE l == Len(f)
           at == {i \in DOMAIN left : left[i].form # "text"}
           k == CHOOSE i \in at : \A j \in at : i <= j
<1>1. l \in Nat /\ n \in Nat /\ n <= l
  <2>1. l \in Nat
    BY RowIs DEF FileOk
  <2> QED BY <2>1
<1>2. Len(left) = l - n /\ DOMAIN left = 1 .. l - n /\ Row(left, l - n)
  <2> DEFINE q == l - n
  <2>1. Row(left, q)
    BY DEF ReadTo
  <2> HIDE DEF q
  <2>2. Len(left) = q /\ DOMAIN left = 1 .. q
    BY <2>1, RowIs
  <2> QED BY <2>1, <2>2 DEF q
<1>3. r = IF at = {} THEN [piece |-> NoPiece, left |-> <<>>]
          ELSE [piece |-> left[k], left |-> SubSeq(left, k + 1, Len(left))]
  BY Zenon DEF ReadPemBio
<1> HIDE DEF l
<1>4. \A i \in 1 .. l - n : left[i] = f[n + i]
  BY DEF ReadTo, l
<1>5. CASE at = {}
  <2>1. ASSUME NEW i \in n + 1 .. l PROVE Text(f, i)
    <3>1. i - n \in 1 .. l - n /\ n + (i - n) = i
      BY <1>1
    <3>2. left[i - n].form = "text"
      BY <1>2, <1>5, <3>1
    <3> QED BY <1>4, <3>1, <3>2 DEF Text
  <2> QED BY <1>3, <1>5, <2>1 DEF l
<1>6. CASE at # {}
  <2>1. at \subseteq Nat
    BY <1>1, <1>2
  <2>2. k \in at /\ \A j \in at : k <= j
    <3> HIDE DEF at
    <3>1. \E i \in at : \A j \in at : i <= j
      BY <1>6, <2>1, Least
    <3> QED BY <3>1
  <2> HIDE DEF k
  <2>3. k \in 1 .. l - n /\ left[k].form # "text"
    BY <1>2, <2>2
  <2>4. r.piece = left[k] /\ r.left = SubSeq(left, k + 1, Len(left))
    <3> HIDE DEF at
    <3> DEFINE x == left[k]
               rest == SubSeq(left, k + 1, Len(left))
    <3>1. r = [piece |-> x, left |-> rest]
      BY <1>3, <1>6, Zenon
    <3> HIDE DEF x, rest
    <3>2. r.piece = x /\ r.left = rest
      BY <3>1
    <3> QED BY <3>2 DEF x, rest
  <2> DEFINE m == n + k
  <2>5. m \in n + 1 .. l /\ m \in 1 .. l /\ l - m = l - n - k
    BY <1>1, <2>3
  <2>6. r.piece = f[m] /\ ~Text(f, m)
    BY <1>4, <2>3, <2>4 DEF Text
  <2>7. r.piece # NoPiece
    BY <2>5, <2>6 DEF FileOk, l
  <2>8. ASSUME NEW i \in n + 1 .. m - 1 PROVE Text(f, i)
    <3>1. i - n \in 1 .. l - n /\ n + (i - n) = i /\ i - n < k
      BY <1>1, <2>3
    <3>2. i - n \notin at
      BY <1>1, <2>2, <2>3, <3>1
    <3>3. left[i - n].form = "text"
      BY <1>2, <3>1, <3>2
    <3> QED BY <1>4, <3>1, <3>3 DEF Text
  <2>9. ReadTo(f, m, r.left)
    <3> DEFINE q == l - n
               rest == SubSeq(left, k + 1, Len(left))
    <3>1. Row(left, q) /\ k \in 1 .. q
      BY <1>2, <2>3
    <3>2. q - k = l - m
      BY <1>1, <2>3
    <3> HIDE DEF q
    <3>3. /\ Row(rest, q - k)
          /\ \A i \in 1 .. q - k : rest[i] = left[k + i]
      BY <3>1, RowRest
    <3> HIDE DEF rest
    <3>4. Row(rest, l - m) /\ \A i \in 1 .. l - m : rest[i] = left[k + i]
      BY <3>2, <3>3
    <3>5. \A i \in 1 .. l - m : k + i \in 1 .. l - n /\ n + (k + i) = m + i
      BY <1>1, <2>3
    <3>6. \A i \in 1 .. l - m : rest[i] = f[m + i]
      BY <1>4, <3>4, <3>5
    <3>7. r.left = rest
      BY <2>4 DEF rest
    <3> QED BY <3>4, <3>6, <3>7 DEF ReadTo, l
  <2> HIDE DEF m
  <2> QED BY <2>5, <2>6, <2>7, <2>8, <2>9 DEF l
<1> QED BY <1>5, <1>6

(* What is seen goes on with the object a load reads.                        *)
LEMMA SeenMore ==
  ASSUME NEW f, FileOk(f), NEW n \in 0 .. Len(f), NEW m \in n + 1 .. Len(f),
         \A i \in n + 1 .. m - 1 : Text(f, i), ~Text(f, m),
         NEW seen, SeenTo(f, n, seen), NEW due, due \in {f[m].due, NoKeyRead}
  PROVE  SeenTo(f, m, Append(seen, due))
<1> DEFINE t == Append(seen, due)
           o == ObjectsTo(f, n)
<1>1. Len(f) \in Nat /\ n \in Nat /\ m \in Nat /\ n <= m - 1 /\ m - 1 \in Nat /\ m # 0
  <2>1. Len(f) \in Nat
    BY RowIs DEF FileOk
  <2> QED BY <2>1
<1>2. ObjectsTo(f, m - 1) = o
  BY <1>1, ObjectsCounted
<1>3. ObjectsTo(f, m) = o + 1
  BY <1>1, <1>2, ObjectsCounted
<1>4. o \in Nat /\ Row(seen, o)
  BY <1>1, ObjectsCounted DEF SeenTo
<1> HIDE DEF o, t
<1>5. Row(t, o + 1) /\ t[o + 1] = due /\ \A i \in 1 .. o : t[i] = seen[i]
  <2>1. t = Append(seen, due)
    BY DEF t
  <2>2. LongerBy(t, seen, o, due)
    BY <1>4, <2>1, RowAppend
  <2> QED BY <2>2 DEF LongerBy
<1>6. ASSUME NEW i \in 1 .. m, ~Text(f, i)
      PROVE  t[ObjectsTo(f, i)] \in {f[i].due, NoKeyRead}
  <2>1. i \in 1 .. n \/ i \in n + 1 .. m - 1 \/ i = m
    BY <1>1
  <2>2. CASE i \in 1 .. n
    <3>1. i \in Nat /\ i # 0 /\ i - 1 \in Nat /\ i <= n
      BY <1>1, <2>2
    <3>2. ObjectsTo(f, i) <= o /\ ObjectsTo(f, i) \in Nat
      BY <1>1, <3>1, ObjectsCounted DEF o
    <3>3. ObjectsTo(f, i) = ObjectsTo(f, i - 1) + 1 /\ ObjectsTo(f, i - 1) \in Nat
      BY <1>6, <3>1, ObjectsCounted
    <3>4. ObjectsTo(f, i) \in 1 .. o
      BY <1>4, <3>2, <3>3
    <3> QED BY <1>5, <1>6, <2>2, <3>4 DEF SeenTo
  <2>3. CASE i \in n + 1 .. m - 1
    BY <1>6, <2>3
  <2>4. CASE i = m
    BY <1>3, <1>5, <2>4
  <2> QED BY <2>1, <2>2, <2>3, <2>4
<1>7. SeenTo(f, m, t)
  BY <1>3, <1>5, <1>6 DEF SeenTo
<1> QED BY <1>7 DEF t

------------------------------------------------------------------------------
(* The decoders, by what they are for.                                       *)
Serves(c, alg, format, needs) == c.alg = alg /\ c.format = format /\ c.needs = needs
CoderFamily(c) ==
  \/ c.alg \in KeyAlgs /\ c.format = "SPKI" /\ c.needs = {"pub"}
  \/ c.alg \in KeyAlgs /\ c.format = "PKI" /\ c.needs = {"priv"}
  \/ Serves(c, "RSA", "TS", {"priv"})
  \/ c.alg \in {"DH", "EC"} /\ c.format = "TS" /\ c.needs = {"params"}
  \/ Serves(c, "EC", "X9_62", {"params", "priv"})
LEMMA DecoderFamily ==
  ASSUME NEW c \in Decoders
  PROVE  CoderFamily(c)
<1>1. CASE c \in EcxCoders
  BY <1>1 DEF EcxCoders, X25519Spki, X25519Pki, Ed25519Spki, Ed25519Pki, X448Spki, X448Pki,
              Ed448Spki, Ed448Pki, Coder, CoderFamily, KeyAlgs
<1>2. CASE c \notin EcxCoders
  BY <1>2 DEF Decoders, SharedCoders, RsaSpki, RsaPki, PssSpki, PssPki, DhTypeSpecific, DhSpki,
              DhPki, EcTypeSpecific, EcSpki, EcPki, EcX962, RsaLegacy, Coder, CoderFamily, Serves, KeyAlgs
<1> QED BY <1>1, <1>2

LEMMA DecoderThereIs ==
  ASSUME NEW alg \in KeyAlgs
  PROVE  /\ \E c \in Decoders : Serves(c, alg, "SPKI", {"pub"})
         /\ \E c \in Decoders : Serves(c, alg, "PKI", {"priv"})
         /\ alg = "RSA" => \E c \in Decoders : Serves(c, alg, "TS", {"priv"})
         /\ alg \in {"DH", "EC"} => \E c \in Decoders : Serves(c, alg, "TS", {"params"})
<1>1. /\ {RsaSpki, PssSpki, DhSpki, EcSpki, X25519Spki, Ed25519Spki, X448Spki, Ed448Spki} \subseteq Decoders
      /\ {RsaPki, PssPki, DhPki, EcPki, X25519Pki, Ed25519Pki, X448Pki, Ed448Pki} \subseteq Decoders
      /\ {RsaLegacy, DhTypeSpecific, EcTypeSpecific} \subseteq Decoders
  BY DEF Decoders, SharedCoders, EcxCoders
<1>2. \E c \in Decoders : Serves(c, alg, "SPKI", {"pub"})
  BY <1>1 DEF KeyAlgs, Serves, Coder, RsaSpki, PssSpki, DhSpki, EcSpki, X25519Spki, Ed25519Spki,
              X448Spki, Ed448Spki
<1>3. \E c \in Decoders : Serves(c, alg, "PKI", {"priv"})
  BY <1>1 DEF KeyAlgs, Serves, Coder, RsaPki, PssPki, DhPki, EcPki, X25519Pki, Ed25519Pki, X448Pki,
              Ed448Pki
<1>4. alg = "RSA" => \E c \in Decoders : Serves(c, alg, "TS", {"priv"})
  BY <1>1 DEF RsaLegacy, Coder, Serves
<1>5. alg \in {"DH", "EC"} => \E c \in Decoders : Serves(c, alg, "TS", {"params"})
  BY <1>1 DEF DhTypeSpecific, EcTypeSpecific, Coder, Serves
<1> QED BY <1>2, <1>3, <1>4, <1>5

(* A decoder passes or makes a key.                                          *)
Told(a) == a = Pass \/ \E key : a = MakesKey(key)
LEMMA KeyDecodeTold ==
  ASSUME NEW c \in Decoders, NEW p, NEW sel, NEW answer
  PROVE  Told(KeyDecode(c, p, sel, answer))
<1>1. CoderFamily(c)
  BY DecoderFamily
<1>2. Told(Pass) /\ \A key : Told(MakesKey(key))
  BY DEF Told
<1> HIDE DEF Told
<1>3. /\ Told(RsaDecodeSpki(c, p)) /\ Told(RsaDecodePki(c, p)) /\ Told(RsaDecodePki(c, Decrypted(p)))
  BY <1>2 DEF RsaDecodeSpki, RsaDecodePki
<1>4. Told(RsaDecodeEncPki(c, p, answer))
  BY <1>2, <1>3 DEF RsaDecodeEncPki
<1>5. c.alg \in {"RSA", "RSA-PSS"} => c.format \in {"SPKI", "PKI", "TS"}
  BY <1>1 DEF CoderFamily, Serves
<1>6. c.alg \in {"RSA", "RSA-PSS"} => Told(RsaDecode(c, p, sel, answer))
  BY <1>2, <1>3, <1>4, <1>5 DEF RsaDecode
<1>7. Told(DhDecodeSpki(p)) /\ Told(DhDecodePki(p)) /\ Told(DhDecodeParams(p))
  BY <1>2 DEF DhDecodeSpki, DhDecodePki, DhDecodeParams
<1>8. c.alg = "DH" => Told(DhDecode(c, p, sel))
  BY <1>1, <1>7 DEF CoderFamily, Serves, DhDecode
<1>9. Told(EcDecodeParams(p)) /\ Told(EcDecodeX963Pub(p)) /\ Told(EcDecodeSpki(p)) /\ Told(EcDecodePki(p))
  BY <1>2 DEF EcDecodeParams, EcDecodeX963Pub, EcDecodeSpki, EcDecodePki
<1>10. c.alg = "EC" => Told(EcDecode(c, p, sel))
  BY <1>1, <1>9 DEF CoderFamily, Serves, EcDecode
<1>11. Told(EcxDecode(c, p))
  BY <1>2 DEF EcxDecode
<1> QED BY <1>2, <1>6, <1>8, <1>10, <1>11 DEF KeyDecode

LEMMA DidIs ==
  /\ Pass.did = "pass" /\ Fails.did = "fail"
  /\ \A key : MakesKey(key).did = "key" /\ MakesKey(key).key = key
  /\ \A piece, type, struct :
       LET a == MakesPiece(piece, type, struct)
       IN a.did = "piece" /\ a.piece = piece /\ a.type = type /\ a.struct = struct
  /\ Pass.key = NoKeyRead /\ Fails.key = NoKeyRead
BY DEF Pass, Fails, MakesKey, MakesPiece, Outcome

LEMMA PemTold ==
  ASSUME NEW p, NEW answer
  PROVE  /\ Pem2Der(p, answer).did \in {"pass", "fail", "piece"}
         /\ Epki2Pki(p, answer).did \in {"pass", "fail", "piece"}
<1> DEFINE Ok(a) == a.did \in {"pass", "fail", "piece"}
<1>1. Ok(Pass) /\ Ok(Fails) /\ \A piece, type, struct : Ok(MakesPiece(piece, type, struct))
  BY DidIs
<1> HIDE DEF Ok
<1>2. Ok(Epki2Pki(p, answer))
  BY <1>1 DEF Epki2Pki, DecryptPKCS8Key
<1>3. \A type, struct : Ok(PemToDer(p, answer, type, struct))
  BY <1>1 DEF PemToDer
<1>4. Ok(Pem2DerDecodeData(p, answer))
  BY <1>1, <1>3 DEF Pem2DerDecodeData
<1>5. Ok(Pem2Der(p, answer))
  BY <1>1, <1>4 DEF Pem2Der
<1> QED BY <1>2, <1>5 DEF Ok

LEMMA AnswersAre ==
  ASSUME NEW l, NEW a \in Answers(l)
  PROVE  a.did \in {"pass", "fail", "key", "piece"}
<1>1. \/ \E c \in Decoders : a = KeyDecode(c, l.piece, l.sel, l.answer)
      \/ a = Pem2Der(l.piece, l.answer) \/ a = Epki2Pki(l.piece, l.answer)
  BY DEF Answers
<1>2. CASE \E c \in Decoders : a = KeyDecode(c, l.piece, l.sel, l.answer)
  <2>1. PICK c \in Decoders : a = KeyDecode(c, l.piece, l.sel, l.answer)
    BY <1>2
  <2>2. Told(a)
    BY <2>1, KeyDecodeTold
  <2> QED BY <2>2, DidIs DEF Told
<1> QED BY <1>1, <1>2, PemTold

(* A piece is never nothing.                                                 *)
LEMMA PieceIsMade ==
  ASSUME NEW c, NEW k, NEW sel, NEW pem, NEW cipher
  PROVE  WrittenPiece(c, k, sel, pem, cipher) # NoPiece
<1> DEFINE data == Encode(c, k, sel)
           piece == [form |-> data.form, key |-> data.key,
                     head |-> IF pem THEN PemHeader(c, data.form) ELSE "none", lock |-> "none",
                     secret |-> cipher, asks |-> sel,
                     due |-> Data(data.form, k, data.key.has).key]
           p == WrittenPiece(c, k, sel, pem, cipher)
<1>1. p = CASE c.format = "EPKI" -> EncryptKey(piece)
            [] c.format = "PKI" /\ c.alg \in {"RSA", "RSA-PSS"} /\ cipher -> RsaEncodeEncPki(piece)
            [] OTHER -> piece
  BY Zenon DEF WrittenPiece
<1>2. "asks" \in DOMAIN piece
  OBVIOUS
<1> HIDE DEF piece
<1>3. "asks" \in DOMAIN EncryptKey(piece) /\ "asks" \in DOMAIN RsaEncodeEncPki(piece)
  BY <1>2 DEF EncryptKey, RsaEncodeEncPki
<1> HIDE DEF p
<1>4. "asks" \in DOMAIN p
  BY <1>1, <1>2, <1>3
<1>5. "asks" \notin DOMAIN NoPiece
  BY DEF NoPiece
<1> QED BY <1>4, <1>5 DEF p

LEMMA AppendKeepsFile ==
  ASSUME StoreInv, NEW p, p # NoPiece, Append1(p)
  PROVE  StoreInv'
<1> DEFINE l == Len(file)
           f == Append(file, p)
<1>1. file' = f /\ store' = store /\ ~store.open
  BY DEF Append1
<1>2. Row(file, l) /\ \A i \in 1 .. l : file[i] # NoPiece
  BY DEF StoreInv, FileOk
<1> HIDE DEF l
<1>3. Row(f, l + 1) /\ f[l + 1] = p /\ \A i \in 1 .. l : f[i] = file[i]
  <2>1. f = Append(file, p)
    OBVIOUS
  <2> HIDE DEF f
  <2>2. LongerBy(f, file, l, p)
    BY <1>2, <2>1, RowAppend
  <2> QED BY <2>2 DEF LongerBy
<1> HIDE DEF f
<1>4. Len(f) = l + 1 /\ l \in Nat
  BY <1>2, <1>3, RowIs
<1>5. \A i \in 1 .. l + 1 : f[i] # NoPiece
  <2>1. \A i \in 1 .. l + 1 : i \in 1 .. l \/ i = l + 1
    BY <1>4
  <2> QED BY <1>2, <1>3, <2>1
<1>6. FileOk(f)
  BY <1>3, <1>4, <1>5 DEF FileOk
<1>7. StoreOk(f, store)
  BY <1>1 DEF StoreOk
<1> QED BY <1>1, <1>6, <1>7 DEF StoreInv

LEMMA StoreStays ==
  ASSUME StoreInv, UNCHANGED <<file, store>>
  PROVE  StoreInv'
BY DEF StoreInv

(* What the store keeps when it is open, place by place.                     *)
LEMMA StoreAt ==
  ASSUME NEW f, FileOk(f), NEW n \in 0 .. Len(f), NEW s, s.open = TRUE,
         s \in [open : {TRUE}, setup : {"none", "done"}, left : {s.left}, calls : Nat, seen : {s.seen}],
         s.setup = "none" => s.seen = <<>>, s.calls <= n, ReadTo(f, n, s.left), SeenTo(f, n, s.seen)
  PROVE  StoreOk(f, s)
BY DEF StoreOk

LEMMA StoreOpenKeeps ==
  ASSUME StoreInv, StoreOpen
  PROVE  StoreInv'
<1> DEFINE l == Len(file)
           f == file
<1>1. file' = f /\ store' = [NoStore EXCEPT !.open = TRUE, !.left = f]
  BY DEF StoreOpen
<1>2. store' = [open |-> TRUE, setup |-> "none", left |-> f, calls |-> 0, seen |-> <<>>]
  BY <1>1 DEF NoStore
<1>3. FileOk(f) /\ Row(f, l) /\ l \in Nat
  BY RowIs DEF StoreInv, FileOk
<1>4. l = Len(f)
  OBVIOUS
<1> HIDE DEF f, l
<1>5. ObjectsTo(f, 0) = 0
  <2>1. {i \in 1 .. 0 : f[i].form # "text"} = {}
    OBVIOUS
  <2> QED BY <2>1, FS_EmptySet DEF ObjectsTo
<1>6. ReadTo(f, 0, f)
  <2>1. l - 0 = l /\ \A i \in 1 .. l : 0 + i = i
    BY <1>3
  <2> QED BY <1>3, <1>4, <2>1 DEF ReadTo
<1>7. SeenTo(f, 0, <<>>)
  BY <1>5 DEF SeenTo, Row
<1> DEFINE s == [open |-> TRUE, setup |-> "none", left |-> f, calls |-> 0, seen |-> <<>>]
<1>8. /\ s \in [open : {TRUE}, setup : {"none", "done"}, left : {s.left}, calls : Nat, seen : {s.seen}]
      /\ s.open = TRUE /\ s.left = f /\ s.calls <= 0 /\ s.seen = <<>>
  OBVIOUS
<1> HIDE DEF s
<1>9. 0 \in 0 .. Len(f)
  BY <1>3, <1>4
<1>10. StoreOk(f, s)
  BY <1>3, <1>6, <1>7, <1>8, <1>9, StoreAt
<1>11. store' = s
  BY <1>2 DEF s
<1> QED BY <1>1, <1>3, <1>10, <1>11 DEF StoreInv

LEMMA SetupFailsKeeps ==
  ASSUME StoreInv, SetupFails
  PROVE  StoreInv'
<1> DEFINE q == store.calls + 1
           s == [store EXCEPT !.calls = q, !.left = <<>>]
<1>1. /\ store.open /\ store.left # <<>> /\ store.setup = "none" /\ file' = file
      /\ store' = s
  BY DEF SetupFails
<1> DEFINE l == Len(file)
<1>2. Row(file, l) /\ l \in Nat
  BY RowIs DEF StoreInv, FileOk
<1>3. store \in [open : {TRUE}, setup : {"none", "done"}, left : {store.left}, calls : Nat,
                 seen : {store.seen}]
  BY <1>1 DEF StoreInv, StoreOk
<1>4. /\ store.seen = <<>>
      /\ \E n \in 0 .. l : store.calls <= n /\ ReadTo(file, n, store.left)
  BY <1>1 DEF StoreInv, StoreOk
<1>5. PICK n \in 0 .. l : store.calls <= n /\ ReadTo(file, n, store.left)
  BY <1>4
<1>6. n # l
  <2> SUFFICES ASSUME n = l PROVE FALSE
    OBVIOUS
  <2> DEFINE left == store.left
  <2>1. Row(left, l - n) /\ l - n = 0
    BY <1>2, <1>5 DEF ReadTo
  <2> HIDE DEF left
  <2>2. left = <<>>
    BY <2>1 DEF Row
  <2> QED BY <1>1, <2>2 DEF left
<1>7. q \in Nat /\ q <= l
  BY <1>2, <1>3, <1>5, <1>6
<1> HIDE DEF q, l
<1>8. /\ s \in [open : {TRUE}, setup : {"none", "done"}, left : {s.left}, calls : Nat, seen : {s.seen}]
      /\ s.setup = "none" /\ s.left = <<>> /\ s.calls = q /\ s.seen = <<>>
  BY <1>1, <1>3, <1>4, <1>7
<1> HIDE DEF s
<1>9. StoreOk(file, s)
  BY <1>7, <1>8 DEF StoreOk, l
<1> QED BY <1>1, <1>9 DEF StoreInv

(* A load that reads text goes to the end, and one that reads an object past *)
(* it.                                                                       *)
LEMMA StoreLoadKeeps ==
  ASSUME StoreInv, NEW answer, StoreLoad(answer)
  PROVE  StoreInv'
<1> DEFINE f == file
           l == Len(file)
           read == ReadPemBio(store.left)
           due == DueOf(read.piece, answer)
           q == store.calls + 1
           after == [store EXCEPT !.setup = "done", !.calls = q, !.left = read.left]
           s == IF read.piece = NoPiece THEN after
                ELSE [after EXCEPT !.seen = Append(store.seen, due)]
<1>1. store.open /\ store.left # <<>> /\ file' = f
  BY DEF StoreLoad
<1>2. store' = s
  <2>1. read.piece # NoPiece => store' = [after EXCEPT !.seen = Append(after.seen, due)]
    BY DEF StoreLoad
  <2>2. read.piece = NoPiece => store' = after
    BY DEF StoreLoad
  <2>3. after.seen = store.seen
    BY <1>1 DEF StoreInv, StoreOk
  <2> HIDE DEF after, due, read
  <2> QED BY <2>1, <2>2, <2>3
<1>3. FileOk(f) /\ Row(f, l) /\ l \in Nat /\ l = Len(f)
  BY RowIs DEF StoreInv, FileOk
<1>4. /\ store \in [open : {TRUE}, setup : {"none", "done"}, left : {store.left}, calls : Nat,
                    seen : {store.seen}]
      /\ \E n \in 0 .. l : store.calls <= n /\ ReadTo(f, n, store.left) /\ SeenTo(f, n, store.seen)
  BY <1>1 DEF StoreInv, StoreOk
<1>5. PICK n \in 0 .. l : store.calls <= n /\ ReadTo(f, n, store.left) /\ SeenTo(f, n, store.seen)
  BY <1>4
<1> HIDE DEF f, l
<1>6. n # l
  <2> SUFFICES ASSUME n = l PROVE FALSE
    OBVIOUS
  <2> DEFINE left == store.left
  <2>1. Row(left, l - n) /\ l - n = 0
    BY <1>3, <1>5 DEF ReadTo
  <2> HIDE DEF left
  <2>2. left = <<>>
    BY <2>1 DEF Row
  <2> QED BY <1>1, <2>2 DEF left
<1>7. q \in Nat /\ q <= n + 1
  BY <1>4, <1>5
<1> HIDE DEF q
<1>8. \/ /\ \A i \in n + 1 .. l : Text(f, i)
         /\ read = [piece |-> NoPiece, left |-> <<>>]
      \/ \E m \in n + 1 .. l :
           /\ \A i \in n + 1 .. m - 1 : Text(f, i)
           /\ ~Text(f, m) /\ read.piece = f[m] /\ read.piece # NoPiece /\ ReadTo(f, m, read.left)
  <2> DEFINE left == store.left
  <2>1. read = ReadPemBio(left) /\ ReadTo(f, n, left)
    BY <1>5
  <2> HIDE DEF left, read
  <2> QED BY <1>3, <2>1, LoadReads
<1> HIDE DEF read
<1>9. CASE /\ \A i \in n + 1 .. l : Text(f, i)
           /\ read = [piece |-> NoPiece, left |-> <<>>]
  <2>1. s = after
    BY <1>9
  <2>2. /\ s \in [open : {TRUE}, setup : {"none", "done"}, left : {s.left}, calls : Nat, seen : {s.seen}]
        /\ s.open = TRUE /\ s.setup = "done" /\ s.left = <<>> /\ s.calls = q /\ s.seen = store.seen
    BY <1>4, <1>7, <1>9, <2>1
  <2> HIDE DEF s
  <2>3. ReadTo(f, l, s.left)
    <3>1. Row(<<>>, l - l) /\ \A i \in 1 .. l - l : FALSE
      BY <1>3 DEF Row
    <3> QED BY <1>3, <2>2, <3>1 DEF ReadTo
  <2>4. ObjectsTo(f, n) = ObjectsTo(f, l)
    BY <1>3, <1>9, ObjectsCounted
  <2>5. SeenTo(f, l, store.seen)
    <3>1. \A i \in 1 .. l : i \in 1 .. n \/ i \in n + 1 .. l
      BY <1>3
    <3> QED BY <1>5, <1>9, <2>4, <3>1 DEF SeenTo
  <2>6. l \in 0 .. Len(f) /\ q <= l
    BY <1>3, <1>6, <1>7
  <2>7. StoreOk(f, s)
    BY <1>3, <2>2, <2>3, <2>5, <2>6, StoreAt
  <2> QED BY <1>1, <1>2, <1>3, <2>7 DEF StoreInv
<1>10. CASE \E m \in n + 1 .. l :
              /\ \A i \in n + 1 .. m - 1 : Text(f, i)
              /\ ~Text(f, m) /\ read.piece = f[m] /\ read.piece # NoPiece /\ ReadTo(f, m, read.left)
  <2>1. PICK m \in n + 1 .. l :
              /\ \A i \in n + 1 .. m - 1 : Text(f, i)
              /\ ~Text(f, m) /\ read.piece = f[m] /\ read.piece # NoPiece /\ ReadTo(f, m, read.left)
    BY <1>10
  <2> DEFINE more == Append(store.seen, due)
  <2>2. s = [after EXCEPT !.seen = more]
    BY <2>1
  <2>3. due \in {f[m].due, NoKeyRead}
    BY <2>1 DEF DueOf
  <2>4. SeenTo(f, m, more)
    <3> DEFINE seen == store.seen
    <3>1. SeenTo(f, n, seen) /\ more = Append(seen, due)
      BY <1>5
    <3> HIDE DEF seen, more, due
    <3>2. SeenTo(f, m, Append(seen, due))
      BY <1>3, <2>1, <2>3, <3>1, SeenMore
    <3> QED BY <3>1, <3>2
  <2> HIDE DEF more, due
  <2>5. /\ s \in [open : {TRUE}, setup : {"none", "done"}, left : {s.left}, calls : Nat, seen : {s.seen}]
        /\ s.open = TRUE /\ s.setup = "done" /\ s.left = read.left /\ s.calls = q /\ s.seen = more
    BY <1>4, <1>7, <2>2
  <2> HIDE DEF s
  <2>6. m \in 0 .. Len(f) /\ q <= m
    BY <1>3, <1>7
  <2>7. StoreOk(f, s)
    BY <1>3, <2>1, <2>4, <2>5, <2>6, StoreAt
  <2> QED BY <1>1, <1>2, <1>3, <2>7 DEF StoreInv
<1> QED BY <1>8, <1>9, <1>10

LEMMA StoreCloseKeeps ==
  ASSUME StoreInv, StoreClose
  PROVE  StoreInv'
<1>1. file' = file /\ store' = NoStore
  BY DEF StoreClose
<1>2. StoreOk(file, NoStore)
  BY DEF StoreOk, NoStore
<1> QED BY <1>1, <1>2 DEF StoreInv

LEMMA StoreInitOk == CodecInit => StoreInv
<1> SUFFICES ASSUME CodecInit PROVE StoreInv
  OBVIOUS
<1>1. file = <<>> /\ store = NoStore
  BY DEF CodecInit
<1>2. FileOk(<<>>)
  BY DEF FileOk, Row
<1>3. StoreOk(<<>>, NoStore)
  BY DEF StoreOk, NoStore
<1> QED BY <1>1, <1>2, <1>3 DEF StoreInv

LEMMA StoreNextKeeps ==
  ASSUME StoreInv, [CodecNext]_codecVars
  PROVE  StoreInv'
<1>1. CASE UNCHANGED codecVars
  BY <1>1, StoreStays DEF codecVars
<1>2. CASE CodecNext
  <2>1. ASSUME NEW k \in CodecKeys, NEW c \in Encoders, NEW sel, NEW pem, NEW cipher,
               Save(c, k, sel, pem, cipher)
        PROVE  StoreInv'
    BY <2>1, PieceIsMade, AppendKeepsFile DEF Save
  <2>2. ASSUME NEW p \in Foreign, WriteForeign(p) PROVE StoreInv'
    <3>1. p # NoPiece
      BY ForeignAssumption
    <3> QED BY <2>2, <3>1, AppendKeepsFile DEF WriteForeign
  <2>3. ASSUME NEW answer, DecodeFile(answer) PROVE StoreInv'
    BY <2>3, StoreStays DEF DecodeFile
  <2>4. ASSUME NEW answer, StoreLoad(answer) PROVE StoreInv'
    BY <2>4, StoreLoadKeeps
  <2>5. ASSUME Decode PROVE StoreInv'
    <3>1. PICK a \in Answers(load) : TakeAnswer(a)
      BY <2>5 DEF Decode
    <3>2. a.did \in {"pass", "fail", "key", "piece"}
      BY <3>1, AnswersAre
    <3>3. UNCHANGED <<file, store>>
      BY <3>1, <3>2 DEF TakeAnswer, Ends
    <3> QED BY <3>3, StoreStays
  <2>6. ASSUME AllPass PROVE StoreInv'
    BY <2>6, StoreStays DEF AllPass, Ends
  <2>7. CASE StoreOpen \/ SetupFails \/ StoreClose
    BY <2>7, StoreOpenKeeps, SetupFailsKeeps, StoreCloseKeeps
  <2> QED BY <1>2, <2>1, <2>2, <2>3, <2>4, <2>5, <2>6, <2>7, Zenon DEF CodecNext
<1> QED BY <1>1, <1>2

LEMMA StoreInvOrder ==
  ASSUME StoreInv
  PROVE  StoreInOrder
<1> SUFFICES ASSUME store.open PROVE StoreInOrder
  BY DEF StoreInOrder
<1> DEFINE f == file
           l == Len(file)
           left == store.left
           seen == store.seen
<1>1. FileOk(f) /\ l \in Nat /\ l = Len(f) /\ DOMAIN f = 1 .. l
  BY RowIs DEF StoreInv, FileOk
<1>2. /\ store.calls \in Nat
      /\ store.setup = "none" => seen = <<>>
      /\ \/ \E n \in 0 .. l : store.calls <= n /\ ReadTo(f, n, left) /\ SeenTo(f, n, seen)
         \/ store.setup = "none" /\ left = <<>> /\ store.calls <= l
  BY DEF StoreInv, StoreOk
<1> DEFINE InOrder ==
             /\ store.calls <= l
             /\ Len(seen) <= ObjectsTo(f, l)
             /\ \A i \in 1 .. l :
                  ~Text(f, i) /\ ObjectsTo(f, i) <= Len(seen)
                    => seen[ObjectsTo(f, i)] \in {f[i].due, NoKeyRead}
             /\ store.setup = "done" /\ left = <<>> => Len(seen) = ObjectsTo(f, l)
<1> HIDE DEF f, l, left, seen
<1> SUFFICES InOrder
  BY <1>1 DEF StoreInOrder, f, l, left, seen, Text
<1>3. CASE store.setup = "none" /\ left = <<>> /\ store.calls <= l
  <2>1. Len(seen) = 0
    BY <1>2, <1>3
  <2>2. ObjectsTo(f, l) \in Nat
    BY <1>1, ObjectsCounted
  <2>3. ASSUME NEW i \in 1 .. l, ~Text(f, i) PROVE ~(ObjectsTo(f, i) <= 0)
    <3>1. i \in Nat /\ i # 0 /\ i - 1 \in Nat
      BY <1>1
    <3>2. ObjectsTo(f, i) = ObjectsTo(f, i - 1) + 1 /\ ObjectsTo(f, i - 1) \in Nat
      BY <2>3, <3>1, ObjectsCounted
    <3> QED BY <3>2
  <2> QED BY <1>3, <2>1, <2>2, <2>3
<1>4. CASE \E n \in 0 .. l : store.calls <= n /\ ReadTo(f, n, left) /\ SeenTo(f, n, seen)
  <2>1. PICK n \in 0 .. l : store.calls <= n /\ ReadTo(f, n, left) /\ SeenTo(f, n, seen)
    BY <1>4
  <2>2. n \in Nat /\ n <= l /\ store.calls <= l
    BY <1>1, <1>2, <2>1
  <2>3. Len(seen) = ObjectsTo(f, n) /\ ObjectsTo(f, n) \in Nat
    BY <2>1, <2>2, RowIs, ObjectsCounted DEF SeenTo
  <2>4. ObjectsTo(f, n) <= ObjectsTo(f, l)
    BY <1>1, <2>2, ObjectsCounted
  <2>5. ASSUME NEW i \in 1 .. l, ~Text(f, i), ObjectsTo(f, i) <= Len(seen)
        PROVE  seen[ObjectsTo(f, i)] \in {f[i].due, NoKeyRead}
    <3>1. i \in Nat /\ i # 0 /\ i - 1 \in Nat
      BY <1>1
    <3>2. ObjectsTo(f, i) = ObjectsTo(f, i - 1) + 1 /\ ObjectsTo(f, i - 1) \in Nat
      BY <2>5, <3>1, ObjectsCounted
    <3>3. n <= i - 1 => ObjectsTo(f, n) <= ObjectsTo(f, i - 1)
      BY <2>2, <3>1, ObjectsCounted
    <3>4. i \in 1 .. n
      BY <2>2, <2>3, <2>5, <3>1, <3>2, <3>3
    <3> QED BY <2>1, <2>5, <3>4 DEF SeenTo
  <2>6. left = <<>> => n = l
    <3> DEFINE q == l - n
    <3>1. Row(left, q) /\ q \in Nat
      BY <1>1, <2>1, <2>2 DEF ReadTo
    <3> HIDE DEF q
    <3>2. Len(left) = q
      BY <3>1, RowIs
    <3>3. left = <<>> => q = 0
      BY <3>2
    <3> QED BY <1>1, <2>2, <3>3 DEF q
  <2> QED BY <2>2, <2>3, <2>4, <2>5, <2>6
<1> QED BY <1>2, <1>3, <1>4

(* However many pieces a file has, text among them, a program that calls the *)
(* store until its end (wp_file_load, wp_file_eof) is given every object in  *)
(* the order of the file (wp_read_pem_bio reads to the end of the first PEM),*)
(* and calls no more often than there are pieces; what a load that cannot    *)
(* set up the decoders throws away ends the loop, too.                       *)
THEOREM SpecStoreInOrder == CodecSpec => []StoreInOrder
<1>1. StoreInv /\ [CodecNext]_codecVars => StoreInv'
  BY StoreNextKeeps
<1>2. StoreInv => StoreInOrder
  BY StoreInvOrder
<1> QED BY <1>1, <1>2, StoreInitOk, PTL DEF CodecSpec

------------------------------------------------------------------------------
(* What a load is at: a piece as it is in the file, in PEM or encrypted, or  *)
(* the DER of a key, which is then due, with the type and the structure that *)
(* PEM or PKCS #8 said it has.                                               *)
SaidOf(p, type, struct) ==
  \/ type = "none" /\ struct = "none"
  \/ p.form = "spki" /\ type = "none" /\ struct = "SPKI"
  \/ p.form = "pki" /\ type = "none" /\ struct = "PKI"
  \/ p.form = "trad" /\ type = p.key.alg /\ struct = "TS"
  \/ p.form = "params" /\ struct = "TS" /\ type = IF p.key.alg = "EC" THEN "EC" ELSE "none"
Readable(p) == Standard(p) /\ ~EncryptedDer(p)
InFile(p) == Readable(p) /\ (p.head # "none" \/ p.lock # "none")
Plain(p) == Shaped(p) /\ StandardKey(p) /\ p.head = "none" /\ p.lock = "none"
LoadOk(l) ==
  /\ l = [on |-> TRUE, piece |-> l.piece, sel |-> l.sel, answer |-> l.answer, type |-> l.type,
          struct |-> l.struct, due |-> l.due]
  /\ l.sel = l.piece.asks
  /\ l.answer \in {"right", "wrong", "refused"}
  /\ \/ InFile(l.piece) /\ l.type = "none" /\ l.struct = "none" /\ l.due = DueOf(l.piece, l.answer)
     \/ Plain(l.piece) /\ SaidOf(l.piece, l.type, l.struct) /\ l.due = l.piece.key

Gives(a, p) == a = Pass \/ a = MakesKey(p.key)

LEMMA NotPass == /\ Fails # Pass /\ \A key : MakesKey(key) # Pass
                 /\ \A piece, type, struct : MakesPiece(piece, type, struct) # Pass
<1>1. \A a : a.did # "pass" => a # Pass
  BY DidIs
<1> QED BY <1>1, DidIs

(* The kinds of plain pieces.                                                *)
LEMMA PlainKinds ==
  ASSUME NEW p, Plain(p)
  PROVE  /\ p.key.alg \in KeyAlgs /\ p.head = "none" /\ p.lock = "none"
         /\ p.key.alg = "RSA-PSS" => p.key.pss # NoPss
         /\ p.form \in {"spki", "pki", "trad", "rsapub", "point", "params"}
         /\ p.form \in {"spki", "rsapub", "point"} => p.asks = AsksPub
         /\ p.form \in {"pki", "trad"} => p.asks = AsksPair
         /\ p.form = "trad" => p.key.alg \in {"RSA", "EC"}
         /\ p.form = "rsapub" => p.key.alg = "RSA"
         /\ p.form = "point" => p.key.alg = "EC"
         /\ p.form = "params" => p.key.alg \in {"DH", "EC"} /\ p.asks = AsksParams
         /\ p.form = "params" => [p.key EXCEPT !.has = AsksParams] = p.key
<1>1. \A form, lock, asks : KindOf(p) = Kind(form, lock, asks)
                              => p.form = form /\ p.lock = lock /\ p.asks = asks
  BY DEF KindOf, Kind
<1>2. StandardKey(p) /\ p.head = "none" /\ p.lock = "none"
  BY DEF Plain
<1>3. p.form = "params" => p.key.has = AsksParams
  BY <1>1, <1>2 DEF StandardKey
<1>4. p.form = "params" => [p.key EXCEPT !.has = AsksParams] = p.key
  <2> DEFINE k == p.key
  <2>1. k = [alg |-> k.alg, id |-> k.id, has |-> k.has, pss |-> k.pss]
    BY DEF Plain, Shaped
  <2> HIDE DEF k
  <2>2. k.has = AsksParams => [k EXCEPT !.has = AsksParams] = k
    BY <2>1
  <2> QED BY <1>3, <2>2 DEF k
<1> QED BY <1>1, <1>2, <1>4 DEF StandardKey

(* Every decoder that does not pass over a plain piece makes its key, but    *)
(* for the one of DH parameters, which takes those of a private key where    *)
(* nothing else is asked for.                                                *)
OnlyParams(c, p, sel) ==
  /\ c.alg = "DH" /\ c.format = "TS" /\ p.form = "pki" /\ p.key.alg = "DH"
  /\ "priv" \notin sel /\ "pub" \notin sel
LEMMA PlainDecodes ==
  ASSUME NEW c \in Decoders, NEW p, Plain(p), NEW sel, NEW answer, ~OnlyParams(c, p, sel)
  PROVE  Gives(KeyDecode(c, p, sel, answer), p)
<1>1. CoderFamily(c)
  BY DecoderFamily
<1>2. Gives(Pass, p) /\ Gives(MakesKey(p.key), p)
  BY DEF Gives
<1> HIDE DEF Gives
<1>3. /\ p.form # "epki"
      /\ p.key.alg = "RSA-PSS" => p.key.pss # NoPss
      /\ p.form = "params" => [p.key EXCEPT !.has = AsksParams] = p.key
  BY PlainKinds
<1>4. Gives(RsaDecodeSpki(c, p), p) /\ Gives(RsaDecodePki(c, p), p) /\ Gives(RsaDecodeEncPki(c, p, answer), p)
  BY <1>2, <1>3 DEF RsaDecodeSpki, RsaDecodePki, RsaDecodeEncPki
<1>5. c.alg \in {"RSA", "RSA-PSS"} => c.format \in {"SPKI", "PKI", "TS"}
  BY <1>1 DEF CoderFamily, Serves
<1>6. c.alg \in {"RSA", "RSA-PSS"} => Gives(RsaDecode(c, p, sel, answer), p)
  BY <1>4, <1>5 DEF RsaDecode
<1>7. Gives(DhDecodeSpki(p), p) /\ Gives(DhDecodePki(p), p)
  BY <1>2 DEF DhDecodeSpki, DhDecodePki
<1>8. p.form # "pki" \/ p.key.alg # "DH" => Gives(DhDecodeParams(p), p)
  BY <1>2, <1>3 DEF DhDecodeParams
<1>9. c.alg = "DH" => Gives(DhDecode(c, p, sel), p)
  BY <1>1, <1>7, <1>8 DEF CoderFamily, Serves, DhDecode, OnlyParams
<1>10. /\ Gives(EcDecodeParams(p), p) /\ Gives(EcDecodeX963Pub(p), p) /\ Gives(EcDecodeSpki(p), p)
       /\ Gives(EcDecodePki(p), p)
  BY <1>2 DEF EcDecodeParams, EcDecodeX963Pub, EcDecodeSpki, EcDecodePki
<1>11. c.alg = "EC" => Gives(EcDecode(c, p, sel), p)
  BY <1>1, <1>10 DEF CoderFamily, Serves, EcDecode
<1>12. Gives(EcxDecode(c, p), p)
  BY <1>2 DEF EcxDecode
<1> QED BY <1>2, <1>6, <1>9, <1>11, <1>12 DEF KeyDecode

(* The decoder of a structure and a family reads it.                         *)
LEMMA SpkiReads ==
  ASSUME NEW p, Plain(p), p.form = "spki", NEW c, Serves(c, p.key.alg, "SPKI", {"pub"}), NEW sel, NEW answer
  PROVE  KeyDecode(c, p, sel, answer) = MakesKey(p.key)
<1>1. /\ p.key.alg \in KeyAlgs /\ p.head = "none" /\ p.lock = "none"
      /\ p.key.alg = "RSA-PSS" => p.key.pss # NoPss
  BY PlainKinds
<1>2. c.alg = p.key.alg /\ c.format = "SPKI" /\ p.head = "none" /\ p.lock = "none"
  BY PlainKinds DEF Serves
<1>3. CASE p.key.alg \in {"RSA", "RSA-PSS"}
  BY <1>1, <1>2, <1>3 DEF KeyDecode, RsaDecode, RsaDecodeSpki
<1>4. CASE p.key.alg = "DH"
  BY <1>2, <1>4 DEF KeyDecode, DhDecode, DhDecodeSpki
<1>5. CASE p.key.alg = "EC"
  BY <1>2, <1>5 DEF KeyDecode, EcDecode, EcDecodeSpki, EcForm
<1>6. CASE p.key.alg \notin {"RSA", "RSA-PSS", "DH", "EC"}
  BY <1>2, <1>6 DEF KeyDecode, EcxDecode
<1> QED BY <1>3, <1>4, <1>5, <1>6

LEMMA PkiReads ==
  ASSUME NEW p, Plain(p), p.form = "pki", NEW c, Serves(c, p.key.alg, "PKI", {"priv"}), NEW sel, NEW answer
  PROVE  KeyDecode(c, p, sel, answer) = MakesKey(p.key)
<1>1. /\ p.key.alg \in KeyAlgs
      /\ p.key.alg = "RSA-PSS" => p.key.pss # NoPss
  BY PlainKinds
<1>2. c.alg = p.key.alg /\ c.format = "PKI" /\ p.head = "none" /\ p.lock = "none"
  BY PlainKinds DEF Serves
<1>3. CASE p.key.alg \in {"RSA", "RSA-PSS"}
  <2>1. RsaDecodePki(c, p) = MakesKey(p.key)
    BY <1>1, <1>3, PlainKinds DEF RsaDecodePki
  <2> QED BY <1>2, <1>3, <2>1, NotPass DEF KeyDecode, RsaDecode
<1>4. CASE p.key.alg = "DH"
  BY <1>2, <1>4 DEF KeyDecode, DhDecode, DhDecodePki
<1>5. CASE p.key.alg = "EC"
  BY <1>2, <1>5 DEF KeyDecode, EcDecode, EcDecodePki, EcForm
<1>6. CASE p.key.alg \notin {"RSA", "RSA-PSS", "DH", "EC"}
  BY <1>2, <1>6 DEF KeyDecode, EcxDecode
<1> QED BY <1>3, <1>4, <1>5, <1>6

(* Some decoder that suits what is said of a plain piece makes its key.      *)
LEMMA PlainRead ==
  ASSUME NEW p, Plain(p), NEW type, NEW struct, SaidOf(p, type, struct), NEW answer,
         NEW l, l.piece = p, l.type = type, l.struct = struct, l.sel = p.asks
  PROVE  \E c \in Decoders : Suits(c, l) /\ KeyDecode(c, p, p.asks, answer) = MakesKey(p.key)
<1> DEFINE alg == p.key.alg
<1>1. /\ alg \in KeyAlgs /\ p.head = "none" /\ p.lock = "none"
      /\ p.form \in {"spki", "pki", "trad", "rsapub", "point", "params"}
      /\ p.form = "trad" => alg \in {"RSA", "EC"}
      /\ p.form = "rsapub" => alg = "RSA"
      /\ p.form = "point" => alg = "EC"
      /\ p.form = "params" => alg \in {"DH", "EC"}
  BY PlainKinds
<1>2. /\ p.form \in {"spki", "rsapub", "point"} => p.asks = {"params", "pub"}
      /\ p.form \in {"pki", "trad"} => p.asks = {"params", "pub", "priv"}
      /\ p.form = "params" => p.asks = {"params"} /\ [p.key EXCEPT !.has = AsksParams] = p.key
  BY PlainKinds DEF AsksPub, AsksPair, AsksParams
<1>3. CASE p.form = "spki"
  <2>1. PICK c \in Decoders : Serves(c, alg, "SPKI", {"pub"})
    BY <1>1, DecoderThereIs
  <2>2. Suits(c, l)
    BY <1>2, <1>3, <2>1 DEF Suits, SaidOf, Serves, DoesSelection
  <2>3. KeyDecode(c, p, p.asks, answer) = MakesKey(p.key)
    BY <1>3, <2>1, SpkiReads
  <2> QED BY <2>2, <2>3
<1>4. CASE p.form = "pki"
  <2>1. PICK c \in Decoders : Serves(c, alg, "PKI", {"priv"})
    BY <1>1, DecoderThereIs
  <2>2. Suits(c, l)
    BY <1>2, <1>4, <2>1 DEF Suits, SaidOf, Serves, DoesSelection
  <2>3. KeyDecode(c, p, p.asks, answer) = MakesKey(p.key)
    BY <1>4, <2>1, PkiReads
  <2> QED BY <2>2, <2>3
<1>5. CASE p.form = "trad" /\ alg = "RSA"
  <2>1. PICK c \in Decoders : Serves(c, "RSA", "TS", {"priv"})
    BY <1>5, DecoderThereIs DEF KeyAlgs
  <2>2. Suits(c, l)
    BY <1>2, <1>5, <2>1 DEF Suits, SaidOf, Serves, DoesSelection
  <2>3. RsaDecodePki(c, p) = MakesKey(p.key)
    BY <1>1, <1>5, <2>1 DEF RsaDecodePki, Serves
  <2>4. KeyDecode(c, p, p.asks, answer) = MakesKey(p.key)
    BY <1>1, <1>2, <1>5, <2>1, <2>3 DEF KeyDecode, RsaDecode, Serves
  <2> QED BY <2>2, <2>4
<1>6. CASE p.form = "rsapub"
  <2>1. PICK c \in Decoders : Serves(c, "RSA", "SPKI", {"pub"})
    BY DecoderThereIs DEF KeyAlgs
  <2>2. Suits(c, l)
    BY <1>2, <1>6, <2>1 DEF Suits, SaidOf, Serves, DoesSelection
  <2>3. RsaDecodeSpki(c, p) = MakesKey(p.key)
    BY <1>1, <1>6, <2>1 DEF RsaDecodeSpki, Serves
  <2>4. KeyDecode(c, p, p.asks, answer) = MakesKey(p.key)
    BY <1>1, <2>1, <2>3 DEF KeyDecode, RsaDecode, Serves
  <2> QED BY <2>2, <2>4
<1>7. CASE p.form \in {"trad", "point", "params"} /\ alg \in {"DH", "EC"}
  <2>1. PICK c \in Decoders : Serves(c, alg, "TS", {"params"})
    BY <1>1, <1>7, DecoderThereIs
  <2>2. Suits(c, l)
    BY <1>2, <1>7, <2>1 DEF Suits, SaidOf, Serves, DoesSelection
  <2>3. CASE alg = "DH"
    <3>1. DhDecodeParams(p) = MakesKey(p.key)
      BY <1>1, <1>2, <1>7, <2>3 DEF DhDecodeParams
    <3>2. KeyDecode(c, p, p.asks, answer) = MakesKey(p.key)
      BY <1>1, <1>2, <1>7, <2>1, <2>3, <3>1 DEF KeyDecode, DhDecode, Serves
    <3> QED BY <2>2, <3>2
  <2>4. CASE alg = "EC"
    <3>1. KeyDecode(c, p, p.asks, answer) = MakesKey(p.key)
      BY <1>1, <1>2, <1>7, <2>1, <2>4
         DEF KeyDecode, EcDecode, EcDecodePki, EcDecodeX963Pub, EcDecodeParams, EcForm, Serves
    <3> QED BY <2>2, <3>1
  <2> QED BY <1>7, <2>3, <2>4
<1> QED BY <1>1, <1>3, <1>4, <1>5, <1>6, <1>7

------------------------------------------------------------------------------
(* One answer for a piece: nothing, the key, a failure where nothing is due, *)
(* or a piece with the key that is due.                                      *)
Opens(q, type, struct, due, asks) ==
  /\ q.key = due
  /\ q.form # "cert" => Plain(q) /\ q.form # "point" /\ SaidOf(q, type, struct) /\ q.asks = asks
AnswerOk(a, due, asks) ==
  \/ a \in {Pass, MakesKey(due)}
  \/ a = Fails /\ due = NoKeyRead
  \/ \E q, type, struct : a = MakesPiece(q, type, struct) /\ Opens(q, type, struct, due, asks)

LEMMA AnswerOkIs ==
  ASSUME NEW due, NEW asks
  PROVE  /\ AnswerOk(Pass, due, asks) /\ AnswerOk(MakesKey(due), due, asks)
         /\ due = NoKeyRead => AnswerOk(Fails, due, asks)
         /\ \A q, type, struct :
              Opens(q, type, struct, due, asks) => AnswerOk(MakesPiece(q, type, struct), due, asks)
BY DEF AnswerOk

(* A standard piece out of its PEM or its encryption is plain.               *)
Bare(p) == [form |-> IF p.form = "epki" THEN "pki" ELSE p.form, key |-> p.key, head |-> "none",
            lock |-> "none", secret |-> p.secret, asks |-> p.asks, due |-> p.due]
LEMMA BareFields ==
  ASSUME NEW p, NEW q, q = Bare(p)
  PROVE  /\ q.form = (IF p.form = "epki" THEN "pki" ELSE p.form) /\ q.key = p.key /\ q.head = "none"
         /\ q.lock = "none" /\ q.secret = p.secret /\ q.asks = p.asks /\ q.due = p.due
         /\ q = [form |-> q.form, key |-> q.key, head |-> q.head, lock |-> q.lock,
                 secret |-> q.secret, asks |-> q.asks, due |-> q.due]
BY DEF Bare

LEMMA StandardForms ==
  ASSUME NEW p, StandardKey(p)
  PROVE  \/ p.form = "spki" /\ p.lock = "none" /\ p.asks = AsksPub /\ p.head \in {"none", "PUBLIC KEY"}
         \/ p.form = "pki" /\ p.lock = "none" /\ p.asks = AsksPair /\ p.head \in {"none", "PRIVATE KEY"}
         \/ /\ p.form = "epki" /\ p.lock = "pbes2" /\ p.asks = AsksPair
            /\ p.head \in {"none", "ENCRYPTED PRIVATE KEY"}
         \/ /\ p.key.alg \in {"RSA", "EC"} /\ p.form = "trad" /\ p.lock = "none" /\ p.asks = AsksPair
            /\ p.head \in {"none", PrivateHead(p.key.alg)}
         \/ /\ p.key.alg \in {"RSA", "EC"} /\ p.form = "trad" /\ p.lock = "dek" /\ p.asks = AsksPair
            /\ p.head = PrivateHead(p.key.alg)
         \/ p.key.alg = "RSA" /\ p.form = "rsapub" /\ p.lock = "none" /\ p.asks = AsksPub /\ p.head = "none"
         \/ p.key.alg = "EC" /\ p.form = "point" /\ p.lock = "none" /\ p.asks = AsksPub /\ p.head = "none"
         \/ /\ p.key.alg \in {"DH", "EC"} /\ p.key.has = AsksParams /\ p.form = "params" /\ p.lock = "none"
            /\ p.asks = AsksParams /\ p.head \in {"none", ParamsHead(p.key.alg)}
<1>1. \A form, lock, asks : KindOf(p) = Kind(form, lock, asks)
                              => p.form = form /\ p.lock = lock /\ p.asks = asks
  BY DEF KindOf, Kind
<1> QED BY <1>1 DEF StandardKey

LEMMA KindIs ==
  ASSUME NEW p
  PROVE  \A form, lock, asks :
           p.form = form /\ p.lock = lock /\ p.asks = asks => KindOf(p) = Kind(form, lock, asks)
BY DEF KindOf, Kind

LEMMA BareIsPlain ==
  ASSUME NEW p, Shaped(p), StandardKey(p), NEW q, q = Bare(p)
  PROVE  Plain(q) /\ q.key = p.key /\ q.asks = p.asks /\ q.form # "cert"
         /\ (p.form # "point" => q.form # "point")
<1>1. /\ q.form = (IF p.form = "epki" THEN "pki" ELSE p.form) /\ q.key = p.key /\ q.head = "none"
      /\ q.lock = "none" /\ q.asks = p.asks
  BY BareFields
<1>2. Shaped(q)
  <2>1. q = [form |-> q.form, key |-> q.key, head |-> q.head, lock |-> q.lock,
             secret |-> q.secret, asks |-> q.asks, due |-> q.due]
    BY BareFields
  <2>2. q.key = [alg |-> q.key.alg, id |-> q.key.id, has |-> q.key.has, pss |-> q.key.pss]
    BY <1>1 DEF Shaped
  <2> QED BY <2>1, <2>2 DEF Shaped
<1>3. StandardKey(q)
  <2>1. q.key.alg \in KeyAlgs /\ (q.key.alg = "RSA-PSS" => q.key.pss # NoPss)
    BY <1>1 DEF StandardKey
  <2>2. \/ p.form = "spki" /\ p.asks = AsksPub
        \/ p.form \in {"pki", "epki"} /\ p.asks = AsksPair
        \/ p.key.alg \in {"RSA", "EC"} /\ p.form = "trad" /\ p.asks = AsksPair
        \/ p.key.alg = "RSA" /\ p.form = "rsapub" /\ p.asks = AsksPub
        \/ p.key.alg = "EC" /\ p.form = "point" /\ p.asks = AsksPub
        \/ p.key.alg \in {"DH", "EC"} /\ p.key.has = AsksParams /\ p.form = "params" /\ p.asks = AsksParams
    BY StandardForms
  <2>3. \/ q.form = "spki" /\ q.asks = AsksPub
        \/ q.form = "pki" /\ q.asks = AsksPair
        \/ q.key.alg \in {"RSA", "EC"} /\ q.form = "trad" /\ q.asks = AsksPair
        \/ q.key.alg = "RSA" /\ q.form = "rsapub" /\ q.asks = AsksPub
        \/ q.key.alg = "EC" /\ q.form = "point" /\ q.asks = AsksPub
        \/ q.key.alg \in {"DH", "EC"} /\ q.key.has = AsksParams /\ q.form = "params" /\ q.asks = AsksParams
    BY <1>1, <2>2
  <2>4. \A form, asks : q.form = form /\ q.asks = asks => KindOf(q) = Kind(form, "none", asks)
    BY <1>1, KindIs
  <2> QED BY <1>1, <2>1, <2>3, <2>4 DEF StandardKey
<1>4. q.form # "cert"
  <2>1. p.form \in {"spki", "pki", "epki", "trad", "rsapub", "point", "params"}
    BY StandardForms
  <2> QED BY <1>1, <2>1
<1> QED BY <1>1, <1>2, <1>3, <1>4 DEF Plain

LEMMA OpenedIsBare ==
  ASSUME NEW p, Shaped(p)
  PROVE  /\ [Decrypted(p) EXCEPT !.head = "none"] = Bare(p)
         /\ p.form # "epki" /\ p.lock = "none" => [p EXCEPT !.head = "none"] = Bare(p)
         /\ p.head = "none" => Decrypted(p) = Bare(p)
<1>1. PICK r : r = [form |-> p.form, key |-> p.key, head |-> p.head, lock |-> p.lock,
                    secret |-> p.secret, asks |-> p.asks, due |-> p.due]
  OBVIOUS
<1>2. p = r
  BY <1>1 DEF Shaped
<1> DEFINE opened == IF r.form = "epki" THEN "pki" ELSE r.form
<1>a. Decrypted(r) = [r EXCEPT !.form = opened, !.lock = "none"]
  BY DEF Decrypted
<1>b. Bare(r) = [form |-> opened, key |-> p.key, head |-> "none",
            lock |-> "none", secret |-> p.secret, asks |-> p.asks, due |-> p.due]
  BY <1>1 DEF Bare
<1> HIDE DEF opened
<1>c. Decrypted(r) = [form |-> opened, key |-> p.key, head |-> p.head, lock |-> "none",
                      secret |-> p.secret, asks |-> p.asks, due |-> p.due]
  BY <1>1, <1>a
<1>3. [Decrypted(r) EXCEPT !.head = "none"] = Bare(r)
  BY <1>b, <1>c
<1>4. r.form # "epki" /\ r.lock = "none" => [r EXCEPT !.head = "none"] = Bare(r)
  BY <1>1 DEF Bare
<1>5. r.head = "none" => Decrypted(r) = Bare(r)
  BY <1>1, <1>b, <1>c
<1> QED BY <1>2, <1>3, <1>4, <1>5

(* What PEM says of a piece is so.                                           *)
LEMMA PemSays ==
  ASSUME NEW p, Shaped(p), StandardKey(p), p.head # "none", NEW answer
  PROVE  LET due == DueOf(p, answer) IN
         \/ Pem2Der(p, answer) = Fails /\ p.lock # "none" /\ answer # "right"
         \/ \E type, struct :
              /\ Pem2Der(p, answer) = MakesPiece(Bare(p), type, struct) /\ SaidOf(Bare(p), type, struct)
              /\ p.form # "point" /\ (p.lock = "none" \/ answer = "right")
<1> DEFINE q == Bare(p)
<1>1. /\ q.form = (IF p.form = "epki" THEN "pki" ELSE p.form) /\ q.key = p.key
  BY BareFields
<1>2. \/ p.form = "spki" /\ p.lock = "none" /\ p.head = "PUBLIC KEY"
      \/ p.form = "pki" /\ p.lock = "none" /\ p.head = "PRIVATE KEY"
      \/ p.form = "epki" /\ p.lock = "pbes2" /\ p.head = "ENCRYPTED PRIVATE KEY"
      \/ p.key.alg = "RSA" /\ p.form = "trad" /\ p.lock \in {"none", "dek"} /\ p.head = "RSA PRIVATE KEY"
      \/ p.key.alg = "EC" /\ p.form = "trad" /\ p.lock \in {"none", "dek"} /\ p.head = "EC PRIVATE KEY"
      \/ p.key.alg = "DH" /\ p.form = "params" /\ p.lock = "none" /\ p.head = "DH PARAMETERS"
      \/ p.key.alg = "EC" /\ p.form = "params" /\ p.lock = "none" /\ p.head = "EC PARAMETERS"
  BY StandardForms DEF PrivateHead, ParamsHead
<1> DEFINE Ok(a, type, struct) == \/ a = Fails /\ p.lock # "none" /\ answer # "right"
                                  \/ a = MakesPiece(q, type, struct) /\ (p.lock = "none" \/ answer = "right")
<1>3. ASSUME NEW type, NEW struct
      PROVE  Ok(PemToDer(p, answer, type, struct), type, struct)
  <2>1. [Decrypted(p) EXCEPT !.head = "none"] = q /\ (p.lock = "none" => [p EXCEPT !.head = "none"] = q)
    BY <1>2, OpenedIsBare
  <2>2. p.lock \in {"none", "dek", "pbes2"} /\ (p.lock # "none" => PemCallback(p))
    BY <1>2 DEF PemCallback
  <2> HIDE DEF q
  <2> QED BY <2>1, <2>2 DEF PemToDer
<1>4. p.form # "text" /\ p.form # "point"
  BY <1>2
<1> HIDE DEF Ok, q
<1>5. Pem2Der(p, answer) = Pem2DerDecodeData(p, answer)
  BY <1>4 DEF Pem2Der
<1>6. CASE p.head = "PUBLIC KEY"
  <2>1. Ok(Pem2Der(p, answer), "none", "SPKI")
    BY <1>3, <1>5, <1>6 DEF Pem2DerDecodeData
  <2>2. SaidOf(q, "none", "SPKI")
    BY <1>1, <1>2, <1>6 DEF SaidOf
  <2> QED BY <1>4, <2>1, <2>2 DEF Ok, q
<1>7. CASE p.head \in {"PRIVATE KEY", "ENCRYPTED PRIVATE KEY"}
  <2>1. Ok(Pem2Der(p, answer), "none", "PKI")
    BY <1>3, <1>5, <1>7 DEF Pem2DerDecodeData
  <2>2. SaidOf(q, "none", "PKI")
    BY <1>1, <1>2, <1>7 DEF SaidOf
  <2> QED BY <1>4, <2>1, <2>2 DEF Ok, q
<1>8. CASE p.head = "RSA PRIVATE KEY"
  <2>1. Ok(Pem2Der(p, answer), "RSA", "TS")
    BY <1>3, <1>5, <1>8 DEF Pem2DerDecodeData
  <2>2. SaidOf(q, "RSA", "TS")
    BY <1>1, <1>2, <1>8 DEF SaidOf
  <2> QED BY <1>4, <2>1, <2>2 DEF Ok, q
<1>9. CASE p.head \in {"EC PARAMETERS", "EC PRIVATE KEY"}
  <2>1. Ok(Pem2Der(p, answer), "EC", "TS")
    BY <1>3, <1>5, <1>9 DEF Pem2DerDecodeData
  <2>2. SaidOf(q, "EC", "TS")
    BY <1>1, <1>2, <1>9 DEF SaidOf
  <2> QED BY <1>4, <2>1, <2>2 DEF Ok, q
<1>10. CASE p.head = "DH PARAMETERS"
  <2>1. Ok(Pem2Der(p, answer), "none", "TS")
    BY <1>3, <1>5, <1>10 DEF Pem2DerDecodeData
  <2>2. SaidOf(q, "none", "TS")
    BY <1>1, <1>2, <1>10 DEF SaidOf
  <2> QED BY <1>4, <2>1, <2>2 DEF Ok, q
<1> QED BY <1>2, <1>6, <1>7, <1>8, <1>9, <1>10

LEMMA DueIs ==
  ASSUME NEW p, Standard(p), NEW answer
  PROVE  /\ p.lock = "none" => DueOf(p, answer) = p.key
         /\ answer = "right" => DueOf(p, answer) = p.key
         /\ p.lock # "none" /\ answer # "right" => DueOf(p, answer) = NoKeyRead
         /\ p.due = p.key
<1>1. p.due = p.key
  <2>1. PICK r : r = [form |-> p.form, key |-> p.key, head |-> p.head, lock |-> p.lock,
                    secret |-> p.secret, asks |-> p.asks, due |-> p.due]
    OBVIOUS
  <2>2. r.due = p.key /\ p = r
    BY <2>1 DEF Standard, Shaped
  <2> QED BY <2>2
<1> QED BY <1>1 DEF Standard, DueOf

(* PEM.                                                                      *)
LEMMA PemStep ==
  ASSUME NEW p, Standard(p), p.head # "none", NEW answer, NEW due, due = DueOf(p, answer)
  PROVE  /\ AnswerOk(Pem2Der(p, answer), due, p.asks)
         /\ p.form # "text" => Pem2Der(p, answer) # Pass
         /\ p.form = "text" => Pem2Der(p, answer) = Pass /\ due = NoKeyRead
         /\ Epki2Pki(p, answer) = Pass /\ \A c, sel : KeyDecode(c, p, sel, answer) = Pass
<1>1. Epki2Pki(p, answer) = Pass /\ \A c, sel : KeyDecode(c, p, sel, answer) = Pass
  BY DEF Epki2Pki, KeyDecode
<1>2. CASE p.form = "text"
  <2>1. Pem2Der(p, answer) = Pass
    BY <1>2 DEF Pem2Der
  <2>2. p.lock = "none" /\ p.key = NoKeyRead
    BY <1>2, StandardForms DEF Standard
  <2> QED BY <1>1, <1>2, <2>1, <2>2, DueIs, AnswerOkIs
<1>3. CASE p.form = "cert" /\ p.head = "CERTIFICATE" /\ p.lock = "none"
  <2>1. Pem2Der(p, answer) = MakesPiece([p EXCEPT !.head = "none"], "none", "none")
    BY <1>3 DEF Pem2Der, Pem2DerDecodeData, PemToDer
  <2>2. PICK q : q = Bare(p)
    OBVIOUS
  <2>3. [p EXCEPT !.head = "none"] = q
    BY <1>3, <2>2, OpenedIsBare DEF Standard
  <2>a. due = p.key
    BY <1>3, DueIs
  <2>b. q.key = p.key /\ q.form = p.form
    BY <1>3, <2>2, BareFields
  <2>4. q.key = due /\ q.form = "cert"
    BY <1>3, <2>a, <2>b
  <2>5. Opens(q, "none", "none", due, p.asks)
    BY <2>4 DEF Opens
  <2>6. Pem2Der(p, answer) = MakesPiece(q, "none", "none")
    BY <2>1, <2>3
  <2>7. AnswerOk(Pem2Der(p, answer), due, p.asks) /\ Pem2Der(p, answer) # Pass
    BY <2>5, <2>6, AnswerOkIs, NotPass
  <2> QED BY <1>1, <1>3, <2>7
<1>4. CASE StandardKey(p)
  <2>1. Shaped(p)
    BY DEF Standard
  <2>2. \/ Pem2Der(p, answer) = Fails /\ p.lock # "none" /\ answer # "right"
        \/ \E type, struct :
              /\ Pem2Der(p, answer) = MakesPiece(Bare(p), type, struct) /\ SaidOf(Bare(p), type, struct)
              /\ p.form # "point" /\ (p.lock = "none" \/ answer = "right")
    BY <1>4, <2>1, PemSays
  <2>3. p.form # "text"
    BY <1>4, StandardForms
  <2>4. CASE Pem2Der(p, answer) = Fails /\ p.lock # "none" /\ answer # "right"
    BY <1>1, <2>3, <2>4, DueIs, AnswerOkIs, NotPass
  <2>5. ASSUME NEW type, NEW struct, Pem2Der(p, answer) = MakesPiece(Bare(p), type, struct),
               SaidOf(Bare(p), type, struct), p.form # "point", p.lock = "none" \/ answer = "right"
        PROVE  AnswerOk(Pem2Der(p, answer), due, p.asks) /\ Pem2Der(p, answer) # Pass
    <3>1. PICK q : q = Bare(p)
      OBVIOUS
    <3>2. Plain(q) /\ q.key = p.key /\ q.asks = p.asks /\ q.form # "point"
      BY <1>4, <2>1, <2>5, <3>1, BareIsPlain
    <3>3. Opens(q, type, struct, due, p.asks)
      BY <2>5, <3>1, <3>2, DueIs DEF Opens
    <3> QED BY <2>5, <3>1, <3>3, AnswerOkIs, NotPass
  <2> QED BY <1>1, <2>2, <2>3, <2>4, <2>5
<1> QED BY <1>2, <1>3, <1>4 DEF Standard

(* Encrypted PKCS #8 in DER: an RSA key, which its own decoder decrypts.     *)
LEMMA EpkiStep ==
  ASSUME NEW p, Readable(p), p.head = "none", p.lock # "none",
         NEW answer \in {"right", "wrong", "refused"}, NEW due, due = DueOf(p, answer)
  PROVE  /\ p.form = "epki" /\ p.asks = AsksPair
         /\ Pem2Der(p, answer) = Pass /\ Epki2Pki(p, answer) = Pass
         /\ \A c \in Decoders : \A sel : AnswerOk(KeyDecode(c, p, sel, answer), due, p.asks)
         /\ answer = "right" => \A sel : KeyDecode(RsaPki, p, sel, answer) = MakesKey(due)
         /\ answer # "right" => due = NoKeyRead
<1>0. Standard(p) /\ ~EncryptedDer(p)
  BY DEF Readable
<1>1. Shaped(p) /\ StandardKey(p) /\ p.form = "epki" /\ p.lock = "pbes2" /\ p.asks = AsksPair
  BY <1>0, StandardForms DEF Standard, PrivateHead
<1>2. Pem2Der(p, answer) = Pass /\ Epki2Pki(p, answer) = Pass
  BY <1>1 DEF Pem2Der, Epki2Pki, GetPkcs8TraditionalOffset
<1>3. due = (IF answer = "right" THEN p.key ELSE NoKeyRead)
  BY <1>0, <1>1, DueIs
<1>4. PICK q : q = Bare(p)
  OBVIOUS
<1>5. Decrypted(p) = q /\ q.form = "pki" /\ Plain(q) /\ q.key = p.key /\ q.asks = p.asks
  BY <1>1, <1>4, OpenedIsBare, BareIsPlain, BareFields
<1>6. ASSUME NEW c \in Decoders, NEW sel
      PROVE  \/ KeyDecode(c, p, sel, answer) = Pass
             \/ answer = "right" /\ KeyDecode(c, p, sel, answer) = MakesKey(p.key)
  <2>1. CoderFamily(c)
    BY DecoderFamily
  <2>2. RsaDecodeSpki(c, p) = Pass /\ RsaDecodePki(c, p) = Pass
    BY <1>1 DEF RsaDecodeSpki, RsaDecodePki
  <2>3. RsaDecodePki(c, q) \in {Pass, MakesKey(p.key)}
    BY <1>5 DEF RsaDecodePki
  <2>4. \/ RsaDecodeEncPki(c, p, answer) = Pass
        \/ answer = "right" /\ RsaDecodeEncPki(c, p, answer) = MakesKey(p.key)
    BY <1>5, <2>3 DEF RsaDecodeEncPki
  <2>5. CASE c.alg \in {"RSA", "RSA-PSS"}
    <3>1. c.format \in {"SPKI", "PKI", "TS"}
      BY <2>1, <2>5 DEF CoderFamily, Serves
    <3>2. RsaDecode(c, p, sel, answer) \in {Pass, RsaDecodeEncPki(c, p, answer)}
      BY <2>2, <3>1 DEF RsaDecode
    <3> QED BY <2>4, <2>5, <3>2 DEF KeyDecode
  <2>6. CASE c.alg = "DH"
    BY <1>1, <2>1, <2>6 DEF CoderFamily, Serves, KeyDecode, DhDecode, DhDecodeSpki, DhDecodePki, DhDecodeParams
  <2>7. CASE c.alg = "EC"
    BY <1>1, <2>1, <2>7 DEF CoderFamily, Serves, KeyDecode, EcDecode, EcDecodeSpki, EcDecodePki, EcDecodeParams,
       EcDecodeX963Pub, EcForm
  <2>8. CASE c.alg \notin {"RSA", "RSA-PSS", "DH", "EC"}
    BY <1>1, <2>8 DEF KeyDecode, EcxDecode
  <2> QED BY <2>5, <2>6, <2>7, <2>8
<1>7. \A c \in Decoders : \A sel : AnswerOk(KeyDecode(c, p, sel, answer), due, p.asks)
  BY <1>3, <1>6, AnswerOkIs
<1>8. ASSUME answer = "right", NEW sel
      PROVE  KeyDecode(RsaPki, p, sel, answer) = MakesKey(due)
  <2>1. p.key.alg \in {"RSA", "RSA-PSS"} /\ (p.key.alg = "RSA-PSS" => p.key.pss # NoPss)
    BY <1>0, <1>1 DEF EncryptedDer, StandardKey
  <2>2. RsaDecodePki(RsaPki, q) = MakesKey(p.key)
    BY <1>5, <2>1 DEF RsaDecodePki
  <2>3. RsaDecodePki(RsaPki, p) = Pass /\ RsaDecodeEncPki(RsaPki, p, answer) = MakesKey(p.key)
    BY <1>1, <1>5, <1>8, <2>2 DEF RsaDecodePki, RsaDecodeEncPki
  <2>4. RsaPki.alg = "RSA" /\ RsaPki.format = "PKI"
    BY DEF RsaPki, Coder
  <2> QED BY <1>3, <1>8, <2>3, <2>4 DEF KeyDecode, RsaDecode
<1> QED BY <1>1, <1>2, <1>3, <1>7, <1>8

(* A plain piece.                                                            *)
LEMMA PlainPasses ==
  ASSUME NEW p, Plain(p), NEW answer
  PROVE  Pem2Der(p, answer) = Pass /\ Epki2Pki(p, answer) = Pass
<1>1. p.head = "none" /\ p.form # "epki"
  BY PlainKinds
<1> QED BY <1>1 DEF Pem2Der, Epki2Pki, DecryptPKCS8Key

LEMMA LoadStep ==
  ASSUME NEW l, LoadOk(l)
  PROVE  /\ \A a \in Answers(l) : AnswerOk(a, l.due, l.sel)
         /\ Answers(l) \subseteq {Pass} => l.due = NoKeyRead
<1> DEFINE p == l.piece
           answer == l.answer
           sel == l.sel
           due == l.due
<1>1. sel = p.asks /\ answer \in {"right", "wrong", "refused"}
  BY DEF LoadOk
<1>2. \A a \in Answers(l) : \/ \E c \in Decoders : a = KeyDecode(c, p, sel, answer)
                            \/ a = Pem2Der(p, answer) \/ a = Epki2Pki(p, answer)
  BY DEF Answers
<1>3. \A c \in Decoders : Suits(c, l) => KeyDecode(c, p, sel, answer) \in Answers(l)
  BY DEF Answers
<1>4. l.type = "none" /\ l.struct = "none"
        => Pem2Der(p, answer) \in Answers(l) /\ Epki2Pki(p, answer) \in Answers(l)
  BY DEF Answers
<1>5. \/ InFile(p) /\ l.type = "none" /\ l.struct = "none" /\ due = DueOf(p, answer)
      \/ Plain(p) /\ SaidOf(p, l.type, l.struct) /\ due = p.key
  BY DEF LoadOk
<1> HIDE DEF p, answer, sel, due
<1>6. CASE InFile(p) /\ l.type = "none" /\ l.struct = "none" /\ due = DueOf(p, answer)
  <2>1. Standard(p) /\ Readable(p)
    BY <1>6 DEF InFile, Readable
  <2>2. CASE p.head # "none"
    <3>1. /\ AnswerOk(Pem2Der(p, answer), due, sel)
          /\ p.form # "text" => Pem2Der(p, answer) # Pass
          /\ p.form = "text" => due = NoKeyRead
          /\ Epki2Pki(p, answer) = Pass
      BY <1>1, <1>6, <2>1, <2>2, PemStep
    <3>2. \A c : KeyDecode(c, p, sel, answer) = Pass
      BY <2>2 DEF KeyDecode
    <3>3. AnswerOk(Pass, due, sel)
      BY AnswerOkIs
    <3>4. ASSUME NEW a \in Answers(l) PROVE AnswerOk(a, due, sel)
      BY <1>2, <3>1, <3>2, <3>3
    <3> QED BY <1>4, <1>6, <3>1, <3>4 DEF due, sel
  <2>3. CASE p.head = "none"
    <3>0. p.lock # "none"
      BY <1>6, <2>3 DEF InFile
    <3>1. /\ p.asks = AsksPair
          /\ Pem2Der(p, answer) = Pass /\ Epki2Pki(p, answer) = Pass
          /\ \A c \in Decoders : AnswerOk(KeyDecode(c, p, sel, answer), due, sel)
          /\ answer = "right" => KeyDecode(RsaPki, p, sel, answer) = MakesKey(due)
          /\ answer # "right" => due = NoKeyRead
      BY <1>1, <1>6, <2>1, <2>3, <3>0, EpkiStep
    <3>2. AnswerOk(Pass, due, sel)
      BY AnswerOkIs
    <3>3. ASSUME NEW a \in Answers(l) PROVE AnswerOk(a, due, sel)
      BY <1>2, <3>1, <3>2
    <3>4. RsaPki \in Decoders /\ Suits(RsaPki, l)
      <4>1. RsaPki \in Decoders /\ RsaPki.needs = {"priv"}
        BY DEF Decoders, SharedCoders, RsaPki, Coder
      <4>2. l.sel = AsksPair
        BY <1>1, <3>1 DEF sel
      <4> QED BY <1>6, <4>1, <4>2 DEF Suits, DoesSelection, AsksPair
    <3>5. answer = "right" => ~(Answers(l) \subseteq {Pass})
      BY <1>3, <3>1, <3>4, NotPass
    <3> QED BY <3>1, <3>3, <3>5 DEF due, sel
  <2> QED BY <2>2, <2>3
<1>7. CASE Plain(p) /\ SaidOf(p, l.type, l.struct) /\ due = p.key
  <2>1. AnswerOk(Pass, due, sel) /\ AnswerOk(MakesKey(due), due, sel)
    BY AnswerOkIs
  <2>2. Pem2Der(p, answer) = Pass /\ Epki2Pki(p, answer) = Pass
    BY <1>7, PlainPasses
  <2>3. p.form = "pki" => "priv" \in sel
    BY <1>1, <1>7, PlainKinds DEF AsksPair
  <2>4. ASSUME NEW c \in Decoders PROVE AnswerOk(KeyDecode(c, p, sel, answer), due, sel)
    <3>1. ~OnlyParams(c, p, sel)
      BY <2>3 DEF OnlyParams
    <3>2. Gives(KeyDecode(c, p, sel, answer), p)
      BY <1>7, <3>1, PlainDecodes
    <3> QED BY <1>7, <2>1, <3>2 DEF Gives
  <2>5. ASSUME NEW a \in Answers(l) PROVE AnswerOk(a, due, sel)
    BY <1>2, <2>1, <2>2, <2>4
  <2>6. PICK c \in Decoders : Suits(c, l) /\ KeyDecode(c, p, p.asks, answer) = MakesKey(p.key)
    <3>1. l.piece = p /\ l.sel = p.asks
      BY <1>1 DEF p, sel
    <3> QED BY <1>7, <3>1, PlainRead
  <2>7. ~(Answers(l) \subseteq {Pass})
    <3>1. KeyDecode(c, p, sel, answer) \in Answers(l)
      BY <1>3, <2>6
    <3> QED BY <1>1, <2>6, <3>1, NotPass
  <2> QED BY <2>5, <2>7 DEF due, sel
<1> QED BY <1>5, <1>6, <1>7

(* The decoders of the store, from the last.                                 *)
LEMMA StoreTableIs ==
  /\ Len(StoreTable) = 16 /\ \A i \in 1 .. 16 : StoreTable[i] \in Decoders
  /\ StoreTable[1] = RsaSpki /\ StoreTable[2] = RsaPki /\ StoreTable[3] = DhTypeSpecific
  /\ StoreTable[4] = DhSpki /\ StoreTable[5] = DhPki /\ StoreTable[6] = EcTypeSpecific
  /\ StoreTable[7] = EcSpki /\ StoreTable[8] = EcPki
  /\ StoreTable[9] = X25519Spki /\ StoreTable[10] = X25519Pki /\ StoreTable[11] = Ed25519Spki
  /\ StoreTable[12] = Ed25519Pki /\ StoreTable[13] = X448Spki /\ StoreTable[14] = X448Pki
  /\ StoreTable[15] = Ed448Spki /\ StoreTable[16] = Ed448Pki
<1>1. /\ Len(StoreTable) = 16
      /\ StoreTable[1] = RsaSpki /\ StoreTable[2] = RsaPki /\ StoreTable[3] = DhTypeSpecific
      /\ StoreTable[4] = DhSpki /\ StoreTable[5] = DhPki /\ StoreTable[6] = EcTypeSpecific
      /\ StoreTable[7] = EcSpki /\ StoreTable[8] = EcPki
      /\ StoreTable[9] = X25519Spki /\ StoreTable[10] = X25519Pki /\ StoreTable[11] = Ed25519Spki
      /\ StoreTable[12] = Ed25519Pki /\ StoreTable[13] = X448Spki /\ StoreTable[14] = X448Pki
      /\ StoreTable[15] = Ed448Spki /\ StoreTable[16] = Ed448Pki
  BY DEF StoreTable
<1>2. {RsaSpki, RsaPki, DhTypeSpecific, DhSpki, DhPki, EcTypeSpecific, EcSpki, EcPki} \cup EcxCoders
        \subseteq Decoders
  BY DEF Decoders, SharedCoders
<1>3. \A i \in 1 .. 16 : StoreTable[i] \in Decoders
  <2>1. \A i \in 1 .. 16 : i \in {1, 2, 3, 4, 5, 6, 7, 8, 9, 10, 11, 12, 13, 14, 15, 16}
    OBVIOUS
  <2> QED BY <1>1, <1>2, <2>1 DEF EcxCoders
<1> QED BY <1>1, <1>3

(* A set of numbers up to a bound that is not empty has a greatest one.      *)
LEMMA Greatest ==
  ASSUME NEW n \in Nat, NEW T, T \subseteq 1 .. n, T # {}
  PROVE  \E m \in T : \A y \in T : y <= m
<1> DEFINE U == {k \in 0 .. n : n - k \in T}
<1>1. U \subseteq Nat /\ U # {}
  <2>1. PICK x \in T : TRUE
    OBVIOUS
  <2>2. n - x \in 0 .. n /\ n - (n - x) = x
    BY <2>1
  <2>3. n - x \in U
    BY <2>1, <2>2
  <2>4. U \subseteq Nat
    OBVIOUS
  <2> QED BY <2>3, <2>4
<1>2. PICK k \in U : \A y \in U : k <= y
  <2> HIDE DEF U
  <2> QED BY <1>1, Least
<1>3. n - k \in T
  BY <1>2
<1>4. ASSUME NEW y \in T PROVE y <= n - k
  <2>1. n - y \in U /\ k \in Nat /\ y \in Nat
    <3>1. n - y \in 0 .. n /\ n - (n - y) = y
      OBVIOUS
    <3> QED BY <3>1
  <2>2. k <= n - y
    BY <1>2, <2>1
  <2> QED BY <2>1, <2>2
<1> QED BY <1>3, <1>4

Joined(r, s, t) ==
  DOMAIN r = 1 .. 18 /\ r[17] = t[1] /\ r[18] = t[2] /\ \A i \in 1 .. 16 : r[i] = s[i]
LEMMA TwoMore ==
  ASSUME NEW S, NEW s \in Seq(S), NEW t \in Seq(S), Len(s) = 16, Len(t) = 2, NEW r, r = s \o t
  PROVE  Joined(r, s, t)
<1>1. /\ r \in Seq(S) /\ Len(r) = Len(s) + Len(t)
      /\ \A i \in 1 .. Len(s) + Len(t) : r[i] = IF i <= Len(s) THEN s[i] ELSE t[i - Len(s)]
  BY ConcatProperties
<1> DEFINE n == Len(s)
           k == Len(t)
<1>2. n = 16 /\ k = 2
  OBVIOUS
<1> HIDE DEF n, k
<1>3. r \in Seq(S) /\ Len(r) = n + k /\ \A i \in 1 .. n + k : r[i] = IF i <= n THEN s[i] ELSE t[i - n]
  BY <1>1 DEF n, k
<1>4. n + k = 18
  BY <1>2
<1>5. DOMAIN r = 1 .. 18
  BY <1>3, <1>4, LenProperties
<1>6. ASSUME NEW i \in 1 .. 16 PROVE r[i] = s[i]
  <2>1. i \in 1 .. n + k /\ i <= n
    BY <1>2
  <2> QED BY <1>3, <2>1
<1>7. r[17] = t[17 - 16] /\ r[18] = t[18 - 16]
  BY <1>2, <1>3
<1>8. 17 - 16 = 1 /\ 18 - 16 = 2
  OBVIOUS
<1> QED BY <1>5, <1>6, <1>7, <1>8 DEF Joined

StoreReads(p, answer, i) == KeyDecode(StoreTable[i], p, {}, answer)
LEMMA FirstIs ==
  ASSUME NEW p, NEW answer, NEW a, a = FirstAnswer(p, answer)
  PROVE  \/ /\ a = Pass /\ Epki2Pki(p, answer) = Pass /\ Pem2Der(p, answer) = Pass
            /\ \A i \in 1 .. 16 : StoreReads(p, answer, i) = Pass
         \/ a # Pass /\ a = Pem2Der(p, answer)
         \/ a # Pass /\ Pem2Der(p, answer) = Pass /\ a = Epki2Pki(p, answer)
         \/ /\ a # Pass /\ Pem2Der(p, answer) = Pass /\ Epki2Pki(p, answer) = Pass
            /\ \E m \in 1 .. 16 : a = StoreReads(p, answer, m)
                 /\ \A i \in m + 1 .. 16 : StoreReads(p, answer, i) = Pass
<1> DEFINE s == [i \in 1 .. 16 |-> StoreReads(p, answer, i)]
           e == Epki2Pki(p, answer)
           d == Pem2Der(p, answer)
           all == StoreAnswers(p, answer)
           heard == {i \in DOMAIN all : all[i] # Pass}
           m == CHOOSE i \in heard : \A j \in heard : j <= i
<1>1. all = s \o <<e, d>>
  BY StoreTableIs DEF StoreAnswers, StoreReads
<1>2. /\ DOMAIN all = 1 .. 18 /\ all[17] = e /\ all[18] = d
      /\ \A i \in 1 .. 16 : all[i] = StoreReads(p, answer, i)
  <2> DEFINE S == {StoreReads(p, answer, i) : i \in 1 .. 16} \cup {e, d}
             t == <<e, d>>
  <2>1. \A i \in 1 .. 16 : StoreReads(p, answer, i) \in S
    OBVIOUS
  <2>2. s \in [1 .. 16 -> S]
    BY <2>1
  <2>3. s \in Seq(S) /\ Len(s) = 16 /\ \A i \in 1 .. 16 : s[i] = StoreReads(p, answer, i)
    <3>1. 16 \in Nat /\ DOMAIN s = 1 .. 16 /\ \A i \in 1 .. 16 : s[i] = StoreReads(p, answer, i)
      OBVIOUS
    <3>2. s \in Seq(S)
      BY <2>1, IsASeq
    <3> HIDE DEF S, s
    <3> QED BY <3>1, <3>2, LenProperties
  <2>4. t \in Seq(S) /\ Len(t) = 2 /\ t[1] = e /\ t[2] = d
    OBVIOUS
  <2> HIDE DEF s, t, S, e, d
  <2>5. all = s \o t
    BY <1>1 DEF t
  <2> HIDE DEF all
  <2>6. Joined(all, s, t)
    BY <2>3, <2>4, <2>5, TwoMore
  <2> QED BY <2>3, <2>4, <2>6 DEF Joined
<1>3. a = IF heard = {} THEN Pass ELSE all[m]
  BY Zenon DEF FirstAnswer
<1> HIDE DEF all, s, e, d
<1>4. heard \subseteq 1 .. 18
  BY <1>2
<1>5. CASE heard = {}
  <2>1. \A i \in 1 .. 18 : all[i] = Pass
    BY <1>2, <1>5
  <2>2. e = Pass /\ d = Pass /\ \A i \in 1 .. 16 : StoreReads(p, answer, i) = Pass
    BY <1>2, <2>1
  <2> QED BY <1>3, <1>5, <2>2 DEF e, d
<1>6. CASE heard # {}
  <2>1. m \in heard /\ \A j \in heard : j <= m
    <3> HIDE DEF heard
    <3>1. \E i \in heard : \A j \in heard : j <= i
      BY <1>4, <1>6, Greatest
    <3> QED BY <3>1
  <2>2. a = all[m]
    BY <1>3, <1>6
  <2> HIDE DEF m
  <2>3. m \in 1 .. 18 /\ a # Pass
    BY <1>2, <2>1, <2>2
  <2>4. \A i \in 1 .. 18 : i > m => all[i] = Pass
    BY <1>2, <2>1, <2>3
  <2> HIDE DEF heard
  <2>5. CASE m = 18
    BY <1>2, <2>2, <2>3, <2>5 DEF d
  <2>6. CASE m = 17
    <3>1. d = Pass
      BY <1>2, <2>4, <2>6
    <3> QED BY <1>2, <2>2, <2>3, <2>6, <3>1 DEF d, e
  <2>7. CASE m \in 1 .. 16
    <3>1. d = Pass /\ e = Pass
      BY <1>2, <2>4, <2>7
    <3>2. a = StoreReads(p, answer, m) /\ \A i \in m + 1 .. 16 : StoreReads(p, answer, i) = Pass
      BY <1>2, <2>2, <2>4, <2>7
    <3> QED BY <2>3, <2>7, <3>1, <3>2 DEF d, e
  <2> QED BY <2>3, <2>5, <2>6, <2>7
<1> QED BY <1>5, <1>6

(* The store reads every piece but a point.                                  *)
LEMMA StoreReadsPlain ==
  ASSUME NEW p, Plain(p), p.form # "point", NEW answer
  PROVE  /\ \E i \in 1 .. 16 : StoreReads(p, answer, i) = MakesKey(p.key)
         /\ p.form = "pki" /\ p.key.alg = "DH" => StoreReads(p, answer, 5) = MakesKey(p.key)
<1>1. /\ p.key.alg \in KeyAlgs /\ p.head = "none" /\ p.lock = "none"
      /\ p.key.alg = "RSA-PSS" => p.key.pss # NoPss
      /\ p.form \in {"spki", "pki", "trad", "rsapub", "params"}
      /\ p.form = "trad" => p.key.alg \in {"RSA", "EC"}
      /\ p.form = "rsapub" => p.key.alg = "RSA"
      /\ p.form = "params" => p.key.alg \in {"DH", "EC"}
      /\ p.form = "params" => [p.key EXCEPT !.has = AsksParams] = p.key
  BY PlainKinds
<1> DEFINE Reads(c) == KeyDecode(c, p, {}, answer) = MakesKey(p.key)
<1>2. \A i \in 1 .. 16 : Reads(StoreTable[i]) => StoreReads(p, answer, i) = MakesKey(p.key)
  BY DEF StoreReads
<1>3. CASE p.form \in {"spki", "rsapub"} /\ p.key.alg \in {"RSA", "RSA-PSS"}
  <2>1. Reads(RsaSpki)
    BY <1>1, <1>3 DEF RsaSpki, Coder, KeyDecode, RsaDecode, RsaDecodeSpki
  <2> QED BY <1>2, <1>3, <2>1, StoreTableIs
<1>4. CASE p.form \in {"pki", "trad"} /\ p.key.alg \in {"RSA", "RSA-PSS"}
  <2>1. RsaDecodePki(RsaPki, p) = MakesKey(p.key)
    BY <1>1, <1>4 DEF RsaPki, Coder, RsaDecodePki
  <2>2. Reads(RsaPki)
    BY <1>1, <1>4, <2>1, NotPass DEF RsaPki, Coder, KeyDecode, RsaDecode
  <2> QED BY <1>2, <1>4, <2>2, StoreTableIs
<1>5. CASE p.key.alg = "DH"
  <2>1. /\ p.form = "spki" => Reads(DhSpki)
        /\ p.form = "pki" => Reads(DhPki)
        /\ p.form = "params" => Reads(DhTypeSpecific)
    BY <1>1, <1>5 DEF DhSpki, DhPki, DhTypeSpecific, Coder, KeyDecode, DhDecode, DhDecodeSpki, DhDecodePki,
       DhDecodeParams
  <2> QED BY <1>1, <1>2, <1>5, <2>1, StoreTableIs
<1>6. CASE p.key.alg = "EC"
  <2>1. /\ p.form = "spki" => Reads(EcSpki)
        /\ p.form \in {"pki", "trad"} => Reads(EcPki)
        /\ p.form = "params" => Reads(EcTypeSpecific)
    BY <1>1, <1>6 DEF EcSpki, EcPki, EcTypeSpecific, Coder, KeyDecode, EcDecode, EcDecodeSpki, EcDecodePki,
       EcDecodeParams, EcForm
  <2> QED BY <1>1, <1>2, <1>6, <2>1, StoreTableIs
<1>7. CASE p.key.alg \notin {"RSA", "RSA-PSS", "DH", "EC"}
  <2>1. p.form \in {"spki", "pki"} /\ p.key.alg \in {"X25519", "ED25519", "X448", "ED448"}
    BY <1>1, <1>7 DEF KeyAlgs
  <2>2. CASE p.form = "spki"
    <3>1. /\ p.key.alg = "X25519" => Reads(X25519Spki)
          /\ p.key.alg = "ED25519" => Reads(Ed25519Spki)
          /\ p.key.alg = "X448" => Reads(X448Spki)
          /\ p.key.alg = "ED448" => Reads(Ed448Spki)
      BY <1>1, <2>2 DEF X25519Spki, Ed25519Spki, X448Spki, Ed448Spki, Coder, KeyDecode, EcxDecode
    <3> QED BY <1>2, <1>7, <2>1, <3>1, StoreTableIs
  <2>3. CASE p.form = "pki"
    <3>1. /\ p.key.alg = "X25519" => Reads(X25519Pki)
          /\ p.key.alg = "ED25519" => Reads(Ed25519Pki)
          /\ p.key.alg = "X448" => Reads(X448Pki)
          /\ p.key.alg = "ED448" => Reads(Ed448Pki)
      BY <1>1, <2>3 DEF X25519Pki, Ed25519Pki, X448Pki, Ed448Pki, Coder, KeyDecode, EcxDecode
    <3> QED BY <1>2, <1>7, <2>1, <3>1, StoreTableIs
  <2> QED BY <2>1, <2>2, <2>3
<1> QED BY <1>1, <1>3, <1>4, <1>5, <1>6, <1>7

LEMMA StoreStep ==
  ASSUME NEW p, Readable(p), p.form # "text", p.form # "point",
         NEW answer \in {"right", "wrong", "refused"}, NEW due, due = DueOf(p, answer),
         NEW a, a = FirstAnswer(p, answer)
  PROVE  AnswerOk(a, due, p.asks) /\ (a = Pass => due = NoKeyRead)
<1> DEFINE asks == p.asks
<1>0. Standard(p)
  BY DEF Readable
<1>1. \/ /\ a = Pass /\ Epki2Pki(p, answer) = Pass /\ Pem2Der(p, answer) = Pass
         /\ \A i \in 1 .. 16 : StoreReads(p, answer, i) = Pass
      \/ a # Pass /\ a = Pem2Der(p, answer)
      \/ a # Pass /\ Pem2Der(p, answer) = Pass /\ a = Epki2Pki(p, answer)
      \/ /\ a # Pass /\ Pem2Der(p, answer) = Pass /\ Epki2Pki(p, answer) = Pass
         /\ \E m \in 1 .. 16 : a = StoreReads(p, answer, m)
              /\ \A i \in m + 1 .. 16 : StoreReads(p, answer, i) = Pass
  BY FirstIs
<1>2. AnswerOk(Pass, due, asks) /\ AnswerOk(MakesKey(due), due, asks)
  BY AnswerOkIs
<1>3. CASE p.head # "none"
  <2>1. AnswerOk(Pem2Der(p, answer), due, asks) /\ Pem2Der(p, answer) # Pass
    BY <1>0, <1>3, PemStep
  <2> QED BY <1>1, <2>1
<1>4. CASE p.head = "none" /\ p.lock # "none"
  <2>1. /\ Pem2Der(p, answer) = Pass /\ Epki2Pki(p, answer) = Pass
        /\ \A c \in Decoders : \A sel : AnswerOk(KeyDecode(c, p, sel, answer), due, asks)
        /\ answer = "right" => \A sel : KeyDecode(RsaPki, p, sel, answer) = MakesKey(due)
        /\ answer # "right" => due = NoKeyRead
    BY <1>4, EpkiStep
  <2>2. \A m \in 1 .. 16 : AnswerOk(StoreReads(p, answer, m), due, asks)
    BY <2>1, StoreTableIs DEF StoreReads
  <2>3. answer = "right" => StoreReads(p, answer, 2) # Pass
    BY <2>1, StoreTableIs, NotPass DEF StoreReads
  <2>4. 2 \in 1 .. 16
    OBVIOUS
  <2> QED BY <1>1, <1>2, <2>1, <2>2, <2>3, <2>4
<1>5. CASE p.head = "none" /\ p.lock = "none"
  <2>1. Plain(p)
    BY <1>0, <1>5 DEF Standard, Plain
  <2>2. due = p.key
    BY <1>0, <1>5, DueIs
  <2>3. Pem2Der(p, answer) = Pass /\ Epki2Pki(p, answer) = Pass
    BY <2>1, PlainPasses
  <2>4. /\ \E i \in 1 .. 16 : StoreReads(p, answer, i) = MakesKey(p.key)
        /\ p.form = "pki" /\ p.key.alg = "DH" => StoreReads(p, answer, 5) = MakesKey(p.key)
    BY <2>1, StoreReadsPlain
  <2>5. PICK m \in 1 .. 16 : a = StoreReads(p, answer, m)
                 /\ \A i \in m + 1 .. 16 : StoreReads(p, answer, i) = Pass
    BY <1>1, <2>3, <2>4, NotPass
  <2>6. a # Pass
    BY <1>1, <2>3, <2>4, NotPass
  <2>7. ~OnlyParams(StoreTable[m], p, {})
    <3> SUFFICES ASSUME OnlyParams(StoreTable[m], p, {}) PROVE FALSE
      OBVIOUS
    <3>1. p.form = "pki" /\ p.key.alg = "DH" /\ StoreTable[m].alg = "DH" /\ StoreTable[m].format = "TS"
      BY DEF OnlyParams
    <3>2. ~(5 \in m + 1 .. 16)
      BY <2>4, <2>5, <3>1, NotPass
    <3>3. m \in {5, 6, 7, 8, 9, 10, 11, 12, 13, 14, 15, 16}
      BY <3>2
    <3>4. \A c \in {DhPki, EcTypeSpecific, EcSpki, EcPki, X25519Spki, X25519Pki, Ed25519Spki, Ed25519Pki,
                    X448Spki, X448Pki, Ed448Spki, Ed448Pki} : c.alg # "DH" \/ c.format # "TS"
      BY DEF DhPki, EcTypeSpecific, EcSpki, EcPki, X25519Spki, X25519Pki, Ed25519Spki, Ed25519Pki,
             X448Spki, X448Pki, Ed448Spki, Ed448Pki, Coder
    <3>5. StoreTable[m] \in {DhPki, EcTypeSpecific, EcSpki, EcPki, X25519Spki, X25519Pki,
                             Ed25519Spki, Ed25519Pki, X448Spki, X448Pki, Ed448Spki, Ed448Pki}
      BY <3>3, StoreTableIs
    <3> QED BY <3>1, <3>4, <3>5
  <2>8. Gives(a, p)
    BY <2>1, <2>5, <2>7, PlainDecodes, StoreTableIs DEF StoreReads
  <2> QED BY <1>2, <2>2, <2>6, <2>8 DEF Gives
<1> QED BY <1>3, <1>4, <1>5

------------------------------------------------------------------------------
(* What programs of no further habits save is standard.                      *)
KeyOf(k, has) == [alg |-> k.alg, id |-> k.id, has |-> has, pss |-> k.pss]
EncodedOf(k, form, has) == [form |-> form, key |-> KeyOf(k, has)]
FormOf(c, sel, form, has) ==
  \/ c.format = "SPKI" /\ form = "spki"
  \/ c.format = "PKI" /\ form = "pki"
  \/ c.alg = "RSA" /\ c.format = "TS" /\ form = IF "priv" \in sel THEN "trad" ELSE "rsapub"
  \/ c.alg = "DH" /\ c.format = "TS" /\ form = "params" /\ has = AsksParams
  \/ /\ c.alg = "EC" /\ c.format \in {"TS", "X9_62"}
     /\ form = IF "priv" \in sel THEN "trad" ELSE IF "pub" \in sel THEN "point" ELSE "params"
     /\ form = "params" => has = AsksParams
Encoded(d, c, k, sel) == \E form, has : d = EncodedOf(k, form, has) /\ FormOf(c, sel, form, has)

EncoderFamily(c) ==
  \/ c.alg \in KeyAlgs /\ c.format \in {"SPKI", "PKI", "EPKI"}
  \/ c.alg \in {"RSA", "DH", "EC"} /\ c.format = "TS"
  \/ c.alg = "EC" /\ c.format = "X9_62"
LEMMA EncoderIs ==
  ASSUME NEW c \in Encoders
  PROVE  EncoderFamily(c)
<1>1. CASE c \in {RsaEpki, RsaKp, DhEpki, EcEpki, X25519Epki, Ed25519Epki, X448Epki, Ed448Epki}
  BY <1>1 DEF RsaEpki, RsaKp, DhEpki, EcEpki, X25519Epki, Ed25519Epki, X448Epki, Ed448Epki, Coder,
              EncoderFamily, KeyAlgs
<1>2. CASE c \in EcxCoders
  BY <1>2 DEF EcxCoders, X25519Spki, X25519Pki, Ed25519Spki, Ed25519Pki, X448Spki, X448Pki,
              Ed448Spki, Ed448Pki, Coder, EncoderFamily, KeyAlgs
<1>3. CASE c \in {RsaSpki, RsaPki, PssSpki, PssPki, DhTypeSpecific, DhSpki, DhPki,
                  EcTypeSpecific, EcSpki, EcPki, EcX962}
  BY <1>3 DEF RsaSpki, RsaPki, PssSpki, PssPki, DhTypeSpecific, DhSpki, DhPki,
                  EcTypeSpecific, EcSpki, EcPki, EcX962, Coder, EncoderFamily, KeyAlgs
<1> QED BY <1>1, <1>2, <1>3 DEF Encoders, SharedCoders

LEMMA DataIs ==
  ASSUME NEW form, NEW k, NEW has
  PROVE  Data(form, k, has) = EncodedOf(k, form, has)
BY DEF Data, EncodedOf, KeyOf

(* A plain restriction is written as it is.                                  *)
LEMMA PssWrittenAsIs ==
  ASSUME NEW k, k.pss \in [md : STRING, mgf : STRING, salt : Nat], PlainPss(k)
  PROVE  PssEncodeAlgId(k.pss) = k.pss
<1>1. k.pss = [md |-> k.pss.md, mgf |-> k.pss.mgf, salt |-> k.pss.salt]
  OBVIOUS
<1>2. k.pss.salt \in Nat /\ k.pss.salt < 256
  BY DEF PlainPss
<1>3. k.pss.salt % 256 = k.pss.salt
  BY <1>2
<1> DEFINE md == k.pss.md
           mgf == k.pss.mgf
           salt == k.pss.salt
<1>4. PssEncodeAlgId(k.pss) = [md |-> md, mgf |-> mgf, salt |-> salt]
  BY <1>3 DEF PssEncodeAlgId, PlainPss
<1> QED BY <1>1, <1>4

LEMMA WithAlgIdKeeps ==
  ASSUME NEW k, k.pss \in [md : STRING, mgf : STRING, salt : Nat], k.alg = "RSA-PSS" => PlainPss(k),
         NEW form, NEW has, NEW d, d = EncodedOf(k, form, has)
  PROVE  WithAlgId(d) = d
<1>1. d.key = KeyOf(k, has) /\ d = [form |-> form, key |-> KeyOf(k, has)]
  BY DEF EncodedOf
<1>2. d.key.alg = k.alg /\ d.key.pss = k.pss
  BY <1>1 DEF KeyOf
<1>3. CASE k.alg = "RSA-PSS"
  <2>1. PssEncodeAlgId(k.pss) = k.pss
    BY <1>3, PssWrittenAsIs
  <2>2. WithAlgId(d) = [d EXCEPT !.key.pss = PssEncodeAlgId(d.key.pss)]
    BY <1>2, <1>3 DEF WithAlgId
  <2> DEFINE x == k.pss
  <2>3. PssEncodeAlgId(d.key.pss) = x
    BY <1>2, <2>1
  <2>4. WithAlgId(d) = [d EXCEPT !.key.pss = x]
    BY <2>2, <2>3
  <2>5. [d EXCEPT !.key.pss = x] = d
    BY <1>1, <1>2 DEF KeyOf
  <2> QED BY <2>4, <2>5
<1>4. CASE k.alg # "RSA-PSS"
  BY <1>2, <1>4 DEF WithAlgId
<1> QED BY <1>3, <1>4

LEMMA UnreversedIs ==
  ASSUME NEW k, NEW has, NEW key, key = KeyOf(k, has)
  PROVE  Unreversed(Reversed(key)) = key
<1> DEFINE id == <<"back", key.id>>
           r == Reversed(key)
<1>1. key = [alg |-> key.alg, id |-> key.id, has |-> key.has, pss |-> key.pss]
  BY DEF KeyOf
<1>2. r = [key EXCEPT !.id = id]
  BY DEF Reversed
<1>3. Len(id) = 2 /\ id[2] = key.id
  OBVIOUS
<1> HIDE DEF id, r
<1>4. r = [alg |-> key.alg, id |-> id, has |-> key.has, pss |-> key.pss]
  BY <1>1, <1>2
<1>5. r.id = id
  BY <1>4
<1> DEFINE x == key.id
<1>6. Unreversed(r) = [r EXCEPT !.id = x]
  BY <1>3, <1>5 DEF Unreversed
<1>7. [r EXCEPT !.id = x] = key
  BY <1>1, <1>4
<1> QED BY <1>6, <1>7 DEF r

LEMMA EncodedAsDue ==
  ASSUME NEW c \in Encoders, NEW k, c.alg = k.alg, c.format # "EPKI",
         k.pss \in [md : STRING, mgf : STRING, salt : Nat], k.alg = "RSA-PSS" => PlainPss(k),
         k.alg = "RSA-PSS" /\ c.format = "SPKI" => ~k.small, NEW sel
  PROVE  Encoded(Encode(c, k, sel), c, k, sel)
<1>1. EncoderFamily(c)
  BY EncoderIs
<1>2. \A form, has : FormOf(c, sel, form, has) => Encoded(EncodedOf(k, form, has), c, k, sel)
  BY DEF Encoded
<1>3. CASE c.alg \in {"RSA", "RSA-PSS"}
  <2>1. \/ c.format \in {"SPKI", "PKI"}
        \/ c.format = "TS" /\ c.alg = "RSA"
    BY <1>1, <1>3 DEF EncoderFamily
  <2>2. \A form, has : WithAlgId(EncodedOf(k, form, has)) = EncodedOf(k, form, has)
    BY WithAlgIdKeeps
  <2>3. CASE c.format = "SPKI"
    <3>1. Encode(c, k, sel) = EncodedOf(k, "spki", {"pub"})
      BY <1>3, <2>2, <2>3, DataIs DEF Encode, RsaEncode, RsaEncodeSpki
    <3>2. FormOf(c, sel, "spki", {"pub"})
      BY <2>3 DEF FormOf
    <3> QED BY <1>2, <3>1, <3>2
  <2>4. CASE c.format = "PKI"
    <3>1. Encode(c, k, sel) = EncodedOf(k, "pki", {"pub", "priv"})
      BY <1>3, <2>2, <2>4, DataIs DEF Encode, RsaEncode, RsaEncodePki
    <3>2. FormOf(c, sel, "pki", {"pub", "priv"})
      BY <2>4 DEF FormOf
    <3> QED BY <1>2, <3>1, <3>2
  <2>5. CASE c.format = "TS" /\ c.alg = "RSA" /\ "priv" \in sel
    <3>1. Encode(c, k, sel) = EncodedOf(k, "trad", {"pub", "priv"})
      BY <1>3, <2>5, DataIs DEF Encode, RsaEncode, RsaEncodePriv
    <3>2. FormOf(c, sel, "trad", {"pub", "priv"})
      BY <2>5 DEF FormOf
    <3> QED BY <1>2, <3>1, <3>2
  <2>6. CASE c.format = "TS" /\ c.alg = "RSA" /\ "priv" \notin sel
    <3>1. Encode(c, k, sel) = EncodedOf(k, "rsapub", {"pub"})
      BY <1>3, <2>6, DataIs DEF Encode, RsaEncode, RsaEncodePub
    <3>2. FormOf(c, sel, "rsapub", {"pub"})
      BY <2>6 DEF FormOf
    <3> QED BY <1>2, <3>1, <3>2
  <2> QED BY <2>1, <2>3, <2>4, <2>5, <2>6
<1>4. CASE c.alg = "DH"
  <2>1. c.format \in {"SPKI", "PKI", "TS"}
    BY <1>1, <1>4 DEF EncoderFamily
  <2>2. CASE c.format = "SPKI"
    <3>1. Encode(c, k, sel) = EncodedOf(k, "spki", AsksPub) /\ FormOf(c, sel, "spki", AsksPub)
      BY <1>4, <2>2, DataIs DEF Encode, DhEncode, DhEncodeSpki, FormOf
    <3> QED BY <1>2, <3>1
  <2>3. CASE c.format = "PKI"
    <3>1. Encode(c, k, sel) = EncodedOf(k, "pki", AsksPair) /\ FormOf(c, sel, "pki", AsksPair)
      BY <1>4, <2>3, DataIs DEF Encode, DhEncode, DhEncodePki, FormOf
    <3> QED BY <1>2, <3>1
  <2>4. CASE c.format = "TS"
    <3>1. Encode(c, k, sel) = EncodedOf(k, "params", AsksParams) /\ FormOf(c, sel, "params", AsksParams)
      BY <1>4, <2>4, DataIs DEF Encode, DhEncode, DhEncodeParams, FormOf
    <3> QED BY <1>2, <3>1
  <2> QED BY <2>1, <2>2, <2>3, <2>4
<1>5. CASE c.alg = "EC"
  <2>1. c.format \in {"SPKI", "PKI", "TS", "X9_62"}
    BY <1>1, <1>5 DEF EncoderFamily
  <2>2. CASE c.format = "SPKI"
    <3>1. Encode(c, k, sel) = EncodedOf(k, "spki", AsksPub) /\ FormOf(c, sel, "spki", AsksPub)
      BY <1>5, <2>2, DataIs DEF Encode, EcEncode, EcEncodeSpki, FormOf
    <3> QED BY <1>2, <3>1
  <2>3. CASE c.format = "PKI"
    <3>1. Encode(c, k, sel) = EncodedOf(k, "pki", AsksPair) /\ FormOf(c, sel, "pki", AsksPair)
      BY <1>5, <2>3, DataIs DEF Encode, EcEncode, EcEncodePki, FormOf
    <3> QED BY <1>2, <3>1
  <2>4. CASE c.format \in {"TS", "X9_62"}
    <3>1. /\ "priv" \in sel => Encode(c, k, sel) = EncodedOf(k, "trad", AsksPair)
          /\ "priv" \notin sel /\ "pub" \in sel => Encode(c, k, sel) = EncodedOf(k, "point", AsksPub)
          /\ "priv" \notin sel /\ "pub" \notin sel => Encode(c, k, sel) = EncodedOf(k, "params", AsksParams)
      BY <1>5, <2>4, DataIs DEF Encode, EcEncode, EcEncodePriv, EcEncodePub, EcEncodeParams
    <3>2. /\ "priv" \in sel => FormOf(c, sel, "trad", AsksPair)
          /\ "priv" \notin sel /\ "pub" \in sel => FormOf(c, sel, "point", AsksPub)
          /\ "priv" \notin sel /\ "pub" \notin sel => FormOf(c, sel, "params", AsksParams)
      BY <1>5, <2>4 DEF FormOf
    <3> QED BY <1>2, <3>1, <3>2
  <2> QED BY <2>1, <2>2, <2>3, <2>4
<1>6. CASE c.alg \notin {"RSA", "RSA-PSS", "DH", "EC"}
  <2>1. c.format \in {"SPKI", "PKI"}
    BY <1>1, <1>6 DEF EncoderFamily
  <2> DEFINE form == IF c.format = "SPKI" THEN "spki" ELSE "pki"
             has == IF c.format = "SPKI" THEN {"pub"} ELSE {"pub", "priv"}
             key == KeyOf(k, has)
             d == [form |-> form, key |-> key]
  <2>2. FormOf(c, sel, form, has)
    BY <2>1 DEF FormOf
  <2>3. Encode(c, k, sel) = EcxEncode(c, k)
    BY <1>6 DEF Encode
  <2>4. d = EncodedOf(k, form, has)
    BY DEF EncodedOf
  <2>5. (IF c.format = "SPKI" THEN Data("spki", k, {"pub"}) ELSE Data("pki", k, {"pub", "priv"})) = d
    BY DataIs DEF EncodedOf
  <2>6. WcCurveToDer(c, k) = IF k.alg \in {"X25519", "X448"} THEN [d EXCEPT !.key = Reversed(d.key)] ELSE d
    BY <2>5 DEF WcCurveToDer
  <2>7. Unreversed(Reversed(key)) = key
    BY UnreversedIs
  <2> DEFINE back == Reversed(key)
  <2>8. d.key = key
    OBVIOUS
  <2>9. WcCurveToDer(c, k) = IF k.alg \in {"X25519", "X448"} THEN [d EXCEPT !.key = back] ELSE d
    BY <2>6, <2>8
  <2> HIDE DEF form, has, key, back
  <2>10. [d EXCEPT !.key = back] = [form |-> form, key |-> back]
    OBVIOUS
  <2> DEFINE w == [form |-> form, key |-> back]
  <2>11. w.key = back /\ [w EXCEPT !.key = key] = d
    OBVIOUS
  <2>12. k.alg \in {"X25519", "X448"} => EcxEncode(c, k) = [w EXCEPT !.key = Unreversed(w.key)]
    BY <2>9, <2>10 DEF EcxEncode
  <2> HIDE DEF w, d
  <2>13. Unreversed(w.key) = key
    BY <2>7, <2>11 DEF back
  <2>14. EcxEncode(c, k) = d
    <3>1. CASE k.alg \in {"X25519", "X448"}
      BY <2>11, <2>12, <2>13, <3>1
    <3>2. CASE k.alg \notin {"X25519", "X448"}
      BY <2>9, <3>2 DEF EcxEncode
    <3> QED BY <3>1, <3>2
  <2> QED BY <1>2, <2>2, <2>3, <2>4, <2>14
<1> QED BY <1>3, <1>4, <1>5, <1>6

(* A piece put together from what the table of standard pieces has.          *)
Headed(alg, form, lock, asks, head) ==
  \/ form = "spki" /\ lock = "none" /\ asks = AsksPub /\ head \in {"none", "PUBLIC KEY"}
  \/ form = "pki" /\ lock = "none" /\ asks = AsksPair /\ head \in {"none", "PRIVATE KEY"}
  \/ form = "epki" /\ lock = "pbes2" /\ asks = AsksPair /\ head \in {"none", "ENCRYPTED PRIVATE KEY"}
  \/ /\ alg \in {"RSA", "EC"} /\ form = "trad" /\ lock = "none" /\ asks = AsksPair
     /\ head \in {"none", PrivateHead(alg)}
  \/ alg = "RSA" /\ form = "rsapub" /\ lock = "none" /\ asks = AsksPub /\ head = "none"
  \/ alg = "EC" /\ form = "point" /\ lock = "none" /\ asks = AsksPub /\ head = "none"
  \/ /\ alg \in {"DH", "EC"} /\ form = "params" /\ lock = "none" /\ asks = AsksParams
     /\ head \in {"none", ParamsHead(alg)}

MadeOf(p, k, has, form, lock, asks, head, secret) ==
  /\ secret = (lock # "none")
  /\ p = [form |-> form, key |-> KeyOf(k, has), head |-> head, lock |-> lock, secret |-> secret,
          asks |-> asks, due |-> KeyOf(k, has)]

LEMMA BuildStandard ==
  ASSUME NEW k, k.alg \in KeyAlgs, k.alg = "RSA-PSS" => k.pss # NoPss, NEW has,
         NEW form, NEW lock, NEW asks, NEW head, Headed(k.alg, form, lock, asks, head),
         form = "params" => has = AsksParams, form = "epki" => k.alg \in {"RSA", "RSA-PSS"},
         NEW secret, NEW p, MadeOf(p, k, has, form, lock, asks, head, secret)
  PROVE  Readable(p)
<1> DEFINE key == KeyOf(k, has)
<1>0. /\ secret = (lock # "none")
      /\ p = [form |-> form, key |-> key, head |-> head, lock |-> lock, secret |-> secret,
              asks |-> asks, due |-> key]
  BY DEF MadeOf
<1>1. /\ key = [alg |-> key.alg, id |-> key.id, has |-> key.has, pss |-> key.pss]
      /\ key.alg = k.alg /\ key.pss = k.pss /\ key.has = has
  BY DEF KeyOf
<1> HIDE DEF key
<1>2. /\ p = [form |-> p.form, key |-> p.key, head |-> p.head, lock |-> p.lock,
              secret |-> p.secret, asks |-> p.asks, due |-> p.due]
      /\ p.form = form /\ p.key = key /\ p.head = head /\ p.lock = lock /\ p.asks = asks /\ p.due = key
  BY <1>0
<1>3. p.secret = secret
  BY <1>0
<1>4. Shaped(p)
  BY <1>1, <1>2 DEF Shaped
<1>5. p.secret = (p.lock # "none")
  BY <1>0, <1>2, <1>3
<1>6. \A f, l, a : p.form = f /\ p.lock = l /\ p.asks = a => KindOf(p) = Kind(f, l, a)
  BY KindIs
<1>7. StandardKey(p)
  <2>1. /\ p.key.alg \in KeyAlgs
        /\ p.key.alg = "RSA-PSS" => p.key.pss # NoPss
        /\ p.form = "params" => p.key.has = AsksParams
    BY <1>1, <1>2
  <2>2. Headed(p.key.alg, p.form, p.lock, p.asks, p.head)
    BY <1>1, <1>2
  <2>3. KindOf(p) = Kind(p.form, p.lock, p.asks)
    BY <1>6
  <2> QED BY <2>1, <2>2, <2>3 DEF StandardKey, Headed
<1>8. ~EncryptedDer(p)
  BY <1>1, <1>2 DEF EncryptedDer
<1> QED BY <1>2, <1>4, <1>5, <1>7, <1>8 DEF Standard, Readable

LEMMA WrittenReadable ==
  ASSUME CodecHabits = {}, NEW c \in Encoders, NEW k \in CodecKeys,
         NEW sel \in {AsksParams, AsksPub, AsksPair}, NEW pem \in BOOLEAN, NEW cipher \in BOOLEAN,
         NEW w, w = WrittenPiece(c, k, sel, pem, cipher), Saves(c, k, sel, pem, cipher)
  PROVE  Readable(w)
<1> DEFINE data == Encode(c, k, sel)
<1>1. /\ c.alg = k.alg /\ sel # {}
      /\ c.format = "PKI" => sel = AsksPair
      /\ c.format = "SPKI" => sel = AsksPub
      /\ c.alg = "DH" /\ c.format = "TS" => sel = AsksParams
      /\ c.alg = "RSA" /\ c.format = "TS" => sel # AsksParams
  BY DEF Saves
<1>2. /\ k.alg = "RSA-PSS" => k.pss # NoPss /\ PlainPss(k)
      /\ k.alg = "RSA-PSS" /\ c.format = "SPKI" => ~k.small
      /\ c.format # "EPKI"
      /\ cipher => c.format = "PKI"
      /\ cipher => w.lock # "none"
      /\ pem => w.form \notin {"point", "rsapub"}
      /\ ~(pem /\ c.alg = "DH" /\ c.format = "PKI")
  <2>1. /\ k.alg = "RSA-PSS" => k.pss # NoPss /\ PlainPss(k)
        /\ k.alg = "RSA-PSS" /\ c.format = "SPKI" => ~k.small
        /\ c.format # "EPKI"
    BY DEF Saves
  <2>2. /\ cipher => c.format \in {"PKI", "EPKI"}
        /\ ~(cipher /\ w.lock = "none")
        /\ ~(pem /\ w.form \in {"point", "rsapub"})
        /\ ~(pem /\ c.alg = "DH" /\ c.format = "PKI")
    BY DEF Saves
  <2> QED BY <2>1, <2>2
<1>3. k.alg \in KeyAlgs /\ k.pss \in [md : STRING, mgf : STRING, salt : Nat]
  BY CodecAssumption
<1>4. PICK form, has : data = EncodedOf(k, form, has) /\ FormOf(c, sel, form, has)
  <2>1. Encoded(data, c, k, sel)
    BY <1>1, <1>2, <1>3, EncodedAsDue
  <2> QED BY <2>1 DEF Encoded
<1> DEFINE key == KeyOf(k, has)
           head == IF pem THEN PemHeader(c, form) ELSE "none"
           piece == [form |-> form, key |-> key, head |-> head, lock |-> "none",
                     secret |-> cipher, asks |-> sel, due |-> key]
<1>5. data.form = form /\ data.key = key /\ Data(data.form, k, data.key.has).key = key
  <2>1. data.form = form /\ data.key = key
    BY <1>4 DEF EncodedOf
  <2>2. key.has = has
    BY DEF KeyOf
  <2>3. EncodedOf(k, form, has).key = key
    BY DEF EncodedOf
  <2> QED BY <2>1, <2>2, <2>3, DataIs
<1> DEFINE made == [form |-> data.form, key |-> data.key,
                    head |-> IF pem THEN PemHeader(c, data.form) ELSE "none", lock |-> "none",
                    secret |-> cipher, asks |-> sel, due |-> Data(data.form, k, data.key.has).key]
<1>6. made = piece
  BY <1>5
<1>7. w = IF c.format = "PKI" /\ c.alg \in {"RSA", "RSA-PSS"} /\ cipher THEN RsaEncodeEncPki(made) ELSE made
  <2> HIDE DEF made
  <2>1. w = CASE c.format = "EPKI" -> EncryptKey(made)
              [] c.format = "PKI" /\ c.alg \in {"RSA", "RSA-PSS"} /\ cipher -> RsaEncodeEncPki(made)
              [] OTHER -> made
    BY Zenon DEF WrittenPiece, made
  <2> QED BY <1>2, <2>1
<1> HIDE DEF made, data
<1>8. PICK h : h = head
  OBVIOUS
<1> HIDE DEF head
<1>9. piece = [form |-> form, key |-> key, head |-> h, lock |-> "none",
               secret |-> cipher, asks |-> sel, due |-> key]
  BY <1>8
<1> HIDE DEF piece
<1>10. form = "params" => has = AsksParams
  BY <1>4 DEF FormOf
<1>11. CASE ~cipher
  <2>1. w = piece
    BY <1>6, <1>7, <1>11
  <2>2. w.form = form
    BY <1>9, <2>1
  <2>3. \/ c.format = "SPKI" /\ form = "spki" /\ sel = AsksPub
        \/ c.format = "PKI" /\ form = "pki" /\ sel = AsksPair
        \/ c.alg = "RSA" /\ c.format = "TS" /\ form = "trad" /\ sel = AsksPair
        \/ c.alg = "RSA" /\ c.format = "TS" /\ form = "rsapub" /\ sel = AsksPub
        \/ c.alg = "DH" /\ c.format = "TS" /\ form = "params" /\ sel = AsksParams
        \/ c.alg = "EC" /\ form = "trad" /\ sel = AsksPair
        \/ c.alg = "EC" /\ form = "point" /\ sel = AsksPub
        \/ c.alg = "EC" /\ form = "params" /\ sel = AsksParams
    BY <1>1, <1>4 DEF FormOf, AsksPub, AsksPair, AsksParams
  <2>4. Headed(k.alg, form, "none", sel, h)
    <3>1. CASE ~pem
      <4>1. h = "none"
        BY <1>8, <3>1 DEF head
      <4> QED BY <1>1, <2>3, <4>1 DEF Headed
    <3>2. CASE pem
      <4>1. h = PemHeader(c, form)
        BY <1>8, <3>2 DEF head
      <4>2. form \notin {"point", "rsapub"} /\ ~(c.alg = "DH" /\ c.format = "PKI")
        BY <1>2, <2>2, <3>2
      <4> QED BY <1>1, <2>3, <4>1, <4>2 DEF Headed, PemHeader, PrivateHead, ParamsHead
    <3> QED BY <3>1, <3>2
  <2>5. cipher = ("none" # "none")
    BY <1>11
  <2>6. MadeOf(w, k, has, form, "none", sel, h, cipher)
    BY <1>9, <2>1, <2>5 DEF MadeOf
  <2>7. form # "epki"
    BY <2>3
  <2> QED BY <1>2, <1>3, <1>10, <2>4, <2>6, <2>7, BuildStandard
<1>12. CASE cipher
  <2>1. c.format = "PKI" /\ w.lock # "none"
    BY <1>2, <1>12
  <2>2. piece.lock = "none"
    BY <1>9
  <2>3. w = RsaEncodeEncPki(piece) /\ k.alg \in {"RSA", "RSA-PSS"}
    BY <1>1, <1>6, <1>7, <2>1, <2>2
  <2>4. sel = AsksPair
    BY <1>1, <2>1
  <2>5. form = "pki"
    BY <1>4, <2>1 DEF FormOf
  <2> DEFINE eh == IF h = "none" THEN "none" ELSE "ENCRYPTED PRIVATE KEY"
  <2>6. piece.head = h
    BY <1>9
  <2>7. w = [piece EXCEPT !.form = "epki", !.lock = "pbes2", !.head = eh]
    BY <2>3, <2>6 DEF RsaEncodeEncPki
  <2>8. eh \in {"none", "ENCRYPTED PRIVATE KEY"}
    OBVIOUS
  <2> HIDE DEF eh
  <2>9. w = [form |-> "epki", key |-> key, head |-> eh, lock |-> "pbes2",
             secret |-> cipher, asks |-> sel, due |-> key]
    BY <1>9, <2>7
  <2>10. Headed(k.alg, "epki", "pbes2", sel, eh)
    BY <2>4, <2>8 DEF Headed
  <2>11. cipher = ("pbes2" # "none")
    BY <1>12
  <2>12. MadeOf(w, k, has, "epki", "pbes2", sel, eh, cipher)
    BY <2>9, <2>11 DEF MadeOf
  <2> QED BY <1>2, <1>3, <2>3, <2>10, <2>12, BuildStandard
<1> QED BY <1>11, <1>12

------------------------------------------------------------------------------
(* What is loaded is what was saved.                                         *)
FileReadable(f) == \A i \in 1 .. Len(f) : Readable(f[i])
NoPoints(f) == \A i \in 1 .. Len(f) : f[i].form # "point"
LoadsOk(f, s, l, d) ==
  FileReadable(f) /\ (l.on => LoadOk(l)) /\ (s.open => NoPoints(f)) /\ d.got = d.due
LoadInv == StoreInv /\ LoadsOk(file, store, load, loaded)

LEMMA AppendKeepsLoads ==
  ASSUME LoadInv, NEW p, Readable(p), Append1(p)
  PROVE  LoadsOk(file', store', load', loaded')
<1> DEFINE l == Len(file)
           f == Append(file, p)
<1>1. file' = f /\ store' = store /\ load' = load /\ loaded' = loaded /\ ~store.open /\ ~load.on
  BY DEF Append1
<1>2. Row(file, l) /\ \A i \in 1 .. l : Readable(file[i])
  BY DEF LoadInv, StoreInv, FileOk, LoadsOk, FileReadable
<1> HIDE DEF l
<1>3. Row(f, l + 1) /\ f[l + 1] = p /\ \A i \in 1 .. l : f[i] = file[i]
  <2>1. f = Append(file, p)
    OBVIOUS
  <2> HIDE DEF f
  <2>2. LongerBy(f, file, l, p)
    BY <1>2, <2>1, RowAppend
  <2> QED BY <2>2 DEF LongerBy
<1> HIDE DEF f
<1>4. Len(f) = l + 1 /\ l \in Nat
  BY <1>2, <1>3, RowIs
<1>5. \A i \in 1 .. l + 1 : Readable(f[i])
  <2>1. \A i \in 1 .. l + 1 : i \in 1 .. l \/ i = l + 1
    BY <1>4
  <2> QED BY <1>2, <1>3, <2>1
<1>6. FileReadable(f)
  BY <1>4, <1>5 DEF FileReadable
<1>7. loaded.got = loaded.due
  BY DEF LoadInv, LoadsOk
<1> QED BY <1>1, <1>6, <1>7 DEF LoadsOk

LEMMA StartIsOk ==
  ASSUME NEW p, NEW asks, NEW answer \in {"right", "wrong", "refused"}, NEW type, NEW struct, NEW due,
         asks = p.asks,
         \/ InFile(p) /\ type = "none" /\ struct = "none" /\ due = DueOf(p, answer)
         \/ Plain(p) /\ SaidOf(p, type, struct) /\ due = p.key,
         NEW on, on = TRUE,
         NEW l, l = [on |-> on, piece |-> p, sel |-> asks, answer |-> answer, type |-> type,
                     struct |-> struct, due |-> due]
  PROVE  LoadOk(l)
<1>1. /\ l.piece = p /\ l.sel = asks /\ l.answer = answer /\ l.type = type /\ l.struct = struct
      /\ l.due = due
  OBVIOUS
<1>2. l = [on |-> TRUE, piece |-> l.piece, sel |-> l.sel, answer |-> l.answer, type |-> l.type,
           struct |-> l.struct, due |-> l.due]
  BY <1>1
<1> QED BY <1>1, <1>2 DEF LoadOk

LEMMA DecodeFileKeepsLoads ==
  ASSUME LoadInv, CodecHabits = {}, NEW answer \in {"right", "wrong", "refused"}, DecodeFile(answer)
  PROVE  LoadsOk(file', store', load', loaded')
<1> DEFINE p == file[1]
<1>1. /\ Len(file) = 1 /\ ~store.open /\ UNCHANGED <<file, store, loaded>>
      /\ StartLoad(p, p.asks, answer, "none", "none")
  BY DEF DecodeFile
<1>2. Readable(p) /\ Standard(p) /\ FileReadable(file) /\ loaded.got = loaded.due
  BY <1>1 DEF LoadInv, LoadsOk, FileReadable, Readable
<1> HIDE DEF p
<1> DEFINE due == DueOf(p, answer)
<1>3. \/ InFile(p)
      \/ Plain(p) /\ due = p.key
  <2>1. CASE p.head # "none" \/ p.lock # "none"
    BY <1>2, <2>1 DEF InFile
  <2>2. CASE p.head = "none" /\ p.lock = "none"
    BY <1>2, <2>2, DueIs DEF Standard, Plain
  <2> QED BY <2>1, <2>2
<1>4. SaidOf(p, "none", "none")
  BY DEF SaidOf
<1>5. load' = [on |-> TRUE, piece |-> p, sel |-> p.asks, answer |-> answer, type |-> "none",
               struct |-> "none", due |-> due]
  BY <1>1 DEF StartLoad
<1> HIDE DEF due
<1>6. LoadOk(load')
  BY <1>3, <1>4, <1>5, StartIsOk DEF due
<1> QED BY <1>1, <1>2, <1>6 DEF LoadsOk

LEMMA EndsKeeps ==
  ASSUME LoadInv, Ends(load.due)
  PROVE  LoadsOk(file', store', load', loaded')
<1> DEFINE due == load.due
<1>1. load' = NoLoad /\ loaded' = [got |-> due, due |-> due] /\ file' = file /\ store' = store
  BY DEF Ends
<1> HIDE DEF due
<1>2. loaded'.got = loaded'.due
  BY <1>1
<1>3. FileReadable(file) /\ (store.open => NoPoints(file))
  BY DEF LoadInv, LoadsOk
<1>4. ~NoLoad.on
  BY DEF NoLoad
<1> QED BY <1>1, <1>2, <1>3, <1>4 DEF LoadsOk

LEMMA DecodeKeepsLoads ==
  ASSUME LoadInv, Decode
  PROVE  LoadsOk(file', store', load', loaded')
<1>1. load.on
  BY DEF Decode
<1>2. PICK a \in Answers(load) : TakeAnswer(a)
  BY DEF Decode
<1>3. LoadOk(load)
  BY <1>1 DEF LoadInv, LoadsOk
<1> DEFINE due == load.due
           sel == load.sel
<1>4. AnswerOk(a, due, sel)
  BY <1>3, LoadStep
<1>5. a.did # "pass"
  BY <1>2 DEF TakeAnswer
<1>6. CASE a = MakesKey(due)
  <2>1. a.did = "key" /\ a.key = due
    BY <1>6, DidIs
  <2>2. Ends(load.due)
    BY <1>2, <2>1 DEF TakeAnswer
  <2> QED BY <2>2, EndsKeeps
<1>7. CASE a = Fails /\ due = NoKeyRead
  <2>1. a.did = "fail"
    BY <1>7, DidIs
  <2>2. Ends(load.due)
    BY <1>2, <1>7, <2>1 DEF TakeAnswer
  <2> QED BY <2>2, EndsKeeps
<1>8. ASSUME NEW q, NEW type, NEW struct, a = MakesPiece(q, type, struct), Opens(q, type, struct, due, sel)
      PROVE  LoadsOk(file', store', load', loaded')
  <2>1. a.did = "piece" /\ a.piece = q /\ a.type = type /\ a.struct = struct
    BY <1>8, DidIs
  <2>2. CASE q.form = "cert"
    <3>1. Ends(load.due)
      BY <1>2, <1>8, <2>1, <2>2 DEF TakeAnswer, Opens
    <3> QED BY <3>1, EndsKeeps
  <2>3. CASE q.form # "cert"
    <3>1. load' = [load EXCEPT !.piece = q, !.type = type, !.struct = struct]
          /\ UNCHANGED <<file, store, loaded>>
      BY <1>2, <2>1, <2>3 DEF TakeAnswer
    <3>2. PICK on : on = TRUE
      OBVIOUS
    <3>3. load = [on |-> on, piece |-> load.piece, sel |-> load.sel, answer |-> load.answer,
                  type |-> load.type, struct |-> load.struct, due |-> load.due]
          /\ load.answer \in {"right", "wrong", "refused"}
      BY <1>3, <3>2 DEF LoadOk
    <3> DEFINE answer == load.answer
               piece == load.piece
               t == load.type
               s == load.struct
    <3>a. load = [on |-> on, piece |-> piece, sel |-> sel, answer |-> answer, type |-> t, struct |-> s,
                  due |-> due]
      BY <3>3
    <3> HIDE DEF piece, t, s, answer, sel, due
    <3>4. load' = [on |-> on, piece |-> q, sel |-> sel, answer |-> answer, type |-> type,
                   struct |-> struct, due |-> due]
      BY <3>1, <3>a
    <3>5. answer \in {"right", "wrong", "refused"}
      BY <3>3 DEF answer
    <3>6. Plain(q) /\ SaidOf(q, type, struct) /\ due = q.key /\ sel = q.asks
      BY <1>8, <2>3 DEF Opens
    <3>7. LoadOk(load')
      BY <3>2, <3>4, <3>5, <3>6, StartIsOk
    <3>8. LoadsOk(file, store, load', loaded)
      BY <3>7 DEF LoadInv, LoadsOk
    <3> QED BY <3>1, <3>8
  <2> QED BY <2>2, <2>3
<1> QED BY <1>4, <1>5, <1>6, <1>7, <1>8, DidIs DEF AnswerOk

LEMMA AllPassKeepsLoads ==
  ASSUME LoadInv, AllPass
  PROVE  LoadsOk(file', store', load', loaded')
<1>1. load.on /\ Answers(load) \subseteq {Pass} /\ Ends(NoKeyRead)
  BY DEF AllPass
<1>2. LoadOk(load)
  BY <1>1 DEF LoadInv, LoadsOk
<1>3. load.due = NoKeyRead
  BY <1>1, <1>2, LoadStep
<1>4. Ends(load.due)
  BY <1>1, <1>3
<1> QED BY <1>4, EndsKeeps

(* The piece that a load of the store reads is one of the file.              *)
LEMMA StoreReadsPiece ==
  ASSUME StoreInv, store.open, store.left # <<>>, NEW r, r = ReadPemBio(store.left), r.piece # NoPiece
  PROVE  \E m \in 1 .. Len(file) : ~Text(file, m) /\ r.piece = file[m]
<1> DEFINE f == file
           left == store.left
           l == Len(f)
<1>1. FileOk(f) /\ l \in Nat
  BY RowIs DEF StoreInv, FileOk
<1>2. PICK n \in 0 .. l : ReadTo(f, n, left)
  BY DEF StoreInv, StoreOk
<1>3. r = ReadPemBio(left)
  OBVIOUS
<1> HIDE DEF f, left
<1>4. \/ r = [piece |-> NoPiece, left |-> <<>>]
      \/ \E m \in n + 1 .. l : ~Text(f, m) /\ r.piece = f[m]
  BY <1>1, <1>2, <1>3, LoadReads
<1>5. r # [piece |-> NoPiece, left |-> <<>>]
  OBVIOUS
<1>6. \A m \in n + 1 .. l : m \in 1 .. l
  BY <1>1, <1>2
<1> QED BY <1>4, <1>5, <1>6 DEF f

LEMMA StoreLoadKeepsLoads ==
  ASSUME LoadInv, NEW answer \in {"right", "wrong", "refused"}, StoreLoad(answer)
  PROVE  LoadsOk(file', store', load', loaded')
<1> DEFINE read == ReadPemBio(store.left)
           p == read.piece
           a == FirstAnswer(p, answer)
           due == DueOf(p, answer)
           sel == p.asks
<1>1. /\ store.open /\ ~load.on /\ store.left # <<>> /\ file' = file
      /\ p = NoPiece => loaded' = NotLoaded /\ UNCHANGED load
      /\ p # NoPiece =>
           IF a.did = "piece" /\ a.piece.form # "cert"
             THEN /\ load' = [on |-> TRUE, piece |-> a.piece, sel |-> sel,
                              answer |-> answer, type |-> a.type, struct |-> a.struct, due |-> due]
                  /\ UNCHANGED loaded
           ELSE /\ loaded' = [got |-> IF a.did = "piece" THEN a.piece.key ELSE a.key, due |-> due]
                /\ UNCHANGED load
  BY DEF StoreLoad
<1>2. StoreInv /\ FileReadable(file) /\ NoPoints(file) /\ loaded.got = loaded.due
  BY <1>1 DEF LoadInv, LoadsOk
<1>3. SUFFICES (load'.on => LoadOk(load')) /\ loaded'.got = loaded'.due
  BY <1>1, <1>2 DEF LoadsOk
<1>4. p # NoPiece => Readable(p) /\ p.form # "text" /\ p.form # "point"
  <2> SUFFICES ASSUME p # NoPiece PROVE Readable(p) /\ p.form # "text" /\ p.form # "point"
    OBVIOUS
  <2>1. PICK m \in 1 .. Len(file) : ~Text(file, m) /\ p = file[m]
    BY <1>1, <1>2, StoreReadsPiece
  <2> HIDE DEF p
  <2> QED BY <1>2, <2>1 DEF FileReadable, NoPoints, Text
<1> HIDE DEF read, p, a, due, sel
<1>5. CASE p = NoPiece
  BY <1>1, <1>5 DEF NotLoaded
<1>6. CASE p # NoPiece
  <2>1. AnswerOk(a, due, sel) /\ (a = Pass => due = NoKeyRead)
    BY <1>4, <1>6, StoreStep DEF a, due, sel
  <2>2. ASSUME a.did # "piece", a.key = due
        PROVE  (load'.on => LoadOk(load')) /\ loaded'.got = loaded'.due
    BY <1>1, <1>6, <2>2
  <2>3. CASE a \in {Pass, Fails, MakesKey(due)}
    <3>1. a.did # "piece" /\ a.key = due
      <4>1. a = Fails => due = NoKeyRead
        BY <2>1, NotPass, DidIs DEF AnswerOk
      <4> QED BY <2>1, <2>3, <4>1, DidIs
    <3> QED BY <2>2, <3>1
  <2>4. ASSUME NEW q, NEW type, NEW struct, a = MakesPiece(q, type, struct), Opens(q, type, struct, due, sel)
        PROVE  (load'.on => LoadOk(load')) /\ loaded'.got = loaded'.due
    <3>1. a.did = "piece" /\ a.piece = q /\ a.type = type /\ a.struct = struct
      BY <2>4, DidIs
    <3>2. CASE q.form = "cert"
      <4>1. loaded' = [got |-> q.key, due |-> due] /\ load' = load
        BY <1>1, <1>6, <3>1, <3>2
      <4>2. q.key = due
        BY <2>4 DEF Opens
      <4> QED BY <1>1, <4>1, <4>2
    <3>3. CASE q.form # "cert"
      <4>1. load' = [on |-> TRUE, piece |-> q, sel |-> sel, answer |-> answer, type |-> type,
                     struct |-> struct, due |-> due] /\ loaded' = loaded
        BY <1>1, <1>6, <3>1, <3>3
      <4>2. Plain(q) /\ SaidOf(q, type, struct) /\ due = q.key /\ sel = q.asks
        BY <2>4, <3>3 DEF Opens
      <4>3. LoadOk(load')
        BY <4>1, <4>2, StartIsOk
      <4> QED BY <1>2, <4>1, <4>3
    <3> QED BY <3>2, <3>3
  <2> QED BY <2>1, <2>3, <2>4 DEF AnswerOk
<1> QED BY <1>5, <1>6

LEMMA StoreActsKeepLoads ==
  ASSUME LoadInv, CodecHabits = {}, StoreOpen \/ SetupFails \/ StoreClose
  PROVE  LoadsOk(file', store', load', loaded')
<1>1. /\ FileReadable(file) /\ (load.on => LoadOk(load)) /\ loaded.got = loaded.due
      /\ (store.open => NoPoints(file))
  BY DEF LoadInv, LoadsOk
<1>2. file' = file /\ load' = load /\ loaded' = loaded
  BY DEF StoreOpen, SetupFails, StoreClose
<1>3. CASE StoreOpen
  <2>1. ~(\E i \in DOMAIN file : file[i].form = "point")
    BY <1>3 DEF StoreOpen
  <2>2. DOMAIN file = 1 .. Len(file)
    BY RowIs DEF LoadInv, StoreInv, FileOk
  <2>3. NoPoints(file)
    BY <2>1, <2>2 DEF NoPoints
  <2> QED BY <1>1, <1>2, <2>3 DEF LoadsOk
<1>4. CASE SetupFails
  <2>1. store.open
    BY <1>4 DEF SetupFails
  <2> QED BY <1>1, <1>2, <2>1 DEF LoadsOk
<1>5. CASE StoreClose
  <2>1. ~store'.open
    BY <1>5 DEF StoreClose, NoStore
  <2> QED BY <1>1, <1>2, <2>1 DEF LoadsOk
<1> QED BY <1>3, <1>4, <1>5

LEMMA LoadInitOk == CodecInit => LoadInv
<1> SUFFICES ASSUME CodecInit PROVE LoadInv
  OBVIOUS
<1>1. file = <<>> /\ store = NoStore /\ load = NoLoad /\ loaded = NotLoaded
  BY DEF CodecInit
<1>2. ~NoStore.open /\ ~NoLoad.on /\ NotLoaded.got = NotLoaded.due
  BY DEF NoStore, NoLoad, NotLoaded
<1>3. FileReadable(<<>>)
  BY DEF FileReadable
<1> QED BY <1>1, <1>2, <1>3, StoreInitOk DEF LoadInv, LoadsOk

LEMMA LoadNextKeeps ==
  ASSUME LoadInv, CodecHabits = {}, [CodecNext]_codecVars
  PROVE  LoadInv'
<1> SUFFICES LoadsOk(file', store', load', loaded')
  <2>1. StoreInv'
    BY StoreNextKeeps DEF LoadInv
  <2> QED BY <2>1 DEF LoadInv
<1>1. CASE UNCHANGED codecVars
  BY <1>1 DEF codecVars, LoadInv
<1>2. CASE CodecNext
  <2>1. ASSUME NEW k \in CodecKeys, NEW c \in Encoders, NEW sel \in {AsksParams, AsksPub, AsksPair},
               NEW pem \in BOOLEAN, NEW cipher \in BOOLEAN, Save(c, k, sel, pem, cipher)
        PROVE  LoadsOk(file', store', load', loaded')
    BY <2>1, WrittenReadable, AppendKeepsLoads DEF Save
  <2>2. ASSUME NEW p \in Foreign, WriteForeign(p)
        PROVE  LoadsOk(file', store', load', loaded')
    <3>1. Readable(p) /\ Append1(p)
      BY <2>2, ForeignAssumption DEF WriteForeign, Readable
    <3> QED BY <3>1, AppendKeepsLoads
  <2>3. ASSUME NEW answer \in {"right", "wrong", "refused"}, DecodeFile(answer) \/ StoreLoad(answer)
        PROVE  LoadsOk(file', store', load', loaded')
    BY <2>3, DecodeFileKeepsLoads, StoreLoadKeepsLoads
  <2>4. CASE Decode \/ AllPass
    BY <2>4, DecodeKeepsLoads, AllPassKeepsLoads
  <2>5. CASE StoreOpen \/ SetupFails \/ StoreClose
    BY <2>5, StoreActsKeepLoads
  <2> QED BY <1>2, <2>1, <2>2, <2>3, <2>4, <2>5, Zenon DEF CodecNext
<1> QED BY <1>1, <1>2

(* Whichever of the decoders libcrypto tries first, in whichever order, and  *)
(* whatever the file has been written with (the encoders of wp_*_kmgmt.c, or *)
(* another tool), a load gives the key that was saved, its parts and its     *)
(* restriction, and nothing without the password: for every set of keys and  *)
(* of standard pieces, for programs that do none of the things listed in     *)
(* CodecHabit.                                                               *)
THEOREM SpecLoadedIsSaved ==
  ASSUME CodecHabits = {}
  PROVE  CodecSpec => []LoadedIsSaved
<1>1. LoadInv /\ [CodecNext]_codecVars => LoadInv'
  BY LoadNextKeeps
<1>2. LoadInv => LoadedIsSaved
  BY DEF LoadInv, LoadsOk, LoadedIsSaved
<1> QED BY <1>1, <1>2, LoadInitOk, PTL DEF CodecSpec
==============================================================================
