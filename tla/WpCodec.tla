------------------------------ MODULE WpCodec ------------------------------
(***************************************************************************)
(* Keys written and read: the encoders and decoders of the RSA, DH, EC and *)
(* ECX keys (wp_*_kmgmt.c), PEM to DER (wp_dec_pem2der.c), encrypted to    *)
(* plain PKCS #8 (wp_dec_epki2pki.c), and the file store                   *)
(* (wp_file_store.c), with the chain of decoders libcrypto makes of them.  *)
(*                                                                         *)
(* A piece of a file is the form its data has, the key in the data, the    *)
(* header it has in PEM ("none" in DER) and how it is encrypted.  A        *)
(* decoder is tried on a piece: it passes, fails, makes a key, or makes    *)
(* another piece for the rest of the chain.                                *)
(***************************************************************************)
EXTENDS Integers, Sequences, FiniteSets

CONSTANTS
  CodecKeys,        \* keys a program saves: [alg, id, has, pss, small]
  Foreign,          \* pieces other tools write
  MaxFile,          \* bound: pieces of a file
  CodecHabits       \* what programs do beyond the plain protocol

CodecHabit == {"pss_odd", "unrestricted", "small_pss", "cipher_ignored", "epki", "unread",
               "encrypted_der", "any_selection"}
KeyAlgs == {"RSA", "RSA-PSS", "DH", "EC", "X25519", "ED25519", "X448", "ED448"}
ASSUME CodecAssumption ==
  /\ \A k \in CodecKeys : k.alg \in KeyAlgs /\ k.pss \in [md : STRING, mgf : STRING, salt : Nat]
  /\ MaxFile \in Nat \ {0} /\ CodecHabits \subseteq CodecHabit

VARIABLES
  file,    \* the pieces written so far
  store,   \* the file store: wp_FileCtx, with what the program has had from it
  load,    \* the piece the chain is at, or NoLoad
  loaded   \* what the last load gave, and was to give

codecVars == <<file, store, load, loaded>>

------------------------------------------------------------------------------
(* What is asked of a coder: {} is anything.                                 *)
AsksParams == {"params"}
AsksPub == {"params", "pub"}
AsksPair == {"params", "pub", "priv"}

(* A coder of each family and structure, and what it is there for.           *)
Coder(alg, format, needs) == [alg |-> alg, format |-> format, needs |-> needs]
RsaSpki == Coder("RSA", "SPKI", {"pub"})
RsaPki == Coder("RSA", "PKI", {"priv"})
RsaEpki == Coder("RSA", "EPKI", {"priv"})
RsaLegacy == Coder("RSA", "TS", {"priv"})
RsaKp == Coder("RSA", "TS", {"pub", "priv"})
PssSpki == Coder("RSA-PSS", "SPKI", {"pub"})
PssPki == Coder("RSA-PSS", "PKI", {"priv"})
DhTypeSpecific == Coder("DH", "TS", {"params"})
DhSpki == Coder("DH", "SPKI", {"pub"})
DhPki == Coder("DH", "PKI", {"priv"})
DhEpki == Coder("DH", "EPKI", {"priv"})
EcTypeSpecific == Coder("EC", "TS", {"params"})
EcSpki == Coder("EC", "SPKI", {"pub"})
EcPki == Coder("EC", "PKI", {"priv"})
EcEpki == Coder("EC", "EPKI", {"priv"})
EcX962 == Coder("EC", "X9_62", {"params", "priv"})
X25519Spki == Coder("X25519", "SPKI", {"pub"})
X25519Pki == Coder("X25519", "PKI", {"priv"})
X25519Epki == Coder("X25519", "EPKI", {"priv"})
Ed25519Spki == Coder("ED25519", "SPKI", {"pub"})
Ed25519Pki == Coder("ED25519", "PKI", {"priv"})
Ed25519Epki == Coder("ED25519", "EPKI", {"priv"})
X448Spki == Coder("X448", "SPKI", {"pub"})
X448Pki == Coder("X448", "PKI", {"priv"})
X448Epki == Coder("X448", "EPKI", {"priv"})
Ed448Spki == Coder("ED448", "SPKI", {"pub"})
Ed448Pki == Coder("ED448", "PKI", {"priv"})
Ed448Epki == Coder("ED448", "EPKI", {"priv"})

EcxCoders == {X25519Spki, X25519Pki, Ed25519Spki, Ed25519Pki, X448Spki, X448Pki, Ed448Spki, Ed448Pki}
SharedCoders == {RsaSpki, RsaPki, PssSpki, PssPki, DhTypeSpecific, DhSpki, DhPki,
                 EcTypeSpecific, EcSpki, EcPki, EcX962} \cup EcxCoders
Encoders == SharedCoders \cup {RsaEpki, RsaKp, DhEpki, EcEpki, X25519Epki, Ed25519Epki, X448Epki, Ed448Epki}
Decoders == SharedCoders \cup {RsaLegacy}

DoesSelection(c, sel) == sel = {} \/ sel \cap c.needs # {}

------------------------------------------------------------------------------
(* Encoding.                                                                 *)
NoPss == [md |-> "none", mgf |-> "none", salt |-> 0]
PssZero == [md |-> "absent", mgf |-> "absent", salt |-> 0]
PssMds == {"SHA256", "SHA384", "SHA512"}

(* A digest other than these three is left out, and so is a salt of 0; the   *)
(* second byte of a longer salt length is lost.                              *)
PssEncodeAlgId(pss) ==
  [md |-> IF pss.md \in PssMds THEN pss.md ELSE "absent",
   mgf |-> IF pss.mgf \in PssMds THEN pss.mgf ELSE "absent",
   salt |-> pss.salt % 256]

(* Data of a form, with the parts of the key that are in it.  The lengths of *)
(* a small PSS public key are written for those of a large one.              *)
Data(form, k, has) == [form |-> form, key |-> [alg |-> k.alg, id |-> k.id, has |-> has, pss |-> k.pss]]
WithAlgId(d) == IF d.key.alg = "RSA-PSS" THEN [d EXCEPT !.key.pss = PssEncodeAlgId(@)] ELSE d

RsaEncodeSpki(k) ==
  WithAlgId(Data(IF k.alg = "RSA-PSS" /\ k.small THEN "broken" ELSE "spki", k, {"pub"}))
RsaEncodePub(k) == Data("rsapub", k, {"pub"})
RsaEncodePki(k) == WithAlgId(Data("pki", k, {"pub", "priv"}))
RsaEncodePriv(k) == Data("trad", k, {"pub", "priv"})
RsaEncode(c, k, sel) ==
  CASE c.format = "SPKI" -> RsaEncodeSpki(k)
    [] c.format = "TS" -> IF "priv" \in sel THEN RsaEncodePriv(k) ELSE RsaEncodePub(k)
    [] OTHER -> RsaEncodePki(k)

DhEncodeParams(k) == Data("params", k, AsksParams)
DhEncodeSpki(k) == Data("spki", k, AsksPub)
DhEncodePki(k) == Data("pki", k, AsksPair)
DhEncode(c, k) ==
  CASE c.format = "TS" -> DhEncodeParams(k) [] c.format = "SPKI" -> DhEncodeSpki(k)
    [] OTHER -> DhEncodePki(k)

EcEncodeParams(k) == Data("params", k, AsksParams)
EcEncodePub(k) == Data("point", k, AsksPub)
EcEncodePriv(k) == Data("trad", k, AsksPair)
EcEncodeSpki(k) == Data("spki", k, AsksPub)
EcEncodePki(k) == Data("pki", k, AsksPair)
EcEncode(c, k, sel) ==
  CASE c.format = "SPKI" -> EcEncodeSpki(k)
    [] c.format \in {"PKI", "EPKI"} -> EcEncodePki(k)
    [] OTHER -> IF "priv" \in sel THEN EcEncodePriv(k)
                ELSE IF "pub" \in sel THEN EcEncodePub(k) ELSE EcEncodeParams(k)

(* wolfCrypt writes X25519 and X448 keys back to front, and the encoders     *)
(* turn them.                                                                *)
Reversed(key) == [key EXCEPT !.id = <<"back", @>>]
Unreversed(key) == IF Len(key.id) = 2 THEN [key EXCEPT !.id = @[2]] ELSE Reversed(key)
WcCurveToDer(c, k) ==
  LET d == IF c.format = "SPKI" THEN Data("spki", k, {"pub"}) ELSE Data("pki", k, {"pub", "priv"})
  IN IF k.alg \in {"X25519", "X448"} THEN [d EXCEPT !.key = Reversed(@)] ELSE d
EcxEncodeAsIs(c, k) == WcCurveToDer(c, k)
EcxEncode(c, k) ==
  IF k.alg \in {"X25519", "X448"} THEN [WcCurveToDer(c, k) EXCEPT !.key = Unreversed(@)]
  ELSE WcCurveToDer(c, k)

Encode(c, k, sel) ==
  CASE c.alg \in {"RSA", "RSA-PSS"} -> RsaEncode(c, k, sel)
    [] c.alg = "DH" -> DhEncode(c, k)
    [] c.alg = "EC" -> EcEncode(c, k, sel)
    [] OTHER -> EcxEncode(c, k)

(* The header of the PEM: its type is that of the data. *)
PemHeader(c, form) ==
  CASE form \in {"spki", "broken", "point"} -> "PUBLIC KEY"
    [] form = "pki" -> IF c.alg = "DH" THEN "DH PRIVATE KEY" ELSE "PRIVATE KEY"
    [] form = "trad" -> IF c.alg = "RSA" THEN "RSA PRIVATE KEY" ELSE "EC PRIVATE KEY"
    [] form = "rsapub" -> "RSA PUBLIC KEY"
    [] form = "params" -> IF c.alg = "EC" THEN "EC PARAMETERS" ELSE "DH PARAMETERS"

(* Encryption of a piece.  A PKCS #8 EncryptedPrivateKeyInfo ("pbes2") is    *)
(* what an RSA PrivateKeyInfo becomes when there is a cipher.                *)
(* wp_encrypt_key encrypts all of a PrivateKeyInfo under an IV that only a   *)
(* PEM header can say ("dek"); the RSA encoder leaves the header out, too.   *)
RsaEncodeEncPki(p) ==
  [p EXCEPT !.form = "epki", !.lock = "pbes2",
            !.head = IF @ = "none" THEN "none" ELSE "ENCRYPTED PRIVATE KEY"]
EncryptKey(p) ==
  [p EXCEPT !.form = "cipher",
            !.lock = IF p.head # "none" /\ p.key.alg # "RSA" THEN "dek" ELSE "no_iv"]
WrittenPiece(c, k, sel, pem, cipher) ==
  LET data == Encode(c, k, sel)
      piece == [form |-> data.form, key |-> data.key,
                head |-> IF pem THEN PemHeader(c, data.form) ELSE "none", lock |-> "none",
                secret |-> cipher, asks |-> sel,
                due |-> Data(data.form, k, data.key.has).key]
  IN CASE c.format = "EPKI" -> EncryptKey(piece)
       [] c.format = "PKI" /\ c.alg \in {"RSA", "RSA-PSS"} /\ cipher -> RsaEncodeEncPki(piece)
       [] OTHER -> piece

------------------------------------------------------------------------------
(* Decoding: what a decoder answers.                                         *)
NoPiece == [form |-> "none"]
NoKeyRead == [alg |-> "none", id |-> <<>>, has |-> {}, pss |-> NoPss]
Outcome(did, key, piece, type, struct) ==
  [did |-> did, key |-> key, piece |-> piece, type |-> type, struct |-> struct]
Pass == Outcome("pass", NoKeyRead, NoPiece, "none", "none")
Fails == Outcome("fail", NoKeyRead, NoPiece, "none", "none")
MakesKey(key) == Outcome("key", key, NoPiece, "none", "none")
MakesPiece(piece, type, struct) == Outcome("piece", NoKeyRead, piece, type, struct)

Decrypted(p) == [p EXCEPT !.form = IF @ = "epki" THEN "pki" ELSE @, !.lock = "none"]

(* The algorithm of an RSA key is that of the OID in the data, and the       *)
(* coder's where there is none; a PSS key then needs its parameters, which   *)
(* a public key may do without.                                              *)
RsaDecodeSpki(c, p) ==
  IF p.form = "spki" /\ p.key.alg \in {"RSA", "RSA-PSS"}
    THEN MakesKey(IF p.key.alg = "RSA-PSS" /\ p.key.pss = NoPss
                    THEN [p.key EXCEPT !.pss = PssZero] ELSE p.key)
  ELSE IF p.form = "rsapub" /\ c.alg = "RSA" THEN MakesKey(p.key)
  ELSE Pass
RsaDecodePki(c, p) ==
  IF p.form = "pki" /\ (p.key.alg = "RSA" \/ (p.key.alg = "RSA-PSS" /\ p.key.pss # NoPss))
    THEN MakesKey(p.key)
  ELSE IF p.form = "trad" /\ p.lock = "none" /\ p.key.alg = "RSA" /\ c.alg = "RSA" THEN MakesKey(p.key)
  ELSE Pass
RsaDecodeEncPki(c, p, answer) ==
  IF p.form = "epki" /\ answer = "right" THEN RsaDecodePki(c, Decrypted(p)) ELSE Pass
RsaDecode(c, p, sel, answer) ==
  CASE c.format = "SPKI" -> RsaDecodeSpki(c, p)
    [] c.format = "PKI" -> IF RsaDecodePki(c, p) # Pass THEN RsaDecodePki(c, p)
                           ELSE RsaDecodeEncPki(c, p, answer)
    [] c.format = "TS" -> IF sel = {} \/ "priv" \in sel THEN RsaDecodePki(c, p) ELSE RsaDecodeSpki(c, p)

DhDecodeSpki(p) == IF p.form = "spki" /\ p.key.alg = "DH" THEN MakesKey(p.key) ELSE Pass
DhDecodePki(p) == IF p.form = "pki" /\ p.key.alg = "DH" THEN MakesKey(p.key) ELSE Pass
DhDecodeParams(p) ==
  IF p.form \in {"params", "pki"} /\ p.key.alg = "DH" THEN MakesKey([p.key EXCEPT !.has = AsksParams])
  ELSE Pass
DhDecode(c, p, sel) ==
  CASE c.format = "SPKI" -> DhDecodeSpki(p)
    [] c.format = "PKI" -> DhDecodePki(p)
    [] c.format = "TS" -> IF "priv" \in sel THEN DhDecodePki(p)
                          ELSE IF "pub" \in sel THEN DhDecodeSpki(p) ELSE DhDecodeParams(p)

EcForm(p, form) == p.form = form /\ p.lock = "none" /\ p.key.alg = "EC"
EcDecodeParams(p) == IF EcForm(p, "params") THEN MakesKey(p.key) ELSE Pass
EcDecodeX963Pub(p) == IF EcForm(p, "point") THEN MakesKey(p.key) ELSE Pass
EcDecodeSpki(p) == IF EcForm(p, "spki") THEN MakesKey(p.key) ELSE Pass
EcDecodePki(p) == IF EcForm(p, "pki") \/ EcForm(p, "trad") THEN MakesKey(p.key) ELSE Pass
EcDecode(c, p, sel) ==
  CASE c.format = "SPKI" -> EcDecodeSpki(p)
    [] c.format = "PKI" -> EcDecodePki(p)
    [] c.format \in {"TS", "X9_62"} ->
         IF "priv" \in sel THEN EcDecodePki(p)
         ELSE IF "pub" \in sel THEN EcDecodeX963Pub(p) ELSE EcDecodeParams(p)

EcxDecode(c, p) ==
  IF p.key.alg = c.alg /\ p.form = (IF c.format = "SPKI" THEN "spki" ELSE "pki")
    THEN MakesKey(p.key) ELSE Pass

KeyDecode(c, p, sel, answer) ==
  IF p.head # "none" THEN Pass
  ELSE CASE c.alg \in {"RSA", "RSA-PSS"} -> RsaDecode(c, p, sel, answer)
         [] c.alg = "DH" -> DhDecode(c, p, sel)
         [] c.alg = "EC" -> EcDecode(c, p, sel)
         [] OTHER -> EcxDecode(c, p)

(* PEM to DER.  The data is decrypted when the header says that it is and    *)
(* the type is one that may be: only then is the password asked for.         *)
PemCallback(p) ==
  \/ p.lock = "dek" /\ p.head \in {"RSA PRIVATE KEY", "EC PRIVATE KEY"}
  \/ p.head = "ENCRYPTED PRIVATE KEY"
PemToDer(p, answer, type, struct) ==
  IF p.lock \in {"none", "no_iv"} THEN MakesPiece([p EXCEPT !.head = "none"], type, struct)
  ELSE IF PemCallback(p) /\ answer = "right"
    THEN MakesPiece([Decrypted(p) EXCEPT !.head = "none"], type, struct)
  ELSE Fails
Pem2DerDecodeData(p, answer) ==
  CASE p.head = "CERTIFICATE" -> PemToDer(p, answer, "none", "none")
    [] p.head = "RSA PRIVATE KEY" -> PemToDer(p, answer, "RSA", "TS")
    [] p.head \in {"EC PARAMETERS", "EC PRIVATE KEY"} -> PemToDer(p, answer, "EC", "TS")
    [] p.head \in {"PRIVATE KEY", "ENCRYPTED PRIVATE KEY"} -> PemToDer(p, answer, "none", "PKI")
    [] p.head = "PUBLIC KEY" -> PemToDer(p, answer, "none", "SPKI")
    [] p.head = "DH PARAMETERS" -> PemToDer(p, answer, "none", "TS")
    [] OTHER -> Fails
Pem2Der(p, answer) == IF p.head = "none" \/ p.form = "text" THEN Pass ELSE Pem2DerDecodeData(p, answer)

(* Encrypted to plain PKCS #8.  Only data in which wolfCrypt finds the       *)
(* version of a PrivateKeyInfo is decrypted: an EncryptedPrivateKeyInfo has  *)
(* none, and a PrivateKeyInfo is not encrypted.                              *)
GetPkcs8TraditionalOffset(p) == p.form = "pki"
DecryptPKCS8Key(p, answer) ==
  IF p.form # "epki" THEN Pass ELSE IF answer = "right" THEN MakesPiece(Decrypted(p), "none", "PKI") ELSE Fails
Epki2Pki(p, answer) ==
  IF p.head # "none" \/ ~GetPkcs8TraditionalOffset(p) \/ answer = "refused" THEN Pass
  ELSE DecryptPKCS8Key(p, answer)

------------------------------------------------------------------------------
(* The chain (libcrypto): any decoder of the type and the structure that the *)
(* data is said to have, and that does what is asked, is tried.              *)
Suits(c, l) ==
  l.type \in {"none", c.alg} /\ l.struct \in {"none", c.format} /\ DoesSelection(c, l.sel)
Answers(l) ==
  {KeyDecode(c, l.piece, l.sel, l.answer) : c \in {d \in Decoders : Suits(d, l)}}
  \cup (IF l.type = "none" /\ l.struct = "none"
          THEN {Pem2Der(l.piece, l.answer), Epki2Pki(l.piece, l.answer)} ELSE {})

NoLoad == [on |-> FALSE]
NoStore == [open |-> FALSE, setup |-> "none", left |-> <<>>, calls |-> 0, seen |-> <<>>]
NotLoaded == [got |-> NoKeyRead, due |-> NoKeyRead]
CodecInit == file = <<>> /\ store = NoStore /\ load = NoLoad /\ loaded = NotLoaded
CodecIdle == file = <<>> /\ store = [NoStore EXCEPT !.setup = "idle"] /\ load = NoLoad /\ loaded = NotLoaded

(* A program saves a key, or another tool has written to the file.  A file   *)
(* of more than one piece is PEM.                                            *)
Append1(p) ==
  /\ Len(file) < MaxFile /\ ~load.on /\ ~store.open
  /\ file # <<>> => p.head # "none" /\ file[1].head # "none"
  /\ file' = Append(file, p)
  /\ UNCHANGED <<store, load, loaded>>
PlainPss(k) ==
  k.pss.md \in PssMds /\ k.pss.mgf \in PssMds /\ k.pss.salt < 256
Saves(c, k, sel, pem, cipher) ==
  /\ c.alg = k.alg /\ DoesSelection(c, sel) /\ sel # {}
  /\ c.format \in {"PKI", "EPKI"} => sel = AsksPair
  /\ c.format = "SPKI" => sel = AsksPub
  /\ c.alg = "DH" /\ c.format = "TS" => sel = AsksParams
  /\ c.alg = "RSA" /\ c.format = "TS" => sel # AsksParams
  /\ k.alg = "RSA-PSS" /\ k.pss = NoPss => "unrestricted" \in CodecHabits
  /\ k.alg = "RSA-PSS" /\ k.pss # NoPss /\ ~PlainPss(k) => "pss_odd" \in CodecHabits
  /\ k.alg = "RSA-PSS" /\ k.small /\ c.format = "SPKI" => "small_pss" \in CodecHabits
  /\ c.format = "EPKI" => cipher /\ "epki" \in CodecHabits
  /\ cipher => c.format \in {"PKI", "EPKI"}
  /\ cipher /\ WrittenPiece(c, k, sel, pem, cipher).lock = "none" => "cipher_ignored" \in CodecHabits
  /\ pem /\ WrittenPiece(c, k, sel, pem, cipher).form \in {"point", "rsapub"}
       => "unread" \in CodecHabits
  /\ pem /\ c.alg = "DH" /\ c.format = "PKI" => "unread" \in CodecHabits
Save(c, k, sel, pem, cipher) ==
  Saves(c, k, sel, pem, cipher) /\ Append1(WrittenPiece(c, k, sel, pem, cipher))
(* Encrypted keys in DER that no key decoder decrypts by itself. *)
EncryptedDer(p) == p.form = "epki" /\ p.head = "none" /\ p.key.alg \notin {"RSA", "RSA-PSS"}
WriteForeign(p) == (EncryptedDer(p) => "encrypted_der" \in CodecHabits) /\ Append1(p)

(* Pieces as the standards have them, which is all that other tools write:   *)
(* the header of the form, what is encrypted either PKCS #8 or a PEM with a  *)
(* DEK-Info header, and the key of the data with the restrictions of PSS.    *)
KindOf(p) == [form |-> p.form, lock |-> p.lock, asks |-> p.asks]
Kind(form, lock, asks) == [form |-> form, lock |-> lock, asks |-> asks]
PrivateHead(alg) == IF alg = "RSA" THEN "RSA PRIVATE KEY" ELSE "EC PRIVATE KEY"
ParamsHead(alg) == IF alg = "EC" THEN "EC PARAMETERS" ELSE "DH PARAMETERS"
StandardKey(p) ==
  /\ p.key.alg \in KeyAlgs
  /\ p.key.alg = "RSA-PSS" => p.key.pss # NoPss
  /\ \/ KindOf(p) = Kind("spki", "none", AsksPub) /\ p.head \in {"none", "PUBLIC KEY"}
     \/ KindOf(p) = Kind("pki", "none", AsksPair) /\ p.head \in {"none", "PRIVATE KEY"}
     \/ KindOf(p) = Kind("epki", "pbes2", AsksPair) /\ p.head \in {"none", "ENCRYPTED PRIVATE KEY"}
     \/ /\ p.key.alg \in {"RSA", "EC"}
        /\ \/ KindOf(p) = Kind("trad", "none", AsksPair) /\ p.head \in {"none", PrivateHead(p.key.alg)}
           \/ KindOf(p) = Kind("trad", "dek", AsksPair) /\ p.head = PrivateHead(p.key.alg)
     \/ p.key.alg = "RSA" /\ KindOf(p) = Kind("rsapub", "none", AsksPub) /\ p.head = "none"
     \/ p.key.alg = "EC" /\ KindOf(p) = Kind("point", "none", AsksPub) /\ p.head = "none"
     \/ /\ p.key.alg \in {"DH", "EC"} /\ p.key.has = AsksParams
        /\ KindOf(p) = Kind("params", "none", AsksParams) /\ p.head \in {"none", ParamsHead(p.key.alg)}
Shaped(p) ==
  /\ p = [form |-> p.form, key |-> p.key, head |-> p.head, lock |-> p.lock,
          secret |-> p.secret, asks |-> p.asks, due |-> p.due]
  /\ p.key = [alg |-> p.key.alg, id |-> p.key.id, has |-> p.key.has, pss |-> p.key.pss]
Standard(p) ==
  /\ Shaped(p) /\ p.secret = (p.lock # "none") /\ p.due = p.key
  /\ \/ p.form = "text" /\ p.lock = "none" /\ p.head = "text" /\ p.key = NoKeyRead
     \/ p.form = "cert" /\ p.lock = "none" /\ p.head = "CERTIFICATE"
     \/ StandardKey(p)
ASSUME ForeignAssumption == \A p \in Foreign : p # NoPiece /\ Standard(p)

(* What a load of a piece is to give: its key, to who knows the password. *)
DueOf(p, answer) == IF p.secret /\ answer # "right" THEN NoKeyRead ELSE p.due

(* The program has the one piece of a file decoded.                          *)
StartLoad(p, sel, answer, type, struct) ==
  load' = [on |-> TRUE, piece |-> p, sel |-> sel, answer |-> answer, type |-> type, struct |-> struct,
           due |-> DueOf(p, answer)]
DecodeFile(answer) ==
  /\ Len(file) = 1 /\ ~load.on /\ ~store.open
  /\ \E sel \in {file[1].asks} \cup (IF "any_selection" \in CodecHabits THEN {{}} ELSE {}) :
       StartLoad(file[1], sel, answer, "none", "none")
  /\ UNCHANGED <<file, store, loaded>>

Ends(key) ==
  /\ load' = NoLoad /\ loaded' = [got |-> key, due |-> load.due]
  /\ UNCHANGED <<file, store>>
TakeAnswer(a) ==
  /\ a.did # "pass"
  /\ CASE a.did = "key" -> Ends(a.key)
       [] a.did = "fail" -> Ends(NoKeyRead)
       [] a.did = "piece" ->
            IF a.piece.form = "cert" THEN Ends(a.piece.key)
            ELSE load' = [load EXCEPT !.piece = a.piece, !.type = a.type, !.struct = a.struct]
                 /\ UNCHANGED <<file, store, loaded>>
Decode == load.on /\ \E a \in Answers(load) : TakeAnswer(a)
AllPass == load.on /\ Answers(load) \subseteq {Pass} /\ Ends(NoKeyRead)

------------------------------------------------------------------------------
(* The file store.  Its decoders are tried from the last to the first; the   *)
(* first answer goes to libcrypto, which takes a key or decodes on with what *)
(* the program expects.                                                      *)
StoreTable == <<RsaSpki, RsaPki, DhTypeSpecific, DhSpki, DhPki, EcTypeSpecific, EcSpki, EcPki,
                X25519Spki, X25519Pki, Ed25519Spki, Ed25519Pki, X448Spki, X448Pki, Ed448Spki, Ed448Pki>>
StoreAnswers(p, answer) ==
  [i \in 1 .. Len(StoreTable) |-> KeyDecode(StoreTable[i], p, {}, answer)]
  \o <<Epki2Pki(p, answer), Pem2Der(p, answer)>>
FirstAnswer(p, answer) ==
  LET all == StoreAnswers(p, answer)
      heard == {i \in DOMAIN all : all[i] # Pass}
  IN IF heard = {} THEN Pass ELSE all[CHOOSE i \in heard : \A j \in heard : j <= i]

(* What a load reads: to the end of the first PEM, text before it included,  *)
(* or else everything.                                                       *)
ReadPemBioToEnd(left) ==
  LET at == {i \in DOMAIN left : left[i].form # "text"}
  IN IF at = {} THEN [piece |-> NoPiece, left |-> <<>>]
     ELSE [piece |-> left[CHOOSE i \in at : \A j \in at : i <= j], left |-> <<>>]
ReadPemBio(left) ==
  LET at == {i \in DOMAIN left : left[i].form # "text"}
      first == CHOOSE i \in at : \A j \in at : i <= j
  IN IF at = {} THEN [piece |-> NoPiece, left |-> <<>>]
     ELSE [piece |-> left[first], left |-> SubSeq(left, first + 1, Len(left))]

StoreOpen ==
  /\ file # <<>> /\ ~load.on /\ ~store.open
  /\ (\E i \in DOMAIN file : file[i].form = "point") => "unread" \in CodecHabits
  /\ store' = [NoStore EXCEPT !.open = TRUE, !.left = file]
  /\ UNCHANGED <<file, load, loaded>>

(* The decoders cannot be set up: what is left is read and thrown away.      *)
SetupFails ==
  /\ store.open /\ ~load.on /\ store.left # <<>> /\ store.setup = "none"
  /\ store' = [store EXCEPT !.calls = @ + 1, !.left = <<>>]
  /\ UNCHANGED <<file, load, loaded>>

StoreLoad(answer) ==
  /\ store.open /\ ~load.on /\ store.left # <<>>
  /\ LET read == ReadPemBio(store.left)
         a == FirstAnswer(read.piece, answer)
         due == DueOf(read.piece, answer)
         after == [store EXCEPT !.setup = "done", !.calls = @ + 1, !.left = read.left]
     IN IF read.piece = NoPiece
          THEN /\ store' = after /\ loaded' = NotLoaded /\ UNCHANGED load
        ELSE /\ store' = [after EXCEPT !.seen = Append(@, due)]
             /\ IF a.did = "piece" /\ a.piece.form # "cert"
                  THEN /\ load' = [on |-> TRUE, piece |-> a.piece, sel |-> read.piece.asks,
                                   answer |-> answer, type |-> a.type, struct |-> a.struct, due |-> due]
                       /\ UNCHANGED loaded
                ELSE /\ loaded' = [got |-> IF a.did = "piece" THEN a.piece.key ELSE a.key, due |-> due]
                     /\ UNCHANGED load
  /\ UNCHANGED file

(* A program loads until the end of the file. *)
StoreClose ==
  /\ store.open /\ ~load.on /\ store.left = <<>>
  /\ store' = NoStore
  /\ UNCHANGED <<file, load, loaded>>

CodecNext ==
  \/ \E k \in CodecKeys, c \in Encoders, sel \in {AsksParams, AsksPub, AsksPair}, pem, cipher \in BOOLEAN :
       Save(c, k, sel, pem, cipher)
  \/ \E p \in Foreign : WriteForeign(p)
  \/ \E answer \in {"right", "wrong", "refused"} : DecodeFile(answer) \/ StoreLoad(answer)
  \/ Decode
  \/ AllPass
  \/ StoreOpen
  \/ SetupFails
  \/ StoreClose
CodecSpec == CodecInit /\ [][CodecNext]_codecVars

------------------------------------------------------------------------------
(* Whichever decoders are tried first, a load gives the key that was saved,  *)
(* with the parts and the restriction that were saved, and without the       *)
(* password of an encrypted one it gives nothing.  (What the encoders of     *)
(* EncryptedPrivateKeyInfo write, and encrypted keys in DER, are not claimed *)
(* to load, see below.)                                                      *)
LoadedIsSaved ==
  loaded.got = loaded.due

(* A program that calls the store until its end reads every object, in the   *)
(* order of the file, and calls no more often than there are pieces, even    *)
(* when the decoders cannot be set up.                                       *)
ObjectsTo(f, n) == Cardinality({i \in 1 .. n : f[i].form # "text"})
StoreInOrder ==
  store.open =>
    /\ store.calls <= Len(file)
    /\ Len(store.seen) <= ObjectsTo(file, Len(file))
    /\ \A i \in DOMAIN file :
         file[i].form # "text" /\ ObjectsTo(file, i) <= Len(store.seen)
           => store.seen[ObjectsTo(file, i)] \in {file[i].due, NoKeyRead}
    /\ store.setup = "done" /\ store.left = <<>> => Len(store.seen) = ObjectsTo(file, Len(file))

(* A key that was written with an EncryptedPrivateKeyInfo encoder loads with *)
(* its password, as any other does.                                          *)
EncryptedLoads == LoadedIsSaved

(* A key that another tool has encrypted, in PKCS #8 and DER, loads with its *)
(* password: wp_dec_epki2pki.c decrypts it for the decoders of keys.         *)
EpkiDecoded ==
  loaded.due # NoKeyRead => loaded.got = loaded.due
==============================================================================
