-------------------------------- MODULE WpMac --------------------------------
(***************************************************************************)
(* HMAC, CMAC and GMAC contexts (wp_hmac.c, wp_cmac.c, wp_gmac.c), the MAC *)
(* keys (wp_mac_kmgmt.c), and signing with a MAC key, which drives a MAC   *)
(* context through libcrypto (wp_mac_sig.c).                               *)
(*                                                                         *)
(* The wolfCrypt object of a context is what it has been keyed with and    *)
(* fed since; GMAC has no streaming object, and its context collects the   *)
(* message.  Keys are named for their lengths.                             *)
(***************************************************************************)
EXTENDS Integers, Sequences

CONSTANTS
  Macs,         \* the MACs looked at
  MacContexts,  \* contexts of one program
  MacKeys,      \* its key objects
  MacInputs,    \* what an update is given, as sequences of pieces
  Word,         \* 2^32 bytes, in pieces: lengths of wolfCrypt are below it
  MaxMacMsg,    \* bound: pieces of a message
  MacHabits     \* what programs do beyond the plain protocol

MacHabit == {"reinit", "alg_without_key", "gmac_reuse", "key_size", "long_gmac", "cipher_prefix",
             "gen_twice", "keyless_match"}
ASSUME MacAssumption ==
  /\ Macs \subseteq {"hmac", "cmac", "gmac"}
  /\ MacInputs \subseteq Seq(STRING) /\ \A i \in MacInputs : Len(i) > 0
  /\ Word \in Nat /\ Word > 1 /\ MaxMacMsg \in Nat /\ MacHabits \subseteq MacHabit

VARIABLES
  mac,       \* which MAC
  signs,     \* whether the program signs with MAC keys, or uses MAC contexts itself
  mctx,      \* [MacContexts -> wp_HmacCtx, wp_CmacCtx or wp_GmacCtx]
  macSaid,   \* [MacContexts -> what the program asked of it]
  mkeys,     \* [MacKeys -> wp_Mac]
  madeOf,    \* [MacKeys -> what the program made the key of]
  gen,       \* wp_MacGenCtx, and what the program gave it
  tag,       \* the last MAC made, and the one it was to be
  compared   \* the last question about two keys: the answer, and the true one

macVars == <<mac, signs, mctx, macSaid, mkeys, madeOf, gen, tag, compared>>

(* alg is the type of HMAC; of the others the cipher, which is not used.  An *)
(* object without a key has no algorithm.                                    *)
NotKeyed == [alg |-> "", key |-> "", data |-> <<>>]
MacNew == [alg |-> "", size |-> "", key |-> "", iv |-> "", in |-> NotKeyed]
NotSaid == [alg |-> "", key |-> "", iv |-> "", msg |-> <<>>, phase |-> "new"]
NoMaterial == [key |-> "none", cipher |-> ""]
NoMacKey == [key |-> "no object", cipher |-> ""]
NoGen == [key |-> "no context", cipher |-> "", gave |-> NoMaterial, used |-> FALSE]
NoTag == [got |-> <<>>, due |-> <<>>]
NothingAsked == [answer |-> TRUE, truth |-> TRUE]

MacKind(kinds) ==
  /\ mac \in kinds /\ signs \in BOOLEAN
  /\ signs => mac \in {"hmac", "cmac"}
  /\ mctx = [c \in MacContexts |-> MacNew] /\ macSaid = [c \in MacContexts |-> NotSaid]
  /\ mkeys = [m \in MacKeys |-> NoMacKey] /\ madeOf = [m \in MacKeys |-> NoMacKey] /\ gen = NoGen
  /\ tag = NoTag /\ compared = NothingAsked
MacInit == MacKind(Macs)
MacIdle == MacKind({"none"})

Ok(c) == [ok |-> TRUE, c |-> c]
Refuse(c) == [ok |-> FALSE, c |-> c]

(* The names a program gives, the keys and the algorithm of a key's length.  *)
AlgNames ==
  CASE mac = "hmac" -> {"SHA256", "SHA512", "unknown"}
    [] mac = "cmac" -> {"AES-128-CBC", "AES-256-CBC", "AES-256-GCM"}
    [] mac = "gmac" -> {"AES-128-GCM", "AES-256-CBC"}
    [] OTHER -> {}
Good == {"SHA256", "SHA512", "AES-128-CBC", "AES-256-CBC", "AES-128-GCM"} \cap
          (AlgNames \ (IF mac = "gmac" THEN {"AES-256-CBC"} ELSE {}))
KeyNames == {"k16", "k32", "k64"}
AesOf(key) == IF key = "k16" THEN "128" ELSE "256"
KeyOfCipher(alg) == IF alg \in {"AES-128-CBC", "AES-128-GCM"} THEN "k16" ELSE "k32"
MacParams == [alg : AlgNames \cup {""}, key : KeyNames \cup {""},
           iv : {""} \cup (IF mac = "gmac" THEN {"iv1"} ELSE {})]

------------------------------------------------------------------------------
(* HMAC.  The key is kept, and starts the object over when asked to.         *)
HmacSetKey(c, key, restart) ==
  IF c.alg = "" THEN Refuse([c EXCEPT !.key = ""])
  ELSE Ok([c EXCEPT !.key = key,
                    !.in = IF restart THEN [alg |-> c.alg, key |-> key, data |-> <<>>] ELSE @])

HmacSetParams(c, p) ==
  LET named == CASE p.alg = "" -> Ok(c)
                 [] p.alg = "unknown" -> Refuse([c EXCEPT !.alg = ""])
                 [] OTHER -> Ok([c EXCEPT !.alg = p.alg, !.size = p.alg])
  IN IF named.ok /\ p.key # "" THEN HmacSetKey(named.c, p.key, TRUE) ELSE named

HmacInit(c, key, p) ==
  LET r == HmacSetParams(c, p)
      sized == [r.c EXCEPT !.size = r.c.alg]
  IN IF ~r.ok THEN r
     ELSE IF key # "" THEN HmacSetKey(sized, key, TRUE) ELSE Ok(sized)

(* CMAC and GMAC: at most 32 bytes of key.  The size the cipher's name       *)
(* stands for is noted and not compared.                                     *)
AesSetKey(c, key, restart) ==
  IF key = "k64" THEN Refuse(c)
  ELSE IF restart /\ mac = "cmac" /\ c.alg = "" THEN Refuse([c EXCEPT !.key = key])
  ELSE Ok([c EXCEPT !.key = key,
                    !.in = IF restart
                           THEN [alg |-> AesOf(key), key |-> key,
                                 data |-> IF mac = "cmac" THEN <<>> ELSE @.data]
                           ELSE @])

CmacSetParams(c, p) ==
  LET named == CASE p.alg = "" -> Ok(c)
                 [] p.alg \in Good -> Ok([c EXCEPT !.alg = p.alg, !.size = "AES"])
                 [] OTHER -> Refuse([c EXCEPT !.alg = "AES", !.size = "AES"])
  IN IF named.ok /\ p.key # "" THEN AesSetKey(named.c, p.key, TRUE) ELSE named

CmacInit(c, key, p) ==
  LET r == CmacSetParams(c, p)
      sized == [r.c EXCEPT !.size = "AES"]
  IN IF ~r.ok THEN r ELSE IF key # "" THEN AesSetKey(sized, key, TRUE) ELSE Ok(sized)

GmacSetParams(c, p) ==
  LET named == CASE p.alg = "" -> Ok(c) [] p.alg \in Good -> Ok([c EXCEPT !.alg = p.alg])
                 [] OTHER -> Refuse(c)
      keyed == IF named.ok /\ p.key # "" THEN AesSetKey(named.c, p.key, TRUE) ELSE named
  IN IF keyed.ok /\ p.iv # "" THEN Ok([keyed.c EXCEPT !.iv = p.iv]) ELSE keyed

(* What has been collected stays. *)
GmacInit(c, key, p) ==
  LET r == GmacSetParams(c, p)
  IN IF r.ok /\ key # "" THEN AesSetKey(r.c, key, TRUE) ELSE r

MacSetParams(c, p) ==
  CASE mac = "hmac" -> HmacSetParams(c, p) [] mac = "cmac" -> CmacSetParams(c, p)
    [] mac = "gmac" -> GmacSetParams(c, p)
MacStart(c, key, p) ==
  CASE mac = "hmac" -> HmacInit(c, key, p) [] mac = "cmac" -> CmacInit(c, key, p)
    [] mac = "gmac" -> GmacInit(c, key, p)

------------------------------------------------------------------------------
(* A copy keeps its key by setting it again, without starting over.          *)
HmacDup(src) == IF src.key = "" THEN Ok(src) ELSE HmacSetKey(src, src.key, FALSE)
CmacDup(src) == IF src.key = "" THEN Ok(src) ELSE AesSetKey(src, src.key, FALSE)
GmacDupNoData(src) ==
  LET r == [src EXCEPT !.in.data = <<>>]
  IN IF src.key = "" THEN Ok(r) ELSE AesSetKey(r, src.key, FALSE)
GmacDup(src) == IF src.key = "" THEN Ok(src) ELSE AesSetKey(src, src.key, FALSE)
MacDup(src) ==
  CASE mac = "hmac" -> HmacDup(src) [] mac = "cmac" -> CmacDup(src) [] mac = "gmac" -> GmacDup(src)

(* Updates: HMAC and CMAC in chunks of what wolfCrypt takes at once, GMAC by *)
(* collecting.                                                               *)
MacUpdateChunks(c, data) ==
  LET n == (Len(data) + Word - 2) \div (Word - 1)
      end(k) == IF k * (Word - 1) < Len(data) THEN k * (Word - 1) ELSE Len(data)
      loop[k \in 0 .. n] ==
        IF k = 0 THEN c
        ELSE [loop[k - 1] EXCEPT !.in.data = @ \o SubSeq(data, end(k - 1) + 1, end(k))]
  IN loop[n]
GmacUpdate(c, data) == [c EXCEPT !.in.data = @ \o data]
MacUpdate(c, data) == IF mac = "gmac" THEN GmacUpdate(c, data) ELSE MacUpdateChunks(c, data)

(* Final.  "room" is how the buffer compares with the MAC: only HMAC takes a *)
(* larger one.  HMAC is keyed again, CMAC is cleared, GMAC keeps all; and    *)
(* GMAC's length is cut to a word.                                           *)
Refused == <<"refused">>
HmacFinal(c, room) ==
  IF room = "less" THEN [out |-> Refused, c |-> c]
  ELSE [out |-> <<c.in.alg, c.in.key, "", c.in.data, c.size>>, c |-> [c EXCEPT !.in.data = <<>>]]
CmacFinal(c, room) ==
  IF room # "exact" \/ c.in.alg = "" THEN [out |-> Refused, c |-> c]
  ELSE [out |-> <<c.in.alg, c.in.key, "", c.in.data, "AES">>, c |-> [c EXCEPT !.in = NotKeyed]]
GmacFinal(c, room) ==
  IF room # "exact" THEN [out |-> Refused, c |-> c]
  ELSE [out |-> <<c.in.alg, c.in.key, c.iv, SubSeq(c.in.data, 1, Len(c.in.data) % Word), "AES">>,
        c |-> c]
MacFinal(c, room) ==
  CASE mac = "hmac" -> HmacFinal(c, room) [] mac = "cmac" -> CmacFinal(c, room)
    [] mac = "gmac" -> GmacFinal(c, room)

(* The MAC the program asked for. *)
TagDue(w, room) ==
  IF room = "less" \/ (room = "more" /\ mac # "hmac") \/ w.alg = "" THEN Refused
  ELSE IF mac = "hmac" THEN <<w.alg, w.key, "", w.msg, w.alg>>
  ELSE <<AesOf(KeyOfCipher(w.alg)), w.key, w.iv, w.msg, "AES">>

------------------------------------------------------------------------------
(* What the program has said after a call it made, with a key and params.    *)
Saying(w, key, p) ==
  LET k == IF key # "" THEN key ELSE p.key
  IN [w EXCEPT !.alg = IF p.alg = "" THEN @ ELSE p.alg, !.key = IF k = "" THEN @ ELSE k,
               !.iv = IF p.iv = "" THEN @ ELSE p.iv, !.msg = <<>>]

(* The calls of a plain program: a context that has worked on a message is   *)
(* given its key again, one of GMAC is not used again, the algorithm comes   *)
(* no later than the key, and the key is of the algorithm's size.            *)
Plain(c, key, p) ==
  LET w == Saying(macSaid[c], key, p)
      rekeyed == key # "" \/ p.key # ""
  IN /\ mac = "gmac" /\ macSaid[c].phase # "new" => "gmac_reuse" \in MacHabits
     /\ p.alg # "" /\ mctx[c].in.key # "" /\ ~rekeyed => "alg_without_key" \in MacHabits
     /\ mac # "hmac" /\ w.alg # "" /\ w.key \in {"k16", "k32"} /\ w.key # KeyOfCipher(w.alg) =>
          "key_size" \in MacHabits
     /\ ~rekeyed /\ macSaid[c].phase # "new" /\ ~(mac = "hmac" /\ macSaid[c].phase = "done") =>
          "reinit" \in MacHabits

(* A context that refused something is given up. *)
Answer(c, r, w) ==
  /\ mctx' = [mctx EXCEPT ![c] = IF r.ok THEN r.c ELSE MacNew]
  /\ macSaid' = [macSaid EXCEPT ![c] = IF r.ok THEN w ELSE NotSaid]
  /\ tag' = NoTag /\ compared' = NothingAsked
  /\ UNCHANGED <<mac, signs, mkeys, madeOf, gen>>

CallSetParams(c, p) ==
  /\ Plain(c, "", p)
  /\ Answer(c, MacSetParams(mctx[c], p), [Saying(macSaid[c], "", p) EXCEPT !.phase = "new"])

CallInit(c, key, p) ==
  /\ Plain(c, key, p)
  /\ LET w == Saying(macSaid[c], key, p)
     IN /\ w.alg # "" /\ w.key # "" /\ (mac = "gmac" => w.iv # "")
        /\ Answer(c, MacStart(mctx[c], key, p), [w EXCEPT !.phase = "ready"])

CallUpdate(c, data) ==
  /\ macSaid[c].phase = "ready" /\ Len(macSaid[c].msg) + Len(data) <= MaxMacMsg
  /\ mac = "gmac" /\ Len(macSaid[c].msg) + Len(data) >= Word => "long_gmac" \in MacHabits
  /\ Answer(c, Ok(MacUpdate(mctx[c], data)), [macSaid[c] EXCEPT !.msg = @ \o data])

CallDup(c, to) ==
  /\ mctx[c] # MacNew /\ mctx[to] = MacNew
  /\ Answer(to, MacDup(mctx[c]), macSaid[c])

CallFinal(c, room) ==
  /\ macSaid[c].phase = "ready"
  /\ LET r == MacFinal(mctx[c], room)
     IN /\ mctx' = [mctx EXCEPT ![c] = r.c]
        /\ tag' = [got |-> r.out, due |-> TagDue(macSaid[c], room)]
        /\ macSaid' = [macSaid EXCEPT ![c].phase = IF r.out = Refused THEN @ ELSE "done"]
  /\ compared' = NothingAsked /\ UNCHANGED <<mac, signs, mkeys, madeOf, gen>>

CallFree(c) == mctx[c] # MacNew /\ Answer(c, Refuse(MacNew), NotSaid)

------------------------------------------------------------------------------
(* Keys.                                                                     *)
HasObject(m) == mkeys[m] # NoMacKey
MakeKey(m, k, g) ==
  /\ mkeys' = [mkeys EXCEPT ![m] = k] /\ madeOf' = [madeOf EXCEPT ![m] = g]
  /\ tag' = NoTag /\ compared' = NothingAsked
  /\ UNCHANGED <<mac, signs, mctx, macSaid, gen>>

(* new and import: the key has to be selected; it is only there when given. *)
KeyImport(k, key, cipher) ==
  [key |-> IF key = "" THEN k.key ELSE key, cipher |-> IF mac = "cmac" THEN cipher ELSE k.cipher]
ImportMacKey(m, key, cipher) ==
  /\ ~HasObject(m)
  /\ cipher # "" => mac = "cmac"
  /\ MakeKey(m, KeyImport(NoMaterial, key, cipher),
             [key |-> IF key = "" THEN "none" ELSE key, cipher |-> cipher])

KeyDup(k) == k
DupMacKey(m, to) == HasObject(m) /\ ~HasObject(to) /\ MakeKey(to, KeyDup(mkeys[m]), madeOf[m])

(* What is exported: of HMAC without a key nothing. *)
KeyExport(k) == [key |-> IF k.key = "none" THEN "" ELSE k.key, cipher |-> k.cipher]
CopyByExport(m, to) ==
  /\ HasObject(m) /\ ~HasObject(to)
  /\ LET e == KeyExport(mkeys[m]) IN MakeKey(to, KeyImport(NoMaterial, e.key, e.cipher), madeOf[m])

FreeKey(m) == HasObject(m) /\ MakeKey(m, NoMacKey, NoMacKey)

(* A generation context hands its key over to the key it makes. *)
GenInit(key, cipher) ==
  /\ gen = NoGen /\ key # "" /\ (cipher = "" <=> mac = "hmac")
  /\ gen' = [key |-> key, cipher |-> cipher, gave |-> [key |-> key, cipher |-> cipher],
             used |-> FALSE]
  /\ tag' = NoTag /\ compared' = NothingAsked
  /\ UNCHANGED <<mac, signs, mctx, macSaid, mkeys, madeOf>>
GenMacKey(m) ==
  /\ gen # NoGen /\ ~HasObject(m) /\ (gen.used => "gen_twice" \in MacHabits)
  /\ mkeys' = [mkeys EXCEPT ![m] = [key |-> gen.key, cipher |-> gen.cipher]]
  /\ madeOf' = [madeOf EXCEPT ![m] = gen.gave]
  /\ gen' = [gen EXCEPT !.key = "empty", !.used = TRUE]
  /\ tag' = NoTag /\ compared' = NothingAsked
  /\ UNCHANGED <<mac, signs, mctx, macSaid>>
GenCleanup ==
  /\ gen # NoGen /\ gen' = NoGen
  /\ tag' = NoTag /\ compared' = NothingAsked
  /\ UNCHANGED <<mac, signs, mctx, macSaid, mkeys, madeOf>>

(* The second key is looked at when the first has one. *)
KeyMatchNoCipher(k1, k2) == k1.key = "none" \/ k1.key = k2.key
KeyMatch(k1, k2) == k1.key = "none" \/ (k1.key = k2.key /\ k1.cipher = k2.cipher)
KeyHas(k) == k.key \notin {"none", "empty"}
AskMatch(m1, m2) ==
  /\ HasObject(m1) /\ HasObject(m2)
  /\ "none" \in {madeOf[m1].key, madeOf[m2].key} => "keyless_match" \in MacHabits
  /\ compared' = [answer |-> KeyMatch(mkeys[m1], mkeys[m2]), truth |-> madeOf[m1] = madeOf[m2]]
  /\ tag' = NoTag
  /\ UNCHANGED <<mac, signs, mctx, macSaid, mkeys, madeOf, gen>>
AskHas(m) ==
  /\ HasObject(m)
  /\ compared' = [answer |-> KeyHas(mkeys[m]), truth |-> madeOf[m].key # "none"]
  /\ tag' = NoTag
  /\ UNCHANGED <<mac, signs, mctx, macSaid, mkeys, madeOf, gen>>

------------------------------------------------------------------------------
(* Signing: the parameters are set, whatever that answers, and the context   *)
(* started with the key and the digest of the call, or the parameters', or   *)
(* the cipher of the key, or the parameters'.  No cipher is the beginning of *)
(* every name, so of the first.                                              *)
SignInit(c, k, md, p) ==
  LET cipher == IF p.alg # "" THEN p.alg ELSE IF k.cipher # "" THEN k.cipher ELSE "AES-128-CBC"
      alg == IF mac = "cmac" THEN cipher ELSE IF p.alg # "" THEN p.alg ELSE md
  IN MacStart(MacSetParams(c, p).c, k.key, [alg |-> alg, key |-> "", iv |-> ""])

CallSignInit(c, m, md, p) ==
  /\ mac \in {"hmac", "cmac"} /\ HasObject(m) /\ gen = NoGen /\ mctx[c] = MacNew
  /\ md \in (IF mac = "hmac" THEN Good ELSE {""}) /\ p.key = "" /\ p.iv = ""
  /\ madeOf[m].key \in KeyNames
  /\ LET alg == IF p.alg # "" THEN p.alg ELSE IF mac = "cmac" THEN madeOf[m].cipher ELSE md
     IN /\ mac = "cmac" /\ alg = "" => "cipher_prefix" \in MacHabits
        /\ mac = "cmac" /\ alg # "" /\ madeOf[m].key # KeyOfCipher(alg) => "key_size" \in MacHabits
        /\ Answer(c, SignInit(mctx[c], mkeys[m], md, p),
                  [alg |-> alg, key |-> madeOf[m].key, iv |-> "", msg |-> <<>>, phase |-> "ready"])

Contextual(c) ==
  \/ ~signs /\ \E p \in MacParams : CallSetParams(c, p)
                                 \/ \E key \in KeyNames \cup {""} : CallInit(c, key, p)
  \/ signs /\ \E m \in MacKeys, md \in AlgNames \cup {""}, p \in MacParams : CallSignInit(c, m, md, p)
  \/ \E data \in MacInputs : CallUpdate(c, data)
  \/ \E to \in MacContexts : CallDup(c, to)
  \/ \E room \in {"less", "exact", "more"} : CallFinal(c, room)
  \/ CallFree(c)

Keyed(m) ==
  \/ \E key \in KeyNames \cup {""}, cipher \in (Good \cup {""}) : ImportMacKey(m, key, cipher)
  \/ \E to \in MacKeys : DupMacKey(m, to) \/ CopyByExport(m, to) \/ AskMatch(m, to)
  \/ FreeKey(m) \/ GenMacKey(m) \/ AskHas(m)

(* A context takes the bytes of a key when it is started.  Bound: a program  *)
(* makes and asks about its keys while it has no context, and generates none *)
(* while it has one.                                                         *)
MacNext ==
  \/ mac # "none" /\ \E c \in MacContexts : Contextual(c)
  \/ /\ signs /\ \A c \in MacContexts : mctx[c] = MacNew
     /\ \/ \E m \in MacKeys : Keyed(m)
        \/ \E key \in KeyNames, cipher \in (Good \cup {""}) : GenInit(key, cipher)
        \/ GenCleanup

MacSpec == MacInit /\ [][MacNext]_macVars

------------------------------------------------------------------------------
(* A MAC is that of the message the program gave since it began it, under    *)
(* the key and with the algorithm it asked for, by name, by parameter or by  *)
(* key object, and of its length; the buffers refused are the ones that do   *)
(* not fit.                                                                  *)
TagAsAsked == tag.got = tag.due

(* Keys are said to be there, and to be the same, exactly when the program   *)
(* made them with one, and of the same key and cipher.                       *)
KeysAreTold == compared.answer = compared.truth
==============================================================================
