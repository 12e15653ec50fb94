-------------------------------- MODULE WpKdf --------------------------------
(***************************************************************************)
(* Key derivation contexts: HKDF and TLS 1.3 KDF (wp_hkdf.c), TLS1-PRF     *)
(* (wp_tls1_prf.c), PBKDF2 and the KDF of PKCS#12 (wp_pbkdf2.c), KBKDF     *)
(* (wp_kbkdf.c), KRB5KDF (wp_krb5kdf.c) and SSHKDF (wp_sshkdf.c), and the  *)
(* first and third of them as key exchanges (wp_kdf_exch.c).               *)
(*                                                                         *)
(* Parameters come in batches, the OSSL_PARAM lists of one call.  A byte   *)
(* string is its name, or the sequence of its pieces where pieces combine; *)
(* what a KDF of wolfCrypt makes is the record of all that goes into it.   *)
(***************************************************************************)
EXTENDS Integers, Sequences, FiniteSets

CONSTANTS
  Kdfs,       \* the KDFs looked at
  Constants,  \* of KRB5KDF, as bytes
  FoldSize,   \* length of a cipher block
  MaxPieces,  \* bound of the code: WP_MAX_INFO_SIZE and WP_MAX_SEED_SIZE, in pieces
  MaxBatches, \* bound: calls that set parameters between two resets
  KdfHabits   \* what programs do beyond the plain protocol

Kdf == {"hkdf", "tls13", "prf", "pbkdf2", "pkcs12", "kbkdf", "krb5", "ssh"}
KdfHabit == {"set_after_info", "no_mode", "prf_other_md", "kex_copy", "on_refusal", "long_constant"}
ASSUME KdfAssumption ==
  /\ Kdfs \subseteq Kdf /\ FoldSize \in Nat \ {0}
  /\ \A s \in Constants : s \in Seq(0 .. 255)
  /\ MaxPieces \in Nat /\ MaxBatches \in Nat /\ KdfHabits \subseteq KdfHabit

VARIABLES
  kdf,       \* which KDF
  kex,       \* whether it is used as a key exchange
  kctx,      \* wp_HkdfCtx, wp_Tls1Prf_Ctx, ...
  wish,      \* what the program has set
  constant,  \* the constant it derives with KRB5KDF
  derived    \* what the last derivation made, and what it was to make

kdfVars == <<kdf, kex, kctx, wish, constant, derived>>

Unset == [md |-> "", mode |-> "", key |-> "", salt |-> "", info |-> <<>>, seed |-> <<>>,
          label |-> "", data |-> "", type |-> ""]
KdfNew == Unset
NoWish == [p |-> Unset, batches |-> 0]
NothingDerived == [got |-> Unset, due |-> Unset]

KdfInit ==
  /\ kdf \in Kdfs /\ kex \in BOOLEAN /\ kctx = KdfNew /\ wish = NoWish
  /\ kex => kdf \in {"hkdf", "prf"}
  /\ IF kdf = "krb5" THEN constant \in Constants ELSE constant = <<>>
  /\ Len(constant) > FoldSize => "long_constant" \in KdfHabits
  /\ derived = NothingDerived
KdfIdle ==
  /\ kdf = "none" /\ kex = FALSE /\ kctx = Unset /\ wish = NoWish /\ constant = <<>>
  /\ derived = NothingDerived

------------------------------------------------------------------------------
(* A batch of parameters.                                                    *)
Values(k, w) ==
  CASE w = "md" /\ k = "prf" -> {"SHA256", "unknown", "MD5-SHA1", "SHA512"}
    [] w = "md" /\ k # "prf" -> {"SHA256", "unknown"}
    [] w = "mode" /\ k = "kbkdf" -> {"FEEDBACK", "COUNTER"}
    [] w = "mode" /\ k # "kbkdf" -> {"both", "extract", "expand", "other"}
    [] w = "key" -> {"k16", "k32"}
    [] w \in {"info", "seed"} -> {"a", "ab"}
    [] w = "type" /\ k = "ssh" -> {"A", "G"}
    [] w = "type" /\ k = "kbkdf" -> {"HMAC", "CMAC", "other"}
    [] w = "type" /\ k = "krb5" -> {"AES-128-CBC", "AES-256-CBC", "other"}
    [] OTHER -> {w}

Whats(k) ==
  CASE k = "hkdf" -> {"md", "mode", "key", "salt", "info"}
    [] k = "tls13" -> {"md", "mode", "key", "salt", "label", "data"}
    [] k = "prf" -> {"md", "key", "seed"}
    [] k = "pbkdf2" -> {"md", "key", "salt"}
    [] k = "pkcs12" -> {"md", "key", "salt", "type"}
    [] k = "kbkdf" -> {"md", "mode", "key", "seed", "label", "info", "type"}
    [] k = "krb5" -> {"type", "key", "data"}
    [] k = "ssh" -> {"md", "key", "data", "label", "type"}

Parameters(k) == UNION {[what : {w}, to : Values(k, w)] : w \in Whats(k)}
Batches(k) ==
  {b \in {{s, t} : s, t \in Parameters(k)} :
     Cardinality({s.what : s \in b}) = Cardinality(b)
       /\ (Cardinality(b) = 2 => \E s \in b : s.what \in {"mode", "key"})}

Carries(b, w) == \E s \in b : s.what = w
To(b, w) == (CHOOSE s \in b : s.what = w).to
Pieces(to) == IF to = "ab" THEN <<"a", "b">> ELSE <<to>>

Taken(c) == [ok |-> TRUE, c |-> c]
Not(c) == [ok |-> FALSE, c |-> c]

(* One parameter that is copied in when it is there. *)
GetOctetString(c, b, w) == IF Carries(b, w) THEN [c EXCEPT ![w] = To(b, w)] ELSE c

(* A digest that is not known leaves the context without one. *)
GetDigest(c, b) ==
  CASE ~Carries(b, "md") -> Taken(c)
    [] Carries(b, "md") -> IF To(b, "md") = "unknown" THEN Not([c EXCEPT !.md = ""])
                       ELSE Taken([c EXCEPT !.md = To(b, "md")])

------------------------------------------------------------------------------
(* HKDF.  A mode that is not one is kept; the info is that of the last call, *)
(* also when the call brings none.  The pieces that fit are kept of one that *)
(* is refused.                                                               *)
HkdfGetMode(c, b) ==
  LET set == GetOctetString(c, b, "mode")
  IN IF set.mode = "other" THEN Not(set) ELSE Taken(set)

HkdfBaseSet(c, b) ==
  LET d == GetDigest(c, b)
      m == IF d.ok THEN HkdfGetMode(d.c, b) ELSE d
  IN IF m.ok THEN Taken(GetOctetString(GetOctetString(m.c, b, "key"), b, "salt")) ELSE m

HkdfSetInfoAdds(c, b) ==
  LET all == c.info \o (IF Carries(b, "info") THEN Pieces(To(b, "info")) ELSE <<>>)
  IN IF Len(all) <= MaxPieces THEN Taken([c EXCEPT !.info = all]) ELSE Not(c)
HkdfSetInfo(c, b) ==
  LET all == IF Carries(b, "info") THEN Pieces(To(b, "info")) ELSE <<>>
  IN IF Len(all) <= MaxPieces THEN Taken([c EXCEPT !.info = all])
     ELSE Not([c EXCEPT !.info = SubSeq(all, 1, MaxPieces)])

HkdfSet(c, b) == LET r == HkdfBaseSet(c, b) IN IF r.ok THEN HkdfSetInfo(r.c, b) ELSE r

(* What is not named is not in it. *)
Make(md, mode, key, salt, info) ==
  [Unset EXCEPT !.md = md, !.mode = mode, !.key = key, !.salt = salt, !.info = info]
Refusal == [Unset EXCEPT !.type = "failed"]
Untouched == [Unset EXCEPT !.type = "not written"]

HkdfMode(c) == IF c.mode \in {"extract", "expand"} THEN c.mode ELSE "both"
HkdfDerive(c, fits) ==
  IF c.key = "" \/ c.md = "" \/ (HkdfMode(c) = "extract" /\ ~fits) THEN Refusal
  ELSE CASE HkdfMode(c) = "extract" -> Make(c.md, "extract", c.key, c.salt, <<>>)
         [] HkdfMode(c) = "expand" -> Make(c.md, "expand", c.key, "", c.info)
         [] HkdfMode(c) = "both" -> Make(c.md, "both", c.key, c.salt, c.info)

(* TLS 1.3: a mode has to be there from the first call on, and derivation    *)
(* does nothing in the mode a context is new with.  Without a key zeros are  *)
(* extracted from.                                                           *)
Tls13Set(c, b) ==
  LET r == HkdfBaseSet(c, b)
  IN IF r.ok /\ r.c.mode \in {"", "both"} THEN Not(r.c)
     ELSE IF r.ok THEN Taken(GetOctetString(GetOctetString(r.c, b, "label"), b, "data"))
     ELSE r

Tls13Extract(c) ==
  IF c.md = "" THEN Refusal
  ELSE [Make(c.md, "extract", IF c.key = "" THEN "zeros" ELSE c.key, c.salt, <<>>)
          EXCEPT !.label = IF c.salt = "" THEN "" ELSE c.label]
Tls13Expand(c) ==
  IF c.md = "" \/ c.key = "" THEN Refusal
  ELSE [Make(c.md, "expand", c.key, "", <<>>) EXCEPT !.label = c.label, !.data = c.data]
Tls13Derive(c) ==
  CASE c.mode = "extract" -> Tls13Extract(c) [] c.mode = "expand" -> Tls13Expand(c)
    [] OTHER -> Untouched

------------------------------------------------------------------------------
(* TLS1-PRF: seeds add up until the context is reset.  A digest that is      *)
(* neither of the two PRFs' is taken for SHA-384.                            *)
PrfGetSeed(c, b) ==
  LET all == c.seed \o (IF Carries(b, "seed") THEN Pieces(To(b, "seed")) ELSE <<>>)
  IN IF Len(all) <= MaxPieces THEN Taken([c EXCEPT !.seed = all])
     ELSE Not([c EXCEPT !.seed = SubSeq(all, 1, MaxPieces)])

PrfSet(c, b) ==
  LET d == GetDigest(c, b)
  IN IF d.ok THEN PrfGetSeed(GetOctetString(d.c, b, "key"), b) ELSE d

PrfDerive(c) ==
  IF c.md = "" \/ c.key = "" \/ c.seed = <<>> THEN Refusal
  ELSE [Make(IF c.md \in {"MD5-SHA1", "SHA256"} THEN c.md ELSE "SHA384", "", c.key, "", <<>>)
          EXCEPT !.seed = c.seed]

------------------------------------------------------------------------------
(* PBKDF2, PKCS#12, SSH.  The type of an SSH key is a letter of A to F.      *)
Pbkdf2Set(c, b) ==
  LET d == GetDigest(c, b)
  IN IF d.ok THEN Taken(GetOctetString(GetOctetString(d.c, b, "key"), b, "salt")) ELSE d
Pkcs12Set(c, b) ==
  LET r == Pbkdf2Set(c, b) IN IF r.ok THEN Taken(GetOctetString(r.c, b, "type")) ELSE r

Pbkdf2Derive(c) ==
  IF c.key = "" \/ c.md = "" THEN Refusal ELSE Make(c.md, "", c.key, c.salt, <<>>)
Pkcs12Derive(c) ==
  IF c.key = "" \/ c.md = "" THEN Refusal
  ELSE [Make(c.md, "", c.key, c.salt, <<>>) EXCEPT !.type = c.type]

SshSet(c, b) ==
  LET d == GetDigest(c, b)
      bytes == GetOctetString(GetOctetString(GetOctetString(d.c, b, "key"), b, "data"), b, "label")
  IN IF ~d.ok THEN d
     ELSE IF Carries(b, "type") /\ To(b, "type") = "G" THEN Not(bytes)
     ELSE Taken(GetOctetString(bytes, b, "type"))
SshDerive(c) ==
  IF "" \in {c.md, c.key, c.data, c.label, c.type} THEN Refusal
  ELSE [Make(c.md, "", c.key, "", <<>>) EXCEPT !.data = c.data, !.label = c.label, !.type = c.type]

------------------------------------------------------------------------------
(* KBKDF: one mode can be named, FEEDBACK, and a context is new in the       *)
(* other.  The digest is looked up when a key is derived.                    *)
KbkdfSet(c, b) ==
  LET bad == Carries(b, "mode") /\ To(b, "mode") # "FEEDBACK"
      named == GetOctetString(GetOctetString(c, b, "mode"), b, "md")
      bytes == GetOctetString(GetOctetString(named, b, "key"), b, "label")
      seeded == IF Carries(b, "seed") THEN [bytes EXCEPT !.seed = Pieces(To(b, "seed"))] ELSE bytes
      told == IF Carries(b, "info") THEN [seeded EXCEPT !.info = Pieces(To(b, "info"))] ELSE seeded
  IN CASE bad -> Not(c)
       [] ~bad /\ Carries(b, "type") /\ To(b, "type") = "other" -> Not(told)
       [] OTHER -> Taken(GetOctetString(told, b, "type"))

KbkdfHmac(c) == c.type = "HMAC" /\ c.md \notin {"", "unknown"}
KbkdfDerive(c) ==
  IF c.key = "" \/ ~(c.type = "CMAC" \/ KbkdfHmac(c)) THEN Refusal
  ELSE [Make(IF c.type = "HMAC" THEN c.md ELSE "", c.mode, c.key, "", c.info) EXCEPT
          !.seed = IF c.mode = "FEEDBACK" THEN c.seed ELSE <<>>,
          !.label = c.label, !.type = c.type]

(* KRB5KDF.  n_fold of the constant: all of its copies, each turned 13 bits  *)
(* further, added up from the last byte to the first, with the carry going   *)
(* round.                                                                    *)
Gcd(m, n) == CHOOSE d \in 1 .. m : /\ m % d = 0 /\ n % d = 0
                                   /\ \A e \in d + 1 .. m : m % e # 0 \/ n % e # 0

(* Byte l of the copies, in place. *)
CopyByte(s, l) ==
  LET n == Len(s)
      rot == 13 * (l \div n)
      ci == (l - (rot \div 8) - 1) % n
      rr == rot % 8
  IN ((s[ci + 1] * 2 ^ (8 - rr)) % 256) + (s[((ci + 1) % n) + 1] \div 2 ^ rr)

(* When the constant divides the block the copies follow one another. *)
FoldCopies(s) ==
  [i \in 1 .. FoldSize |-> IF i <= Len(s) THEN s[i] ELSE CopyByte(s, i - 1)]

FoldSum(s) ==
  LET n == Len(s)
      cnt == (n * FoldSize) \div Gcd(n, FoldSize)
      at(k) == (FoldSize - 1) - (k % FoldSize)
      start == [j \in 0 .. FoldSize - 1 |-> IF j < n THEN s[j + 1] ELSE 0]
      \* k bytes added, the one before the last first
      sum[k \in 0 .. cnt - n] ==
        IF k = 0 THEN [block |-> start, carry |-> 0]
        ELSE LET was == sum[k - 1]
                 new == was.carry + was.block[at(k - 1)] + CopyByte(s, cnt - k)
             IN [block |-> [was.block EXCEPT ![at(k - 1)] = new % 256], carry |-> new \div 256]
      \* and what is carried
      round[k \in 0 .. 2 * FoldSize] ==
        IF k = 0 THEN sum[cnt - n]
        ELSE LET was == round[k - 1]
                 new == was.carry + was.block[at(cnt - n + k - 1)]
             IN IF was.carry = 0 THEN was
                ELSE [block |-> [was.block EXCEPT ![at(cnt - n + k - 1)] = new % 256],
                      carry |-> new \div 256]
  IN [j \in 1 .. FoldSize |-> round[2 * FoldSize].block[j - 1]]

NFold(s) ==
  IF Len(s) = FoldSize THEN s ELSE IF FoldSize % Len(s) = 0 THEN FoldCopies(s) ELSE FoldSum(s)

Krb5Set(c, b) ==
  IF Carries(b, "type") /\ To(b, "type") = "other" THEN Not(c)
  ELSE Taken(GetOctetString(GetOctetString(GetOctetString(c, b, "type"), b, "key"), b, "data"))

Krb5ExpectedKey(c) ==
  CASE c.type = "AES-128-CBC" -> "k16" [] c.type = "AES-256-CBC" -> "k32" [] OTHER -> "none"
Krb5Refuses(c, fits) ==
  c.key = "" \/ ~fits \/ c.key # Krb5ExpectedKey(c) \/ c.data = "" \/ constant = <<>>
Krb5Key(c, folded) == [Make("", "", c.key, "", folded) EXCEPT !.type = c.type]
(* A constant that is longer than the block is copied past its end, and then *)
(* the rest of the block, less than nothing, is cleared: no program goes on. *)
Overrun == [Unset EXCEPT !.type = "overrun"]
Krb5Derive(c, fits) ==
  CASE Krb5Refuses(c, fits) -> Refusal
    [] ~Krb5Refuses(c, fits) /\ Len(constant) > FoldSize -> Overrun
    [] OTHER -> Krb5Key(c, NFold(constant))

------------------------------------------------------------------------------
SetParams(c, b) ==
  CASE kdf = "hkdf" -> HkdfSet(c, b) [] kdf = "tls13" -> Tls13Set(c, b)
    [] kdf = "prf" -> PrfSet(c, b) [] kdf = "pbkdf2" -> Pbkdf2Set(c, b)
    [] kdf = "pkcs12" -> Pkcs12Set(c, b) [] kdf = "kbkdf" -> KbkdfSet(c, b)
    [] kdf = "krb5" -> Krb5Set(c, b) [] kdf = "ssh" -> SshSet(c, b)

DeriveKey(c, fits) ==
  CASE kdf = "hkdf" -> HkdfDerive(c, fits) [] kdf = "tls13" -> Tls13Derive(c)
    [] kdf = "prf" -> PrfDerive(c) [] kdf = "pbkdf2" -> Pbkdf2Derive(c)
    [] kdf = "pkcs12" -> Pkcs12Derive(c) [] kdf = "kbkdf" -> KbkdfDerive(c)
    [] kdf = "krb5" -> Krb5Derive(c, fits) [] kdf = "ssh" -> SshDerive(c)

------------------------------------------------------------------------------
(* What the program has set: each parameter as it was set last, info and     *)
(* seeds as the sequences of their pieces.                                   *)
WishAll(p, b) ==
  [w \in DOMAIN p |->
     CASE ~Carries(b, w) -> p[w]
       [] Carries(b, w) /\ w = "info" -> Pieces(To(b, w))
       [] Carries(b, w) /\ w = "seed" -> (IF kdf = "prf" THEN p[w] ELSE <<>>) \o Pieces(To(b, w))
       [] OTHER -> To(b, w)]

(* n-fold as it is defined: the copies one after the other as bits, cut into *)
(* blocks and added with the carry going round.                              *)
Bit(s, i) == (s[(i \div 8) + 1] \div 2 ^ (7 - (i % 8))) % 2
Turned(s, r, i) == Bit(s, (i - (13 * r)) % (8 * Len(s)))
Copies(s, i) == Turned(s, i \div (8 * Len(s)), i % (8 * Len(s)))
ByteOfBits(s, l) ==
  LET v[i \in 0 .. 8] == IF i = 0 THEN 0 ELSE (2 * v[i - 1]) + Copies(s, (8 * l) + i - 1) IN v[8]
AddCarrying(x, y, c) ==
  LET v[i \in 1 .. FoldSize + 1] ==
        IF i = FoldSize + 1 THEN c ELSE (v[i + 1] + x[i] + y[i]) \div 256
  IN [carry |-> v[1], sum |-> [i \in 1 .. FoldSize |-> (v[i + 1] + x[i] + y[i]) % 256]]
RoundAdd(x, y) == AddCarrying(x, y, AddCarrying(x, y, 0).carry).sum
NFoldOf(s) ==
  LET blocks == Len(s) \div Gcd(Len(s), FoldSize)
      add[k \in 1 .. blocks] ==
        LET block == [i \in 1 .. FoldSize |-> ByteOfBits(s, ((k - 1) * FoldSize) + i - 1)]
        IN IF k = 1 THEN block ELSE RoundAdd(add[k - 1], block)
  IN add[blocks]

(* The key the parameters stand for; the modes of the KDFs are those set,    *)
(* or the documented defaults of the program.                                *)
KeyOf(p, fits) ==
  CASE kdf = "prf" /\ p.md \notin {"", "unknown"} /\ p.key # "" /\ p.seed # <<>> ->
         [Make(p.md, "", p.key, "", <<>>) EXCEPT !.seed = p.seed]
    [] kdf = "tls13" /\ p.mode = "" -> Refusal
    [] kdf = "krb5" -> IF Krb5Refuses(p, fits) THEN Refusal ELSE Krb5Key(p, NFoldOf(constant))
    [] OTHER -> DeriveKey(p, fits)

------------------------------------------------------------------------------
Forget == kctx' = KdfNew /\ wish' = NoWish

SetBatch(b) ==
  /\ kdf # "none" /\ b \in Batches(kdf) /\ wish.batches < MaxBatches
  /\ kdf = "hkdf" /\ wish.p.info # <<>> /\ ~Carries(b, "info") => "set_after_info" \in KdfHabits
  /\ kdf = "prf" /\ Carries(b, "md") /\ To(b, "md") = "SHA512" => "prf_other_md" \in KdfHabits
  /\ LET r == SetParams(kctx, b)
     IN IF r.ok
        THEN /\ kctx' = r.c
             /\ wish' = [p |-> WishAll(wish.p, b), batches |-> wish.batches + 1]
        ELSE \/ Forget
             \/ "on_refusal" \in KdfHabits /\ kctx' = r.c /\ UNCHANGED wish
  /\ derived' = NothingDerived /\ UNCHANGED <<kdf, kex, constant>>

Reset ==
  /\ kdf # "none" /\ ~kex /\ kctx # KdfNew
  /\ Forget /\ derived' = NothingDerived /\ UNCHANGED <<kdf, kex, constant>>

(* The output is as long as the context reports, or not. *)
DeriveKdf(fits) ==
  /\ kdf # "none" /\ derived = NothingDerived
  /\ kdf = "tls13" /\ kctx.mode = "" => "no_mode" \in KdfHabits
  /\ derived' = [got |-> DeriveKey(kctx, fits), due |-> KeyOf(wish.p, fits)]
  /\ UNCHANGED <<kdf, kex, kctx, wish, constant>>

(* A copied key exchange has nothing of what was set. *)
KexDup(c) == KdfNew
CopyKex ==
  /\ kdf # "none" /\ kex /\ kctx # KdfNew
  /\ kctx' = KexDup(kctx)
  /\ wish' = IF "kex_copy" \in KdfHabits THEN wish ELSE NoWish
  /\ derived' = NothingDerived /\ UNCHANGED <<kdf, kex, constant>>

KdfNext ==
  /\ derived.got # Overrun
  /\ \/ \E b \in (IF kdf = "none" THEN {} ELSE Batches(kdf)) : SetBatch(b)
     \/ \E fits \in BOOLEAN : DeriveKdf(fits)
     \/ Reset \/ CopyKex

KdfSpec == KdfInit /\ [][KdfNext]_kdfVars

------------------------------------------------------------------------------
(* A derivation makes the key of the parameters set since the context was    *)
(* new, in whatever calls they came; it fails when one it needs is missing.  *)
(* (Of constants longer than a block, see below.)                            *)
KeyAsSet == derived.got = derived.due

(* n_fold is called with a constant that fits in the block it is to fill, as *)
(* its description asks.                                                     *)
ConstantFits ==
  kdf = "krb5" /\ derived # NothingDerived /\ derived.got # Refusal => Len(constant) \in 1 .. FoldSize
==============================================================================
