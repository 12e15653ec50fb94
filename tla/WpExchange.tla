----------------------------- MODULE WpExchange -----------------------------
(***************************************************************************)
(* Key exchange contexts: ECDH (wp_ecdh_exch.c), DH (wp_dh_exch.c), X25519 *)
(* and X448 (wp_ecx_exch.c).  Two contexts of one program, on keys they    *)
(* may share or on the two ends of an exchange.                            *)
(*                                                                         *)
(* The secret of two keys is the set of them; whether it has a leading     *)
(* zero byte is a matter of the pair.  A curve secret is also a number, a  *)
(* sequence of digits to the base of a small byte.                         *)
(***************************************************************************)
EXTENDS Integers, Sequences

CONSTANTS
  ExKeys,      \* keys of the exchange
  OwnKeys,     \* those of them the program has the private half of
  GroupOf,     \* the group of a key
  Short,       \* pairs of keys whose secret starts with a zero byte
  Cofactors,   \* groups whose cofactor is not 1: none that the provider lists
  Base,        \* values of a byte
  CurveOrder,  \* wp_curve25519_order, big endian
  XSecrets,    \* secrets as wolfCrypt returns them, big endian
  MaxExSets,   \* bound: parameters set
  ExHabits     \* what programs do beyond the plain protocol

ExHabit == {"ask_copy", "on_refusal"}
ASSUME ExchangeAssumption ==
  /\ OwnKeys \subseteq ExKeys /\ "none" \notin ExKeys
  /\ GroupOf \in [ExKeys -> STRING] /\ Short \subseteq SUBSET ExKeys
  /\ Base \in Nat \ {0, 1} /\ CurveOrder \in Seq(0 .. Base - 1)
  /\ XSecrets \subseteq [1 .. Len(CurveOrder) -> 0 .. Base - 1]
  /\ MaxExSets \in Nat /\ ExHabits \subseteq ExHabit

VARIABLES
  exch,     \* "ecdh", "dh", "ecx"
  agree,    \* wp_EcdhCtx, wp_DhCtx, wp_EcxCtx of each context
  hope,     \* what the program has asked of each
  cdh,      \* keys that have WC_ECC_FLAG_COFACTOR set
  raw,      \* the secret of a curve exchange, from wolfCrypt
  answer    \* the last answer of the provider, and the one due

exchVars == <<exch, agree, hope, cdh, raw, answer>>

Contexts == {1, 2}
ExCtxNew == [key |-> "none", peer |-> "none", opt |-> FALSE, kdf |-> "none",
             md |-> "none", mdName |-> "", ukm |-> "", len |-> 0]
NoHope == [key |-> "none", peer |-> "none", opt |-> FALSE, kdf |-> "none", md |-> "",
           ukm |-> "", len |-> 0, sets |-> 0, copied |-> FALSE]
NoAnswer == [got |-> <<>>, due |-> <<>>]

ExchInit ==
  /\ exch \in {"ecdh", "dh", "ecx"}
  /\ agree = [c \in Contexts |-> ExCtxNew] /\ hope = [c \in Contexts |-> NoHope]
  /\ cdh = {} /\ answer = NoAnswer
  /\ IF exch = "ecx" THEN raw \in XSecrets ELSE raw = <<>>

ExchIdle ==
  /\ exch = "none" /\ agree = <<>> /\ hope = <<>> /\ cdh = {} /\ raw = <<>> /\ answer = NoAnswer

------------------------------------------------------------------------------
(* Parameters, one at a time: the cofactor mode of ECDH or the padding of DH *)
(* (opt), and a KDF, its digest, key material and length.  The name of a     *)
(* digest is kept before the digest is looked up.                            *)
Accept(c) == [ok |-> TRUE, c |-> c]
Reject(c) == [ok |-> FALSE, c |-> c]

SetParamKdf(c, k) ==
  IF k \in {"none", "x963"} THEN Accept([c EXCEPT !.kdf = k]) ELSE Reject(c)

SetParamKdfDigest(c, m) ==
  IF m = "unknown" THEN Reject([c EXCEPT !.mdName = m, !.md = "none"])
  ELSE Accept([c EXCEPT !.mdName = m, !.md = m])

ExSettings ==
  [what : {"opt"}, to : BOOLEAN] \cup [what : {"kdf"}, to : {"none", "x963", "other"}]
  \cup [what : {"md"}, to : {"SHA256", "unknown"}] \cup [what : {"ukm"}, to : {"ukm"}]
  \cup [what : {"len"}, to : {16}]

SetExCtxParams(c, s) ==
  CASE s.what = "opt" -> Accept([c EXCEPT !.opt = s.to])
    [] s.what = "kdf" -> SetParamKdf(c, s.to)
    [] s.what = "md" -> SetParamKdfDigest(c, s.to)
    [] s.what = "len" -> Accept([c EXCEPT !.len = s.to])
    [] s.what = "ukm" -> Accept([c EXCEPT !.ukm = s.to])

GetParamsKdf(c) == c.kdf
GetExCtxParams(c) ==
  [opt |-> c.opt, kdf |-> GetParamsKdf(c), md |-> c.mdName, len |-> c.len, ukm |-> c.ukm]

(* A copy is without the name of the digest. *)
EcdhDup(c) == [c EXCEPT !.mdName = ""]
DhDup(c) == [c EXCEPT !.mdName = ""]
EcxDup(c) == [ExCtxNew EXCEPT !.key = c.key, !.peer = c.peer]
ExDup(c) == CASE exch = "ecdh" -> EcdhDup(c) [] exch = "dh" -> DhDup(c) [] exch = "ecx" -> EcxDup(c)

------------------------------------------------------------------------------
EcdhInit(c, k) == [c EXCEPT !.key = k, !.opt = FALSE]
DhInit(c, k) == [c EXCEPT !.key = k, !.opt = FALSE]
EcxExInit(c, k) == [c EXCEPT !.key = k]
ExInitOf(c, k) ==
  CASE exch = "ecdh" -> EcdhInit(c, k) [] exch = "dh" -> DhInit(c, k)
    [] exch = "ecx" -> EcxExInit(c, k)

(* libcrypto makes a context new for every init. *)
StartExchange(x, k) ==
  /\ exch # "none" /\ hope[x].key = "none"
  /\ agree' = [agree EXCEPT ![x] = ExInitOf(ExCtxNew, k)]
  /\ hope' = [hope EXCEPT ![x].key = k]
  /\ answer' = NoAnswer /\ UNCHANGED <<exch, cdh, raw>>

Usable(x) == exch # "none" /\ hope[x].key # "none"
MayGoOn == "on_refusal" \in ExHabits

(* Only DH looks at the group of the peer. *)
EcdhSetPeer(c, p) == Accept([c EXCEPT !.peer = p])
DhSetPeer(c, p) ==
  IF GroupOf[c.key] = GroupOf[p] THEN Accept([c EXCEPT !.peer = p]) ELSE Reject(c)
EcxSetPeer(c, p) == Accept([c EXCEPT !.peer = p])
SetPeerOf(c, p) ==
  CASE exch = "ecdh" -> EcdhSetPeer(c, p) [] exch = "dh" -> DhSetPeer(c, p)
    [] exch = "ecx" -> EcxSetPeer(c, p)

SetPeer(x, p) ==
  /\ Usable(x)
  /\ LET r == SetPeerOf(agree[x], p)
     IN /\ agree' = [agree EXCEPT ![x] = r.c]
        /\ hope' = IF r.ok THEN [hope EXCEPT ![x].peer = p] ELSE hope
  /\ answer' = NoAnswer /\ UNCHANGED <<exch, cdh, raw>>

(* A context that refuses a parameter is given up. *)
SetExchange(x, s) ==
  /\ Usable(x) /\ exch # "ecx" /\ hope[1].sets + hope[2].sets < MaxExSets
  /\ LET r == SetExCtxParams(agree[x], s)
         counted == [hope EXCEPT ![x].sets = @ + 1]
     IN IF r.ok
        THEN /\ agree' = [agree EXCEPT ![x] = r.c]
             /\ hope' = [counted EXCEPT ![x][s.what] = s.to]
        ELSE \/ /\ agree' = [agree EXCEPT ![x] = ExCtxNew]
                /\ hope' = [hope EXCEPT ![x] = [NoHope EXCEPT !.sets = counted[x].sets]]
             \/ MayGoOn /\ agree' = [agree EXCEPT ![x] = r.c] /\ hope' = counted
  /\ answer' = NoAnswer /\ UNCHANGED <<exch, cdh, raw>>

CopyExchange ==
  /\ Usable(1) /\ hope[2].key = "none"
  /\ agree' = [agree EXCEPT ![2] = ExDup(agree[1])]
  /\ hope' = [hope EXCEPT ![2] = [hope[1] EXCEPT !.copied = TRUE, !.sets = 0]]
  /\ answer' = NoAnswer /\ UNCHANGED <<exch, cdh, raw>>

------------------------------------------------------------------------------
(* A curve secret is brought below the order, digit by digit and without a   *)
(* branch, and turned around.                                                *)
N == Len(CurveOrder)
FromLast(s) ==
  LET carry[i \in 1 .. N + 1] ==
        IF i = N + 1 THEN 0 ELSE (carry[i + 1] + s[i] - CurveOrder[i]) \div Base
  IN [i \in 1 .. N |-> (carry[i + 1] + s[i] - CurveOrder[i]) % Base]

SameUpTo(s, i) == \A j \in 1 .. i : s[j] = CurveOrder[j]
Above(s) == \E i \in 1 .. N : SameUpTo(s, i - 1) /\ s[i] >= CurveOrder[i] + 1
Reverse(s) == [i \in 1 .. Len(s) |-> s[Len(s) + 1 - i]]

X25519DeriveAbove(s) == Reverse(IF Above(s) THEN FromLast(s) ELSE s)
X25519Derive(s) == Reverse(IF Above(s) \/ SameUpTo(s, N) THEN FromLast(s) ELSE s)

------------------------------------------------------------------------------
(* The secret: its pair, whether the cofactor is in it, and its length, with *)
(* the KDF it went through.  ECDH's is as long as its field; DH's loses its  *)
(* leading zero unless it is padded.                                         *)
Full == 32
Shared(k, p, cof, n) ==
  [pair |-> {k, p}, cof |-> cof, n |-> n, kdf |-> "none", md |-> "", ukm |-> "", len |-> n]
Through(s, md, ukm, len) == [s EXCEPT !.kdf = "x963", !.md = md, !.ukm = ukm, !.len = len]
Failed == Shared("none", "none", FALSE, 0)

HasCofactor(k) == GroupOf[k] \in Cofactors
EcdhDeriveSecret(c, flagged) ==
  IF GroupOf[c.key] # GroupOf[c.peer] THEN Failed
  ELSE Shared(c.key, c.peer, c.key \in flagged /\ HasCofactor(c.key), Full)

Trimmed(k, p) == IF {k, p} \in Short THEN Full - 1 ELSE Full
DhDeriveSecret(c, flagged) ==
  Shared(c.key, c.peer, FALSE, IF c.opt THEN Full ELSE Trimmed(c.key, c.peer))

(* wc_X963_KDF refuses no digest; the buffer is as long as the answer to a   *)
(* query for its length.                                                     *)
EcdhKdfDerive(c, s) == IF c.md = "none" THEN Failed ELSE Through(s, c.md, c.ukm, c.len)
DhKdfDerive(c, s) == IF c.md = "none" THEN Failed ELSE Through(s, c.md, c.ukm, c.len)

EcdhDerive(c, flagged) ==
  LET s == EcdhDeriveSecret(c, flagged)
  IN IF s = Failed \/ c.kdf = "none" THEN s ELSE EcdhKdfDerive(c, s)
DhDerive(c, flagged) ==
  LET s == DhDeriveSecret(c, flagged)
  IN IF c.kdf = "none" THEN s ELSE DhKdfDerive(c, s)

(* What the program is to get. *)
SecretOf(w) ==
  LET n == IF exch = "dh" /\ ~w.opt THEN Trimmed(w.key, w.peer) ELSE Full
      s == Shared(w.key, w.peer, exch = "ecdh" /\ w.opt /\ HasCofactor(w.key), n)
  IN IF GroupOf[w.key] # GroupOf[w.peer] \/ (w.kdf = "x963" /\ w.md = "") THEN Failed
     ELSE IF w.kdf = "x963" THEN Through(s, w.md, w.ukm, w.len) ELSE s

(* The flag of the cofactor stays in the key. *)
Derive(x) ==
  /\ Usable(x) /\ answer = NoAnswer /\ exch \in {"ecdh", "dh"} /\ agree[x].peer # "none"
  /\ agree[x].kdf = "x963" => agree[x].len > 0
  /\ cdh' = IF exch = "ecdh" /\ agree[x].opt THEN cdh \cup {agree[x].key} ELSE cdh
  /\ answer' = [got |-> <<IF exch = "ecdh" THEN EcdhDerive(agree[x], cdh')
                          ELSE DhDerive(agree[x], cdh')>>,
                due |-> <<SecretOf(hope[x])>>]
  /\ UNCHANGED <<exch, agree, hope, raw>>

(* X25519; X448 is turned around only. *)
ValueOf(s) == LET v[i \in 0 .. Len(s)] == IF i = 0 THEN 0 ELSE Base * v[i - 1] + s[i]
              IN v[Len(s)]
(* What wolfCrypt returns is a number of 255 bits, less than twice the order. *)
ASSUME CurveAssumption == \A s \in XSecrets : ValueOf(s) < 2 * ValueOf(CurveOrder)
DeriveCurve(x) ==
  /\ Usable(x) /\ answer = NoAnswer /\ exch = "ecx" /\ agree[x].peer # "none"
  /\ answer' = [got |-> <<agree[x].peer, ValueOf(Reverse(X25519Derive(raw)))>>,
                due |-> <<hope[x].peer, ValueOf(raw) % ValueOf(CurveOrder)>>]
  /\ UNCHANGED <<exch, agree, hope, cdh, raw>>

Ask(x) ==
  /\ Usable(x) /\ answer = NoAnswer /\ exch # "ecx"
  /\ hope[x].copied => "ask_copy" \in ExHabits
  /\ answer' = [got |-> <<GetExCtxParams(agree[x])>>,
                due |-> <<[opt |-> hope[x].opt, kdf |-> hope[x].kdf, md |-> hope[x].md,
                           len |-> hope[x].len, ukm |-> hope[x].ukm]>>]
  /\ UNCHANGED <<exch, agree, hope, cdh, raw>>

ExchNext ==
  \/ \E x \in Contexts, k \in OwnKeys : StartExchange(x, k)
  \/ \E x \in Contexts, k \in ExKeys : SetPeer(x, k)
  \/ \E x \in Contexts, s \in ExSettings : SetExchange(x, s)
  \/ \E x \in Contexts : Derive(x) \/ DeriveCurve(x) \/ Ask(x)
  \/ CopyExchange

ExchSpec == ExchInit /\ [][ExchNext]_exchVars

------------------------------------------------------------------------------
(* A derivation gives the secret of the context's own key and the peer it    *)
(* was given last, padded, with the cofactor and through the KDF as the      *)
(* program asked, whichever contexts share the key or were copied from one   *)
(* another; a curve secret is reduced; and a context reports what was asked. *)
SecretAsAsked == answer.got = answer.due
==============================================================================
