------------------------------ MODULE WpKeyRef ------------------------------
(***************************************************************************)
(* Key objects shared by threads: the reference counts of wp_rsa_kmgmt.c,  *)
(* wp_ecc_kmgmt.c, wp_ecx_kmgmt.c and wp_dh_kmgmt.c, and the contexts of   *)
(* the signature, asymmetric cipher, KEM and exchange operations, which    *)
(* take and drop references.                                               *)
(*                                                                         *)
(* A key is named by its address, a reference by the place that holds it:  *)
(* a field of a context, the EVP_PKEY of libcrypto, or a local of the      *)
(* thread that has called up_ref and not yet stored the pointer.           *)
(***************************************************************************)
EXTENDS Naturals, FiniteSets

CONSTANTS
  Thread,      \* the threads of the application
  Key,         \* the addresses of key objects
  Ctx,         \* the addresses of operation contexts
  NoKey, NoCtx, NoThread,
  Casts,       \* the ways to say which kind lives at each address
  MaxCalls     \* bound: the calls the program makes in all

KeyKind == {"rsa", "rsa_pss", "ecc", "ecx", "dh_key"}
Exchange == {"ecdh", "dh", "xdh"}
RefFirst == {"rsa_sig", "ecdsa", "eddsa"}
CtxKind == Exchange \cup RefFirst \cup {"rsa_asym", "rsa_kem"}

Place == (Ctx \X {"key", "peer"}) \cup (Key \X {"evp"}) \cup (Thread \X {"local"})
KeyOf(c) == <<c, "key">>
PeerOf(c) == <<c, "peer">>
Evp(k) == <<k, "evp">>
Local(t) == <<t, "local">>

ASSUME KeyRefAssumption ==
  /\ IsFiniteSet(Thread) /\ IsFiniteSet(Key) /\ IsFiniteSet(Ctx)
  /\ Key \cap Ctx = {}
  /\ NoKey \notin Key /\ NoCtx \notin Ctx /\ NoThread \notin Thread
  /\ Casts \subseteq [Key \cup Ctx -> KeyKind \cup CtxKind]
  /\ MaxCalls \in Nat

VARIABLES
  kind,        \* what lives at each address, when something does
  made,        \* the keys and contexts that are allocated
  refCnt,      \* refCnt[k]: the count of the key
  mutex,       \* mutex[k]: the thread that holds its mutex
  holds,       \* holds[p]: the key that place p refers to
  ready,       \* the contexts whose last init answered 1
  keyRng,      \* keyRng[k]: the context whose generator RsaKey.rng points to
  calls,       \* the calls begun
  pc, call,    \* where each thread stands, in which call
  ctx, src,    \* on which context; the source of a dup, or the context again
  want,        \* the key the call is about
  target,      \* the place being emptied or filled
  mode,        \* what the mutex is taken for
  arg,         \* the key whose mutex it is
  cnt,         \* the count that was read
  rng          \* the context whose generator a decryption uses

keyVars == <<made, refCnt, mutex, holds, keyRng>>
locals == <<ctx, src, want, target, mode, arg, cnt, rng>>
vars == <<kind, keyVars, ready, calls, pc, call, locals>>

Holders(k) == {p \in Place : holds[p] = k}

LocalTypeOK ==
  /\ pc \in [Thread -> {"idle", "ref", "release", "lock", "get", "put", "unlock",
                        "destroy", "keep", "params", "gone", "sign", "take",
                        "decrypt", "clear"}]
  /\ call \in [Thread -> {"none", "drop", "init", "peer", "dup", "free", "sign",
                          "decrypt"}]
  /\ ctx \in [Thread -> Ctx \cup {NoCtx}] /\ src \in [Thread -> Ctx \cup {NoCtx}]
  /\ want \in [Thread -> Key \cup {NoKey}] /\ arg \in [Thread -> Key \cup {NoKey}]
  /\ target \in [Thread -> Place]
  /\ mode \in [Thread -> {"up", "down", "sign"}]
  /\ cnt \in [Thread -> Nat] /\ rng \in [Thread -> Ctx \cup {NoCtx}]

TypeOK ==
  /\ kind \in Casts /\ made \subseteq Key \cup Ctx /\ ready \subseteq made \cap Ctx
  /\ refCnt \in [Key -> Nat] /\ mutex \in [Key -> Thread \cup {NoThread}]
  /\ holds \in [Place -> Key \cup {NoKey}] /\ keyRng \in [Key -> Ctx \cup {NoCtx}]
  /\ calls \in 0 .. MaxCalls
  /\ LocalTypeOK

(* Every key belongs to an EVP_PKEY, every context is new. *)
Init ==
  /\ kind \in Casts /\ made = Key \cup Ctx /\ ready = {}
  /\ refCnt = [k \in Key |-> 1] /\ mutex = [k \in Key |-> NoThread]
  /\ holds = [p \in Place |-> IF p \in Key \X {"evp"} THEN p[1] ELSE NoKey]
  /\ keyRng = [k \in Key |-> NoCtx] /\ calls = 0
  /\ pc = [t \in Thread |-> "idle"] /\ call = [t \in Thread |-> "none"]
  /\ ctx = [t \in Thread |-> NoCtx] /\ src = [t \in Thread |-> NoCtx]
  /\ want = [t \in Thread |-> NoKey] /\ arg = [t \in Thread |-> NoKey]
  /\ target = [t \in Thread |-> Local(t)] /\ mode = [t \in Thread |-> "up"]
  /\ cnt = [t \in Thread |-> 0] /\ rng = [t \in Thread |-> NoCtx]

Goto(t, where) == pc' = [pc EXCEPT ![t] = where]

(* A call returns: its locals are gone. *)
Leave(t) ==
  /\ Goto(t, "idle") /\ call' = [call EXCEPT ![t] = "none"]
  /\ ctx' = [ctx EXCEPT ![t] = NoCtx] /\ src' = [src EXCEPT ![t] = NoCtx]
  /\ want' = [want EXCEPT ![t] = NoKey] /\ arg' = [arg EXCEPT ![t] = NoKey]
  /\ target' = [target EXCEPT ![t] = Local(t)] /\ mode' = [mode EXCEPT ![t] = "up"]
  /\ cnt' = [cnt EXCEPT ![t] = 0] /\ rng' = [rng EXCEPT ![t] = NoCtx]

------------------------------------------------------------------------------
(* The calls of libcrypto.  It lets one thread at a time into a context,    *)
(* and the EVP_PKEY a call is given outlives the call.                      *)
Inside(c) == \E t \in Thread : call[t] # "none" /\ c \in {ctx[t], src[t]}
Given(k) == \E t \in Thread : call[t] \in {"init", "peer", "drop"} /\ want[t] = k

Enter(t, what, c, from, k, place, first) ==
  /\ pc[t] = "idle" /\ calls < MaxCalls
  /\ calls' = calls + 1
  /\ call' = [call EXCEPT ![t] = what]
  /\ ctx' = [ctx EXCEPT ![t] = c] /\ src' = [src EXCEPT ![t] = from]
  /\ want' = [want EXCEPT ![t] = k]
  /\ target' = [target EXCEPT ![t] = place]
  /\ Goto(t, first)
  /\ UNCHANGED <<kind, cnt, rng>>

Unshared == UNCHANGED <<refCnt, mutex, holds, keyRng, mode, arg>>

(* wp_rsa_base_new and its kin; a failure leaves nothing behind. *)
NewKey(t, k) ==
  /\ pc[t] = "idle" /\ calls < MaxCalls /\ k \notin made
  /\ calls' = calls + 1
  /\ made' = made \cup {k}
  /\ refCnt' = [refCnt EXCEPT ![k] = 1]
  /\ holds' = [holds EXCEPT ![Evp(k)] = k]
  /\ keyRng' = [keyRng EXCEPT ![k] = NoCtx]
  /\ UNCHANGED <<kind, mutex, ready, pc, call, locals>>

NewCtx(t, c) ==
  /\ pc[t] = "idle" /\ calls < MaxCalls /\ c \notin made
  /\ calls' = calls + 1
  /\ made' = made \cup {c}
  /\ UNCHANGED <<kind, refCnt, mutex, holds, keyRng, ready, pc, call, locals>>

(* The EVP_PKEY lets go of the key: OSSL_FUNC_keymgmt_free. *)
Drop(t, k) ==
  /\ holds[Evp(k)] = k /\ ~Given(k)
  /\ Enter(t, "drop", NoCtx, NoCtx, k, Evp(k), "release")
  /\ Unshared /\ UNCHANGED <<made, ready>>

FreeCtx(t, c) ==
  /\ c \in made /\ ~Inside(c)
  /\ Enter(t, "free", c, c, NoKey, PeerOf(c), "release")
  /\ Unshared /\ UNCHANGED <<made, ready>>

Usable(k, kinds) ==
  /\ holds[Evp(k)] = k /\ kind[k] \in kinds
  /\ \A t \in Thread : ~(call[t] = "drop" /\ want[t] = k)

(* A context whose init failed is only freed. *)
Startable(c) == c \in made /\ ~Inside(c) /\ (c \in ready \/ holds[KeyOf(c)] = NoKey)

(* Take the new reference, then drop the one the context has. *)
RefThenFree(t, c, k) ==
  /\ Startable(c)
  /\ Enter(t, "init", c, c, k, KeyOf(c), "ref")
  /\ Unshared /\ UNCHANGED <<made, ready>>

RsaSigInit(t, c, k) ==
  kind[c] = "rsa_sig" /\ Usable(k, {"rsa", "rsa_pss"}) /\ RefThenFree(t, c, k)
EcdsaInit(t, c, k) == kind[c] = "ecdsa" /\ Usable(k, {"ecc"}) /\ RefThenFree(t, c, k)
EcxSigInit(t, c, k) == kind[c] = "eddsa" /\ Usable(k, {"ecx"}) /\ RefThenFree(t, c, k)

(* Unless it is the same key: drop what the context has, then take the new  *)
(* reference.                                                               *)
FreeThenRef(t, what, c, k, place) ==
  /\ Startable(c)
  /\ Enter(t, what, c, c, k, place,
           IF holds[place] = k THEN "params" ELSE "release")
  /\ Unshared /\ UNCHANGED <<made, ready>>

RsaAsymInit(t, c, k) ==
  /\ kind[c] = "rsa_asym" /\ Usable(k, {"rsa"})
  /\ FreeThenRef(t, "init", c, k, KeyOf(c))
RsaKemInit(t, c, k) ==
  /\ kind[c] = "rsa_kem" /\ Usable(k, {"rsa", "rsa_pss"})
  /\ FreeThenRef(t, "init", c, k, KeyOf(c))
EcdhInit(t, c, k) ==
  kind[c] = "ecdh" /\ Usable(k, {"ecc"}) /\ FreeThenRef(t, "init", c, k, KeyOf(c))
DhInit(t, c, k) ==
  kind[c] = "dh" /\ Usable(k, {"dh_key"}) /\ FreeThenRef(t, "init", c, k, KeyOf(c))
XdhInit(t, c, k) ==
  kind[c] = "xdh" /\ Usable(k, {"ecx"}) /\ FreeThenRef(t, "init", c, k, KeyOf(c))

(* wp_rsaa_init refuses a PSS key before it touches the one it has. *)
RsaAsymRefuses(t, c, k) ==
  /\ pc[t] = "idle" /\ calls < MaxCalls /\ Startable(c)
  /\ kind[c] = "rsa_asym" /\ Usable(k, {"rsa_pss"})
  /\ calls' = calls + 1
  /\ ready' = ready \ {c}
  /\ UNCHANGED <<kind, keyVars, pc, call, locals>>

Set(c) == c \in ready /\ holds[KeyOf(c)] # NoKey

SetPeer(t, c, k) ==
  /\ kind[c] \in Exchange /\ Set(c) /\ Usable(k, {kind[holds[KeyOf(c)]]})
  /\ holds[PeerOf(c)] # k
  /\ FreeThenRef(t, "peer", c, k, PeerOf(c))

(* The dup of a context: allocated, then one reference after another. *)
DupCtx(t, c, d) ==
  /\ Set(c) /\ ~Inside(c) /\ d \notin made /\ kind[d] = kind[c]
  /\ Enter(t, "dup", d, c, holds[KeyOf(c)], KeyOf(d), "ref")
  /\ made' = made \cup {d}
  /\ Unshared /\ UNCHANGED ready

(* ECDSA and EdDSA signing keep the mutex of the key while they sign. *)
Sign(t, c) ==
  /\ kind[c] \in {"ecdsa", "eddsa"} /\ Set(c) /\ ~Inside(c)
  /\ Enter(t, "sign", c, c, holds[KeyOf(c)], KeyOf(c), "lock")
  /\ mode' = [mode EXCEPT ![t] = "sign"]
  /\ arg' = [arg EXCEPT ![t] = holds[KeyOf(c)]]
  /\ UNCHANGED <<keyVars, ready>>

(* wp_rsaa_decrypt, from wc_RsaSetRNG on: RsaKey.rng is set without a lock. *)
Decrypt(t, c) ==
  LET k == holds[KeyOf(c)] IN
  /\ kind[c] = "rsa_asym" /\ Set(c) /\ ~Inside(c)
  /\ Enter(t, "decrypt", c, c, k, KeyOf(c), "take")
  /\ keyRng' = [keyRng EXCEPT ![k] = c]
  /\ UNCHANGED <<made, refCnt, mutex, holds, ready, mode, arg>>

------------------------------------------------------------------------------
(* up_ref and free, under the mutex of the key.                             *)
LockedRegion == UNCHANGED <<kind, made, ready, calls, ctx, src, want, target, rng>>

Ref(t) ==
  /\ pc[t] = "ref"
  /\ mode' = [mode EXCEPT ![t] = "up"] /\ arg' = [arg EXCEPT ![t] = want[t]]
  /\ Goto(t, "lock")
  /\ LockedRegion /\ UNCHANGED <<refCnt, mutex, holds, keyRng, call, cnt>>

(* wp_*_free of what the place holds, and what comes after. *)
Release(t) ==
  /\ pc[t] = "release"
  /\ IF holds[target[t]] # NoKey
     THEN /\ mode' = [mode EXCEPT ![t] = "down"]
          /\ arg' = [arg EXCEPT ![t] = holds[target[t]]]
          /\ Goto(t, "lock")
          /\ UNCHANGED <<call, ctx, src, want, target, cnt, rng>>
     ELSE \/ call[t] = "drop" /\ Leave(t)
          \/ /\ call[t] = "free" /\ target[t] = PeerOf(ctx[t])
             /\ target' = [target EXCEPT ![t] = KeyOf(ctx[t])]
             /\ UNCHANGED <<pc, call, ctx, src, want, mode, arg, cnt, rng>>
          \/ /\ call[t] = "free" /\ target[t] = KeyOf(ctx[t])
             /\ Goto(t, "gone") /\ UNCHANGED <<call, locals>>
          \/ /\ call[t] \in {"init", "peer"}
             /\ Goto(t, IF kind[ctx[t]] \in RefFirst THEN "keep" ELSE "ref")
             /\ UNCHANGED <<call, locals>>
  /\ UNCHANGED <<kind, keyVars, ready, calls>>

LockUnguarded(t) ==
  /\ pc[t] = "lock"
  /\ mutex' = [mutex EXCEPT ![arg[t]] = t]
  /\ Goto(t, IF mode[t] = "sign" THEN "sign" ELSE "get")
  /\ LockedRegion /\ UNCHANGED <<refCnt, holds, keyRng, call, mode, arg, cnt>>

Lock(t) ==
  /\ pc[t] = "lock" /\ mutex[arg[t]] = NoThread
  /\ mutex' = [mutex EXCEPT ![arg[t]] = t]
  /\ Goto(t, IF mode[t] = "sign" THEN "sign" ELSE "get")
  /\ LockedRegion /\ UNCHANGED <<refCnt, holds, keyRng, call, mode, arg, cnt>>

(* An up_ref or a signature that cannot lock fails.  wp_rsakem_init alone   *)
(* goes on to its parameters; a dup frees its half-made copy.               *)
LockFails(t) ==
  /\ pc[t] = "lock" /\ mode[t] \in {"up", "sign"}
  /\ CASE call[t] = "dup" ->
            /\ call' = [call EXCEPT ![t] = "free"]
            /\ target' = [target EXCEPT ![t] = PeerOf(ctx[t])]
            /\ Goto(t, "release")
            /\ UNCHANGED <<ready, ctx, src, want, mode, arg, cnt, rng>>
       [] call[t] = "init" /\ kind[ctx[t]] = "rsa_kem" ->
            Goto(t, "params") /\ UNCHANGED <<call, ready, locals>>
       [] call[t] = "init" /\ kind[ctx[t]] # "rsa_kem" ->
            Leave(t) /\ ready' = ready \ {ctx[t]}
       [] OTHER -> Leave(t) /\ UNCHANGED ready
  /\ UNCHANGED <<kind, keyVars, calls>>

Get(t) ==
  /\ pc[t] = "get"
  /\ cnt' = [cnt EXCEPT ![t] = refCnt[arg[t]]]
  /\ Goto(t, "put")
  /\ LockedRegion /\ UNCHANGED <<refCnt, mutex, holds, keyRng, call, mode, arg>>

Put(t) ==
  /\ pc[t] = "put"
  /\ IF mode[t] = "up"
     THEN /\ refCnt' = [refCnt EXCEPT ![arg[t]] = cnt[t] + 1]
          /\ holds' = [holds EXCEPT ![Local(t)] = arg[t]]
     ELSE /\ refCnt' = [refCnt EXCEPT ![arg[t]] = cnt[t] - 1]
          /\ holds' = [holds EXCEPT ![target[t]] = NoKey]
  /\ Goto(t, "unlock")
  /\ LockedRegion /\ UNCHANGED <<mutex, keyRng, call, mode, arg, cnt>>

UnlockDisposesEarly(t) ==
  /\ pc[t] = "unlock"
  /\ mutex' = [mutex EXCEPT ![arg[t]] = NoThread]
  /\ IF mode[t] = "sign" THEN Leave(t)
     ELSE /\ Goto(t, IF mode[t] = "down" THEN IF cnt[t] <= 2 THEN "destroy" ELSE "release"
                     ELSE IF call[t] = "init" /\ kind[ctx[t]] \in RefFirst
                     THEN "release" ELSE "keep")
          /\ UNCHANGED <<call, locals>>
  /\ UNCHANGED <<kind, made, refCnt, holds, keyRng, ready, calls>>

(* Whoever brought the count to zero disposes of the key. *)
Unlock(t) ==
  /\ pc[t] = "unlock"
  /\ mutex' = [mutex EXCEPT ![arg[t]] = NoThread]
  /\ CASE mode[t] = "sign" -> Leave(t)
       [] mode[t] = "down" ->
            /\ Goto(t, IF cnt[t] = 1 THEN "destroy" ELSE "release")
            /\ UNCHANGED <<call, locals>>
       [] mode[t] = "up" ->
            /\ Goto(t, IF call[t] = "init" /\ kind[ctx[t]] \in RefFirst
                       THEN "release" ELSE "keep")
            /\ UNCHANGED <<call, locals>>
  /\ UNCHANGED <<kind, made, refCnt, holds, keyRng, ready, calls>>

Destroy(t) ==
  /\ pc[t] = "destroy"
  /\ made' = made \ {arg[t]}
  /\ Goto(t, "release")
  /\ UNCHANGED <<kind, refCnt, mutex, holds, keyRng, ready, calls, call, locals>>

(* The pointer is stored; a dup goes on with the peer. *)
Keep(t) ==
  /\ pc[t] = "keep"
  /\ holds' = [holds EXCEPT ![target[t]] = holds[Local(t)], ![Local(t)] = NoKey]
  /\ IF call[t] = "dup" /\ target[t] = KeyOf(ctx[t]) /\ holds[PeerOf(src[t])] # NoKey
     THEN /\ want' = [want EXCEPT ![t] = holds[PeerOf(src[t])]]
          /\ target' = [target EXCEPT ![t] = PeerOf(ctx[t])]
          /\ Goto(t, "ref")
     ELSE Goto(t, "params") /\ UNCHANGED <<want, target>>
  /\ UNCHANGED <<kind, made, refCnt, mutex, keyRng, ready, calls, call, ctx, src,
                 mode, arg, cnt, rng>>

------------------------------------------------------------------------------
(* The rest of a call that can still fail: the parameters of an init, the   *)
(* keying material a dup copies.                                            *)
Succeed(t) ==
  /\ pc[t] = "params"
  /\ ready' = IF call[t] \in {"init", "dup"} THEN ready \cup {ctx[t]} ELSE ready
  /\ Leave(t)
  /\ UNCHANGED <<kind, keyVars, calls>>

InitFails(t) ==
  /\ pc[t] = "params" /\ call[t] = "init" /\ kind[ctx[t]] \notin {"eddsa", "xdh"}
  /\ ready' = ready \ {ctx[t]}
  /\ Leave(t)
  /\ UNCHANGED <<kind, keyVars, calls>>

DupFails(t) ==
  /\ pc[t] = "params" /\ call[t] = "dup" /\ kind[ctx[t]] \in {"ecdh", "dh"}
  /\ call' = [call EXCEPT ![t] = "free"]
  /\ target' = [target EXCEPT ![t] = PeerOf(ctx[t])]
  /\ Goto(t, "release")
  /\ UNCHANGED <<kind, keyVars, ready, calls, ctx, src, want, mode, arg, cnt, rng>>

Gone(t) ==
  /\ pc[t] = "gone"
  /\ made' = made \ {ctx[t]} /\ ready' = ready \ {ctx[t]}
  /\ Leave(t)
  /\ UNCHANGED <<kind, refCnt, mutex, holds, keyRng, calls>>

(* Signed, and on to the unlock. *)
Signed(t) ==
  /\ pc[t] = "sign"
  /\ Goto(t, "unlock")
  /\ LockedRegion /\ UNCHANGED <<refCnt, mutex, holds, keyRng, call, mode, arg, cnt>>

(* wolfCrypt loads RsaKey.rng, and fails when it is NULL. *)
TakeRng(t) ==
  /\ pc[t] = "take"
  /\ rng' = [rng EXCEPT ![t] = keyRng[want[t]]]
  /\ Goto(t, IF keyRng[want[t]] = NoCtx THEN "clear" ELSE "decrypt")
  /\ UNCHANGED <<kind, keyVars, ready, calls, call, ctx, src, want, target, mode, arg, cnt>>

Decrypted(t) ==
  /\ pc[t] = "decrypt"
  /\ rng' = [rng EXCEPT ![t] = NoCtx]
  /\ Goto(t, "clear")
  /\ UNCHANGED <<kind, keyVars, ready, calls, call, ctx, src, want, target, mode, arg, cnt>>

ClearNothing(t) ==
  /\ pc[t] = "clear"
  /\ Leave(t)
  /\ UNCHANGED <<kind, keyVars, ready, calls>>

ClearRng(t) ==
  /\ pc[t] = "clear"
  /\ keyRng' = [keyRng EXCEPT ![want[t]] = NoCtx]
  /\ Leave(t)
  /\ UNCHANGED <<kind, made, refCnt, mutex, holds, ready, calls>>

Calls(t) ==
  \/ \E k \in Key : NewKey(t, k) \/ Drop(t, k)
  \/ \E c \in Ctx : NewCtx(t, c) \/ FreeCtx(t, c) \/ Sign(t, c) \/ Decrypt(t, c)
  \/ \E c, d \in Ctx : DupCtx(t, c, d)
  \/ \E c \in Ctx, k \in Key :
       \/ RsaSigInit(t, c, k) \/ EcdsaInit(t, c, k) \/ EcxSigInit(t, c, k)
       \/ RsaAsymInit(t, c, k) \/ RsaAsymRefuses(t, c, k) \/ RsaKemInit(t, c, k)
       \/ EcdhInit(t, c, k) \/ DhInit(t, c, k) \/ XdhInit(t, c, k)
       \/ SetPeer(t, c, k)

Next ==
  \E t \in Thread :
    \/ Calls(t)
    \/ Ref(t) \/ Release(t) \/ Lock(t) \/ LockFails(t) \/ Get(t) \/ Put(t)
    \/ Unlock(t) \/ Destroy(t) \/ Keep(t)
    \/ Succeed(t) \/ InitFails(t) \/ DupFails(t) \/ Gone(t)
    \/ Signed(t) \/ TakeRng(t) \/ Decrypted(t) \/ ClearRng(t)

Spec == Init /\ [][Next]_vars

------------------------------------------------------------------------------
(* refCnt of a key is the number of places that refer to it, whatever calls *)
(* run, fail or overlap.                                                     *)
CountExact == \A k \in Key \cap made : refCnt[k] = Cardinality(Holders(k))

(* A key that a place refers to, or that a thread works on, is allocated; a  *)
(* key nothing refers to is being disposed of, by one thread, with its mutex *)
(* free.                                                                     *)
Works(t) == pc[t] \in {"lock", "get", "put", "unlock", "sign", "destroy"}
Disposes(t, k) ==
  /\ arg[t] = k
  /\ \/ pc[t] = "destroy"
     \/ pc[t] = "unlock" /\ mode[t] = "down" /\ cnt[t] = 1
LifeTime ==
  /\ \A p \in Place : holds[p] # NoKey => holds[p] \in made
  /\ \A t \in Thread : Works(t) => arg[t] \in made
  /\ \A t \in Thread : pc[t] = "destroy" => mutex[arg[t]] = NoThread
  /\ \A k \in Key \cap made : Holders(k) = {} => \E t \in Thread : Disposes(t, k)
  /\ \A t, u \in Thread : \A k \in Key :
       Disposes(t, k) /\ Disposes(u, k) => t = u

(* RsaKey.rng never outlives the decryption that set it, so that it never    *)
(* points into a context that may be gone.                                   *)
KeyRngInUse ==
  \A k \in Key : keyRng[k] # NoCtx =>
    \E t \in Thread : call[t] = "decrypt" /\ ctx[t] = keyRng[k] /\ want[t] = k
==============================================================================
