--------------------------- MODULE WpKeyRef_proofs ---------------------------
(***************************************************************************)
(* What holds of the reference counts of key objects for any threads, keys *)
(* and operation contexts, any assignment of kinds to them and any number  *)
(* of calls: the count is exact, a key lives as long as it is referred to  *)
(* and is disposed of once, and RsaKey.rng does not outlive its use.       *)
(***************************************************************************)
EXTENDS WpKeyRef, FiniteSetTheorems, TLAPS

AtMutex(t) == pc[t] \in {"lock", "get", "put", "unlock"}
Raises(t) == pc[t] = "ref" \/ (AtMutex(t) /\ mode[t] = "up")
Lowers(t) == AtMutex(t) /\ mode[t] = "down"
RefsFirst(t) == call[t] = "init" /\ kind[ctx[t]] \in RefFirst

(* The call a thread is in says where it can stand, and on what. *)
CallAtPc ==
  \A t \in Thread :
    /\ pc[t] = "idle" <=> call[t] = "none"
    /\ call[t] = "drop" =>
         /\ ctx[t] = NoCtx /\ src[t] = NoCtx
         /\ want[t] \in Key /\ target[t] = Evp(want[t])
         /\ pc[t] \in {"release", "destroy"} \/ Lowers(t)
    /\ call[t] \in {"init", "peer"} =>
         /\ ctx[t] \in Ctx /\ src[t] = ctx[t] /\ want[t] \in Key
         /\ target[t] = IF call[t] = "init" THEN KeyOf(ctx[t]) ELSE PeerOf(ctx[t])
         /\ call[t] = "peer" => kind[ctx[t]] \notin RefFirst
         /\ pc[t] \in {"release", "destroy", "keep", "params"} \/ Raises(t) \/ Lowers(t)
    /\ call[t] = "dup" =>
         /\ ctx[t] \in Ctx /\ src[t] \in Ctx /\ ctx[t] # src[t] /\ want[t] \in Key
         /\ target[t] \in {KeyOf(ctx[t]), PeerOf(ctx[t])}
         /\ pc[t] \in {"keep", "params"} \/ Raises(t)
    /\ call[t] = "free" =>
         /\ ctx[t] \in Ctx /\ src[t] \in Ctx
         /\ target[t] \in {KeyOf(ctx[t]), PeerOf(ctx[t])}
         /\ pc[t] \in {"release", "destroy", "gone"} \/ Lowers(t)
         /\ pc[t] = "gone" => target[t] = KeyOf(ctx[t])
    /\ call[t] = "sign" =>
         /\ ctx[t] \in Ctx /\ src[t] = ctx[t] /\ want[t] \in Key
         /\ arg[t] = want[t] /\ mode[t] = "sign" /\ pc[t] \in {"lock", "sign", "unlock"}
    /\ call[t] = "decrypt" =>
         /\ ctx[t] \in Ctx /\ src[t] = ctx[t] /\ want[t] \in Key
         /\ pc[t] \in {"take", "decrypt", "clear"}
    /\ Works(t) => arg[t] \in Key
    /\ Raises(t) /\ pc[t] # "ref" => arg[t] = want[t]

(* Two calls are not about one context, nor about one EVP_PKEY that either   *)
(* of them lets go of; and the contexts they are about exist.                *)
Exclusive ==
  /\ \A t, u \in Thread :
       t # u /\ call[t] # "none" /\ call[u] # "none" =>
         /\ {ctx[t], src[t]} \cap {ctx[u], src[u]} \subseteq {NoCtx}
         /\ call[t] = "drop" /\ call[u] \in {"init", "peer", "drop"} => want[t] # want[u]
  /\ \A t \in Thread : call[t] # "none" => {ctx[t], src[t]} \subseteq made \cup {NoCtx}

(* References are to keys that exist; a context that does not has none. *)
HoldsMade ==
  /\ \A k \in Key : holds[Evp(k)] \in {k, NoKey}
  /\ \A c \in Ctx \ made : holds[KeyOf(c)] = NoKey /\ holds[PeerOf(c)] = NoKey
  /\ \A p \in Place : holds[p] # NoKey => holds[p] \in made

(* The reference that vouches for the key a thread works on, and what the    *)
(* thread knows of the places of its context.                                *)
VouchedAt(t) ==
  /\ call[t] \in {"init", "peer"} => holds[Evp(want[t])] = want[t]
  /\ call[t] = "dup" /\ Raises(t) =>
       want[t] = holds[IF target[t] = KeyOf(ctx[t]) THEN KeyOf(src[t]) ELSE PeerOf(src[t])]
  /\ call[t] \in {"sign", "decrypt"} => want[t] = holds[KeyOf(ctx[t])]
  /\ Lowers(t) /\ pc[t] # "unlock" => holds[target[t]] = arg[t]
  /\ call[t] = "free" /\ target[t] = KeyOf(ctx[t]) => holds[PeerOf(ctx[t])] = NoKey
  /\ pc[t] = "gone" => holds[KeyOf(ctx[t])] = NoKey
  /\ call[t] = "dup" /\ target[t] = KeyOf(ctx[t]) /\ pc[t] # "params" =>
       holds[PeerOf(ctx[t])] = NoKey

Vouched == \A t \in Thread : VouchedAt(t)

(* The reference of the local variable that up_ref has filled. *)
HasLocal(t) ==
  \/ pc[t] = "keep"
  \/ pc[t] = "unlock" /\ mode[t] = "up"
  \/ RefsFirst(t) /\ (pc[t] \in {"release", "destroy"} \/ Lowers(t))

LocalsAt(t) ==
  /\ holds[Local(t)] = IF HasLocal(t) THEN want[t] ELSE NoKey
  /\ pc[t] = "keep" \/ (Raises(t) /\ ~RefsFirst(t)) => holds[target[t]] = NoKey

Locals == \A t \in Thread : LocalsAt(t)

(* A mutex is held by the thread that is at its key. *)
MutexHeld ==
  \A k \in Key, t \in Thread :
    mutex[k] = t <=> arg[t] = k /\ pc[t] \in {"get", "put", "unlock", "sign"}

(* The count a thread has read stays what it was until the thread unlocks. *)
CountRead ==
  \A t \in Thread :
    /\ pc[t] = "put" => cnt[t] = refCnt[arg[t]]
    /\ pc[t] = "unlock" /\ mode[t] = "down" =>
         arg[t] \in made /\ cnt[t] = refCnt[arg[t]] + 1

(* Who takes the count to zero is alone with the key, and there is always    *)
(* somebody to dispose of a key without references.                          *)
Disposal ==
  /\ \A t \in Thread, k \in Key : Disposes(t, k) => k \in made /\ Holders(k) = {}
  /\ \A t, u \in Thread, k \in Key : Disposes(t, k) /\ Disposes(u, k) => t = u
  /\ \A k \in Key \cap made : Holders(k) = {} => \E t \in Thread : Disposes(t, k)

IInv ==
  /\ TypeOK /\ CallAtPc /\ Exclusive
  /\ HoldsMade /\ Vouched /\ Locals
  /\ MutexHeld /\ CountRead /\ CountExact /\ Disposal
  /\ KeyRngInUse

------------------------------------------------------------------------------
(* Places: no two are confused. *)
LEMMA PlacesDiffer ==
  /\ \A c \in Ctx : KeyOf(c) \in Place /\ PeerOf(c) \in Place
  /\ \A k \in Key : Evp(k) \in Place
  /\ \A t \in Thread : Local(t) \in Place
  /\ \A c, d : /\ KeyOf(c) = KeyOf(d) => c = d
               /\ PeerOf(c) = PeerOf(d) => c = d
               /\ Evp(c) = Evp(d) => c = d
               /\ Local(c) = Local(d) => c = d
               /\ KeyOf(c) # PeerOf(d) /\ KeyOf(c) # Evp(d) /\ KeyOf(c) # Local(d)
               /\ PeerOf(c) # Evp(d) /\ PeerOf(c) # Local(d) /\ Evp(c) # Local(d)
BY DEF Place, KeyOf, PeerOf, Evp, Local

LEMMA PlaceFinite == IsFiniteSet(Place)
<1>1. IsFiniteSet({"key", "peer"}) /\ IsFiniteSet({"evp"}) /\ IsFiniteSet({"local"})
  <2>1. \A x : IsFiniteSet({x})
    BY FS_Singleton
  <2>2. {"key", "peer"} = {"key"} \cup {"peer"}
    OBVIOUS
  <2>3. IsFiniteSet({"key"} \cup {"peer"})
    BY <2>1, FS_Union
  <2>4. QED
    BY <2>1, <2>2, <2>3
<1>2. /\ IsFiniteSet(Ctx \X {"key", "peer"}) /\ IsFiniteSet(Key \X {"evp"})
      /\ IsFiniteSet(Thread \X {"local"})
  BY <1>1, FS_Product, KeyRefAssumption
<1>3. QED
  BY <1>2, FS_Union DEF Place

(* The holders of a key are finitely many. *)
LEMMA HoldersFinite ==
  ASSUME NEW k
  PROVE  IsFiniteSet(Holders(k)) /\ Cardinality(Holders(k)) \in Nat
BY PlaceFinite, FS_Subset, FS_CardinalityType DEF Holders

(* What the calls of libcrypto have in common, whatever the kind of context. *)
EvpUsable(k) ==
  /\ holds[Evp(k)] = k
  /\ \A t \in Thread : ~(call[t] = "drop" /\ want[t] = k)

RefInit(t, c, k) == kind[c] \in RefFirst /\ EvpUsable(k) /\ RefThenFree(t, c, k)
FreeInit(t, c, k) ==
  kind[c] \notin RefFirst /\ EvpUsable(k) /\ FreeThenRef(t, "init", c, k, KeyOf(c))
PeerInit(t, c, k) ==
  kind[c] \notin RefFirst /\ EvpUsable(k) /\ FreeThenRef(t, "peer", c, k, PeerOf(c))
Refuses(t, c) ==
  ready' = ready \ {c} /\ calls < MaxCalls /\ calls' = calls + 1
  /\ UNCHANGED <<kind, keyVars, pc, call, locals>>
SignOf(t, c) ==
  /\ Set(c) /\ ~Inside(c)
  /\ Enter(t, "sign", c, c, holds[KeyOf(c)], KeyOf(c), "lock")
  /\ mode' = [mode EXCEPT ![t] = "sign"]
  /\ arg' = [arg EXCEPT ![t] = holds[KeyOf(c)]]
  /\ UNCHANGED <<keyVars, ready>>

Step(t) ==
  \/ \E k \in Key : NewKey(t, k) \/ Drop(t, k)
  \/ \E c \in Ctx : NewCtx(t, c) \/ FreeCtx(t, c) \/ SignOf(t, c) \/ Decrypt(t, c)
                    \/ Refuses(t, c)
  \/ \E c, d \in Ctx : DupCtx(t, c, d)
  \/ \E c \in Ctx, k \in Key : RefInit(t, c, k) \/ FreeInit(t, c, k) \/ PeerInit(t, c, k)
  \/ Ref(t) \/ Release(t) \/ Lock(t) \/ LockFails(t) \/ Get(t) \/ Put(t)
  \/ Unlock(t) \/ Destroy(t) \/ Keep(t)
  \/ Succeed(t) \/ InitFails(t) \/ DupFails(t) \/ Gone(t)
  \/ Signed(t) \/ TakeRng(t) \/ Decrypted(t) \/ ClearRng(t)

LEMMA NextCases == Next => \E t \in Thread : Step(t)
<1> SUFFICES ASSUME Next PROVE \E t \in Thread : Step(t)
  OBVIOUS
<1>1. PICK t \in Thread :
        \/ Calls(t)
        \/ Ref(t) \/ Release(t) \/ Lock(t) \/ LockFails(t) \/ Get(t) \/ Put(t)
        \/ Unlock(t) \/ Destroy(t) \/ Keep(t)
        \/ Succeed(t) \/ InitFails(t) \/ DupFails(t) \/ Gone(t)
        \/ Signed(t) \/ TakeRng(t) \/ Decrypted(t) \/ ClearRng(t)
  BY DEF Next
<1>2. ASSUME NEW c \in Ctx, NEW k \in Key PROVE
        /\ RsaSigInit(t, c, k) \/ EcdsaInit(t, c, k) \/ EcxSigInit(t, c, k)
             => RefInit(t, c, k)
        /\ RsaAsymInit(t, c, k) \/ RsaKemInit(t, c, k) \/ EcdhInit(t, c, k)
             \/ DhInit(t, c, k) \/ XdhInit(t, c, k) => FreeInit(t, c, k)
        /\ SetPeer(t, c, k) => PeerInit(t, c, k)
        /\ RsaAsymRefuses(t, c, k) => Refuses(t, c)
        /\ Sign(t, c) => SignOf(t, c)
  BY DEF RsaSigInit, EcdsaInit, EcxSigInit, RsaAsymInit, RsaKemInit, EcdhInit, DhInit,
         XdhInit, SetPeer, RsaAsymRefuses, Sign, RefInit, FreeInit, PeerInit, Refuses,
         SignOf, Usable, EvpUsable, RefFirst, Exchange
<1> DEFINE Begins ==
             \/ \E k \in Key : NewKey(t, k) \/ Drop(t, k)
             \/ \E c \in Ctx : NewCtx(t, c) \/ FreeCtx(t, c) \/ SignOf(t, c)
                               \/ Decrypt(t, c) \/ Refuses(t, c)
             \/ \E c, d \in Ctx : DupCtx(t, c, d)
             \/ \E c \in Ctx, k \in Key :
                  RefInit(t, c, k) \/ FreeInit(t, c, k) \/ PeerInit(t, c, k)
<1>3. ASSUME Calls(t) PROVE Begins
  <2>1. CASE \E k \in Key : NewKey(t, k) \/ Drop(t, k)
    BY <2>1
  <2>2. CASE \E c \in Ctx : NewCtx(t, c) \/ FreeCtx(t, c) \/ Sign(t, c) \/ Decrypt(t, c)
    <3>1. PICK c \in Ctx : NewCtx(t, c) \/ FreeCtx(t, c) \/ Sign(t, c) \/ Decrypt(t, c)
      BY <2>2
    <3>2. Sign(t, c) => SignOf(t, c)
      BY DEF Sign, SignOf
    <3>3. QED
      BY <3>1, <3>2
  <2>3. CASE \E c, d \in Ctx : DupCtx(t, c, d)
    BY <2>3
  <2>4. ASSUME NEW c \in Ctx, NEW k \in Key,
               \/ RsaSigInit(t, c, k) \/ EcdsaInit(t, c, k) \/ EcxSigInit(t, c, k)
               \/ RsaAsymInit(t, c, k) \/ RsaAsymRefuses(t, c, k) \/ RsaKemInit(t, c, k)
               \/ EcdhInit(t, c, k) \/ DhInit(t, c, k) \/ XdhInit(t, c, k)
               \/ SetPeer(t, c, k)
        PROVE  Begins
    <3>1. RefInit(t, c, k) \/ FreeInit(t, c, k) \/ PeerInit(t, c, k) \/ Refuses(t, c)
      BY <1>2, <2>4
    <3>2. QED
      BY <3>1
  <2>5. QED
    BY <1>3, <2>1, <2>2, <2>3, <2>4 DEF Calls
<1>4. QED
  BY <1>1, <1>3 DEF Step

------------------------------------------------------------------------------
(* What a thread works on is somebody's reference. *)
LEMMA PutCounts ==
  ASSUME IInv, NEW t \in Thread, pc[t] = "put", mode[t] = "down"
  PROVE  /\ arg[t] \in Key \cap made /\ target[t] \in Holders(arg[t])
         /\ cnt[t] = refCnt[arg[t]] /\ refCnt[arg[t]] = Cardinality(Holders(arg[t]))
         /\ cnt[t] \in Nat \ {0}
<1>1. arg[t] \in Key /\ Lowers(t)
  BY DEF IInv, CallAtPc, Works, Lowers, AtMutex
<1>2. target[t] \in Place /\ holds[target[t]] = arg[t]
  BY <1>1 DEF IInv, TypeOK, LocalTypeOK, Vouched, VouchedAt
<1>3. arg[t] \in made /\ target[t] \in Holders(arg[t])
  BY <1>1, <1>2, KeyRefAssumption DEF IInv, HoldsMade, Holders
<1>4. cnt[t] = refCnt[arg[t]] /\ refCnt[arg[t]] = Cardinality(Holders(arg[t]))
  BY <1>1, <1>3 DEF IInv, CountRead, CountExact
<1>5. Cardinality(Holders(arg[t])) \in Nat \ {0}
  BY <1>3, HoldersFinite, FS_EmptySet
<1>6. QED
  BY <1>1, <1>3, <1>4, <1>5

LEMMA LeaveTypeOK ==
  ASSUME LocalTypeOK, NEW t \in Thread, Leave(t)
  PROVE  LocalTypeOK'
BY PlacesDiffer DEF LocalTypeOK, Leave, Goto

LEMMA NextTypeOK == IInv /\ [Next]_vars => TypeOK'
<1> SUFFICES ASSUME IInv, [Next]_vars PROVE TypeOK'
  OBVIOUS
<1> USE KeyRefAssumption, PlacesDiffer
        DEF IInv, TypeOK, LocalTypeOK, CallAtPc, Exclusive, Raises, Lowers, AtMutex, Works, keyVars, locals
<1>1. ASSUME NEW t \in Thread, NEW k \in Key, NewKey(t, k) PROVE TypeOK'
  BY <1>1 DEF NewKey
<1>2. ASSUME NEW t \in Thread, NEW k \in Key, Drop(t, k) PROVE TypeOK'
  BY <1>2 DEF Drop, Enter, Goto, Unshared
<1>3. ASSUME NEW t \in Thread, NEW c \in Ctx, NewCtx(t, c) PROVE TypeOK'
  BY <1>3 DEF NewCtx
<1>4. ASSUME NEW t \in Thread, NEW c \in Ctx, FreeCtx(t, c) PROVE TypeOK'
  BY <1>4 DEF FreeCtx, Enter, Goto, Unshared, Inside
<1>5. ASSUME NEW t \in Thread, NEW c \in Ctx, SignOf(t, c) PROVE TypeOK'
  BY <1>5 DEF SignOf, Enter, Goto, Inside, Set
<1>6. ASSUME NEW t \in Thread, NEW c \in Ctx, Decrypt(t, c) PROVE TypeOK'
  BY <1>6 DEF Decrypt, Enter, Goto, Inside, Set
<1>7. ASSUME NEW t \in Thread, NEW c \in Ctx, Refuses(t, c) PROVE TypeOK'
  BY <1>7 DEF Refuses
<1>8. ASSUME NEW t \in Thread, NEW c \in Ctx, NEW d \in Ctx, DupCtx(t, c, d)
      PROVE  TypeOK'
  BY <1>8 DEF DupCtx, Enter, Goto, Unshared, Inside, Set
<1>9. ASSUME NEW t \in Thread, NEW c \in Ctx, NEW k \in Key, RefInit(t, c, k)
      PROVE  TypeOK'
  BY <1>9 DEF RefInit, EvpUsable, RefThenFree, Startable, Enter, Goto, Unshared,
              Inside
<1>10. ASSUME NEW t \in Thread, NEW c \in Ctx, NEW k \in Key, FreeInit(t, c, k)
       PROVE  TypeOK'
  BY <1>10 DEF FreeInit, EvpUsable, FreeThenRef, Startable, Enter, Goto, Unshared,
               Inside
<1>11. ASSUME NEW t \in Thread, NEW c \in Ctx, NEW k \in Key, PeerInit(t, c, k)
       PROVE  TypeOK'
  BY <1>11 DEF PeerInit, EvpUsable, FreeThenRef, Startable, Enter, Goto, Unshared,
               Inside
<1>12. ASSUME NEW t \in Thread, Ref(t) PROVE TypeOK'
  BY <1>12 DEF Ref, Goto, LockedRegion
<1>13. ASSUME NEW t \in Thread, Release(t) PROVE TypeOK'
  <2>1. UNCHANGED <<kind, made, refCnt, mutex, holds, keyRng, ready, calls>>
    BY <1>13 DEF Release
  <2>2. CASE Leave(t)
    BY <2>1, <2>2, LeaveTypeOK
  <2>3. CASE ~ Leave(t)
    <3>1. target' = target \/ (call[t] = "free" /\ target' = [target EXCEPT ![t] = KeyOf(ctx[t])])
      BY <1>13, <2>3 DEF Release
    <3>2. target' \in [Thread -> Place]
      BY <3>1
    <3>3. /\ mode' \in [Thread -> {"up", "down", "sign"}]
          /\ arg' \in [Thread -> Key \cup {NoKey}]
      BY <1>13, <2>3 DEF Release
    <3>4. /\ pc' = pc \/ \E where \in {"lock", "gone", "keep", "ref"} : Goto(t, where)
          /\ UNCHANGED <<call, ctx, src, want, cnt, rng>>
      BY <1>13, <2>3 DEF Release
    <3>5. QED
      BY <2>1, <3>2, <3>3, <3>4 DEF Goto
  <2>4. QED
    BY <2>2, <2>3
<1>14. ASSUME NEW t \in Thread, Lock(t) PROVE TypeOK'
  BY <1>14 DEF Lock, Goto, LockedRegion
<1>15. ASSUME NEW t \in Thread, LockFails(t) PROVE TypeOK'
  <2>1. UNCHANGED <<kind, made, refCnt, mutex, holds, keyRng, calls>>
    BY <1>15 DEF LockFails
  <2>2. ready' \subseteq ready
    BY <1>15 DEF LockFails
  <2>3. CASE Leave(t)
    BY <2>1, <2>2, <2>3, LeaveTypeOK
  <2>4. CASE call[t] = "dup"
    <3>1. PeerOf(ctx[t]) \in Place
      BY <2>4
    <3>2. /\ pc' = [pc EXCEPT ![t] = "release"] /\ call' = [call EXCEPT ![t] = "free"]
          /\ target' = [target EXCEPT ![t] = PeerOf(ctx[t])]
          /\ UNCHANGED <<ready, ctx, src, want, mode, arg, cnt, rng>>
      BY <1>15, <2>4 DEF LockFails, Goto
    <3>3. QED
      BY <2>1, <3>1, <3>2
  <2>5. CASE call[t] # "dup" /\ ~ Leave(t)
    <3>1. pc' = [pc EXCEPT ![t] = "params"] /\ UNCHANGED <<call, ready, locals>>
      BY <1>15, <2>5 DEF LockFails, Goto
    <3>2. QED
      BY <2>1, <3>1
  <2>6. QED
    BY <2>3, <2>4, <2>5
<1>16. ASSUME NEW t \in Thread, Get(t) PROVE TypeOK'
  BY <1>16 DEF Get, Goto, LockedRegion
<1>17. ASSUME NEW t \in Thread, Put(t) PROVE TypeOK'
  <2>1. cnt[t] \in Nat /\ arg[t] \in Key /\ target[t] \in Place
    BY <1>17 DEF Put
  <2>2. mode[t] = "down" => cnt[t] - 1 \in Nat
    BY <1>17, PutCounts DEF Put
  <2>3. mode[t] \in {"up", "down"}
    BY <1>17 DEF Put
  <2>4. refCnt' \in [Key -> Nat] /\ holds' \in [Place -> Key \cup {NoKey}]
    <3>1. CASE mode[t] = "up"
      BY <1>17, <2>1, <3>1 DEF Put
    <3>2. CASE mode[t] = "down"
      <4>1. /\ refCnt' = [refCnt EXCEPT ![arg[t]] = cnt[t] - 1]
            /\ holds' = [holds EXCEPT ![target[t]] = NoKey]
        BY <1>17, <3>2 DEF Put
      <4>2. QED
        BY <2>1, <2>2, <3>2, <4>1
    <3>3. QED
      BY <2>3, <3>1, <3>2
  <2>5. QED
    BY <1>17, <2>4 DEF Put, Goto, LockedRegion
<1>18. ASSUME NEW t \in Thread, Unlock(t) PROVE TypeOK'
  <2>1. UNCHANGED <<kind, made, refCnt, holds, keyRng, ready, calls>>
    BY <1>18 DEF Unlock
  <2>2. mutex' \in [Key -> Thread \cup {NoThread}]
    BY <1>18 DEF Unlock
  <2>3. CASE mode[t] = "sign"
    BY <1>18, <2>1, <2>2, <2>3, LeaveTypeOK DEF Unlock
  <2>4. CASE mode[t] # "sign"
    <3>1. /\ \E where \in {"destroy", "release", "keep"} : Goto(t, where)
          /\ UNCHANGED <<call, locals>>
      BY <1>18, <2>4 DEF Unlock
    <3>2. QED
      BY <2>1, <2>2, <3>1 DEF Goto
  <2>5. QED
    BY <2>3, <2>4
<1>19. ASSUME NEW t \in Thread, Destroy(t) PROVE TypeOK'
  BY <1>19 DEF Destroy, Goto
<1>20. ASSUME NEW t \in Thread, Keep(t) PROVE TypeOK'
  <2>1. holds[Local(t)] \in Key \cup {NoKey} /\ target[t] \in Place /\ Local(t) \in Place
    OBVIOUS
  <2>2. holds' \in [Place -> Key \cup {NoKey}]
    BY <1>20, <2>1 DEF Keep
  <2>3. /\ want' \in [Thread -> Key \cup {NoKey}] /\ target' \in [Thread -> Place]
        /\ \E where \in {"ref", "params"} : Goto(t, where)
    <3>1. CASE call[t] = "dup" /\ target[t] = KeyOf(ctx[t]) /\ holds[PeerOf(src[t])] # NoKey
      <4>1. holds[PeerOf(src[t])] \in Key /\ PeerOf(ctx[t]) \in Place
        BY <3>1
      <4>2. /\ want' = [want EXCEPT ![t] = holds[PeerOf(src[t])]]
            /\ target' = [target EXCEPT ![t] = PeerOf(ctx[t])] /\ Goto(t, "ref")
        BY <1>20, <3>1 DEF Keep
      <4>3. QED
        BY <4>1, <4>2
    <3>2. CASE ~(call[t] = "dup" /\ target[t] = KeyOf(ctx[t]) /\ holds[PeerOf(src[t])] # NoKey)
      BY <1>20, <3>2 DEF Keep
    <3>3. QED
      BY <3>1, <3>2
  <2>4. pc' \in [Thread -> {"idle", "ref", "release", "lock", "get", "put", "unlock",
                           "destroy", "keep", "params", "gone", "sign", "take",
                           "decrypt", "clear"}]
    BY ONLY <2>3, IInv DEF IInv, TypeOK, LocalTypeOK, Goto
  <2>5. UNCHANGED <<kind, made, refCnt, mutex, keyRng, ready, calls, call, ctx, src,
                    mode, arg, cnt, rng>>
    BY <1>20 DEF Keep
  <2>6. QED
    BY ONLY <2>2, <2>3, <2>4, <2>5, IInv DEF IInv, TypeOK, LocalTypeOK
<1>21. ASSUME NEW t \in Thread, Succeed(t) PROVE TypeOK'
  BY <1>21 DEF Succeed, Leave, Goto
<1>22. ASSUME NEW t \in Thread, InitFails(t) PROVE TypeOK'
  BY <1>22 DEF InitFails, Leave, Goto
<1>23. ASSUME NEW t \in Thread, DupFails(t) PROVE TypeOK'
  BY <1>23 DEF DupFails, Goto
<1>24. ASSUME NEW t \in Thread, Gone(t) PROVE TypeOK'
  BY <1>24 DEF Gone, Leave, Goto
<1>25. ASSUME NEW t \in Thread, Signed(t) PROVE TypeOK'
  BY <1>25 DEF Signed, Goto, LockedRegion
<1>26. ASSUME NEW t \in Thread, TakeRng(t) PROVE TypeOK'
  BY <1>26 DEF TakeRng, Goto
<1>27. ASSUME NEW t \in Thread, Decrypted(t) PROVE TypeOK'
  BY <1>27 DEF Decrypted, Goto
<1>28. ASSUME NEW t \in Thread, ClearRng(t) PROVE TypeOK'
  BY <1>28 DEF ClearRng, Leave, Goto
<1>29. CASE UNCHANGED vars
  BY <1>29 DEF vars
<1>30. QED
  BY NextCases, <1>1, <1>2, <1>3, <1>4, <1>5, <1>6, <1>7, <1>8, <1>9, <1>10, <1>11,
     <1>12, <1>13, <1>14, <1>15, <1>16, <1>17, <1>18, <1>19, <1>20, <1>21, <1>22,
     <1>23, <1>24, <1>25, <1>26, <1>27, <1>28, <1>29 DEF Step

LEMMA NextCallAtPc == IInv /\ [Next]_vars => CallAtPc'
<1> SUFFICES ASSUME IInv, [Next]_vars PROVE CallAtPc'
  OBVIOUS
<1> USE KeyRefAssumption, PlacesDiffer
        DEF IInv, TypeOK, LocalTypeOK, CallAtPc, Exclusive, Raises, Lowers, AtMutex, Works, keyVars, locals
<1>1. ASSUME NEW t \in Thread, NEW k \in Key, NewKey(t, k) PROVE CallAtPc'
  BY <1>1 DEF NewKey
<1>2. ASSUME NEW t \in Thread, NEW k \in Key, Drop(t, k) PROVE CallAtPc'
  BY <1>2 DEF Drop, Enter, Goto, Unshared
<1>3. ASSUME NEW t \in Thread, NEW c \in Ctx, NewCtx(t, c) PROVE CallAtPc'
  BY <1>3 DEF NewCtx
<1>4. ASSUME NEW t \in Thread, NEW c \in Ctx, FreeCtx(t, c) PROVE CallAtPc'
  BY <1>4 DEF FreeCtx, Enter, Goto, Unshared, Inside
<1>5. ASSUME NEW t \in Thread, NEW c \in Ctx, SignOf(t, c) PROVE CallAtPc'
  BY <1>5 DEF SignOf, Enter, Goto, Inside, Set
<1>6. ASSUME NEW t \in Thread, NEW c \in Ctx, Decrypt(t, c) PROVE CallAtPc'
  BY <1>6 DEF Decrypt, Enter, Goto, Inside, Set
<1>7. ASSUME NEW t \in Thread, NEW c \in Ctx, Refuses(t, c) PROVE CallAtPc'
  BY <1>7 DEF Refuses
<1>8. ASSUME NEW t \in Thread, NEW c \in Ctx, NEW d \in Ctx, DupCtx(t, c, d)
      PROVE  CallAtPc'
  BY <1>8 DEF DupCtx, Enter, Goto, Unshared, Inside, Set
<1>9. ASSUME NEW t \in Thread, NEW c \in Ctx, NEW k \in Key, RefInit(t, c, k)
      PROVE  CallAtPc'
  BY <1>9 DEF RefInit, EvpUsable, RefThenFree, Startable, Enter, Goto, Unshared,
              Inside
<1>10. ASSUME NEW t \in Thread, NEW c \in Ctx, NEW k \in Key, FreeInit(t, c, k)
       PROVE  CallAtPc'
  BY <1>10 DEF FreeInit, EvpUsable, FreeThenRef, Startable, Enter, Goto, Unshared,
               Inside
<1>11. ASSUME NEW t \in Thread, NEW c \in Ctx, NEW k \in Key, PeerInit(t, c, k)
       PROVE  CallAtPc'
  BY <1>11 DEF PeerInit, EvpUsable, FreeThenRef, Startable, Enter, Goto, Unshared,
               Inside
<1>12. ASSUME NEW t \in Thread, Ref(t) PROVE CallAtPc'
  BY <1>12 DEF Ref, Goto, LockedRegion
<1>13. ASSUME NEW t \in Thread, Release(t) PROVE CallAtPc'
  BY <1>13 DEF Release, Goto, Leave, RefsFirst
<1>14. ASSUME NEW t \in Thread, Lock(t) PROVE CallAtPc'
  BY <1>14 DEF Lock, Goto, LockedRegion
<1>15. ASSUME NEW t \in Thread, LockFails(t) PROVE CallAtPc'
  BY <1>15 DEF LockFails, Goto, Leave
<1>16. ASSUME NEW t \in Thread, Get(t) PROVE CallAtPc'
  BY <1>16 DEF Get, Goto, LockedRegion
<1>17. ASSUME NEW t \in Thread, Put(t) PROVE CallAtPc'
  BY <1>17 DEF Put, Goto, LockedRegion
<1>18. ASSUME NEW t \in Thread, Unlock(t) PROVE CallAtPc'
  <2>1. CASE mode[t] = "sign"
    BY <1>18, <2>1 DEF Unlock, Goto, Leave
  <2>2. CASE mode[t] # "sign"
    <3>1. PICK where \in {"destroy", "release", "keep"} :
            /\ pc' = [pc EXCEPT ![t] = where] /\ UNCHANGED <<call, locals>>
            /\ mode[t] = "down" => where # "keep"
            /\ mode[t] = "up" => where = IF call[t] = "init" /\ kind[ctx[t]] \in RefFirst
                                         THEN "release" ELSE "keep"
      BY <1>18, <2>2 DEF Unlock, Goto
    <3>2. CASE mode[t] = "down"
      BY <1>18, <3>1, <3>2 DEF Unlock
    <3>3. CASE mode[t] = "up"
      BY <1>18, <3>1, <3>3 DEF Unlock
    <3>4. QED
      BY <1>18, <2>2, <3>2, <3>3 DEF Unlock
  <2>3. QED
    BY <2>1, <2>2
<1>19. ASSUME NEW t \in Thread, Destroy(t) PROVE CallAtPc'
  BY <1>19 DEF Destroy, Goto
<1>20. ASSUME NEW t \in Thread, Keep(t) PROVE CallAtPc'
  BY <1>20 DEF Keep, Goto
<1>21. ASSUME NEW t \in Thread, Succeed(t) PROVE CallAtPc'
  BY <1>21 DEF Succeed, Leave, Goto
<1>22. ASSUME NEW t \in Thread, InitFails(t) PROVE CallAtPc'
  BY <1>22 DEF InitFails, Leave, Goto
<1>23. ASSUME NEW t \in Thread, DupFails(t) PROVE CallAtPc'
  BY <1>23 DEF DupFails, Goto
<1>24. ASSUME NEW t \in Thread, Gone(t) PROVE CallAtPc'
  BY <1>24 DEF Gone, Leave, Goto
<1>25. ASSUME NEW t \in Thread, Signed(t) PROVE CallAtPc'
  BY <1>25 DEF Signed, Goto, LockedRegion
<1>26. ASSUME NEW t \in Thread, TakeRng(t) PROVE CallAtPc'
  BY <1>26 DEF TakeRng, Goto
<1>27. ASSUME NEW t \in Thread, Decrypted(t) PROVE CallAtPc'
  BY <1>27 DEF Decrypted, Goto
<1>28. ASSUME NEW t \in Thread, ClearRng(t) PROVE CallAtPc'
  BY <1>28 DEF ClearRng, Leave, Goto
<1>29. CASE UNCHANGED vars
  BY <1>29 DEF vars
<1>30. QED
  BY NextCases, <1>1, <1>2, <1>3, <1>4, <1>5, <1>6, <1>7, <1>8, <1>9, <1>10, <1>11,
     <1>12, <1>13, <1>14, <1>15, <1>16, <1>17, <1>18, <1>19, <1>20, <1>21, <1>22,
     <1>23, <1>24, <1>25, <1>26, <1>27, <1>28, <1>29 DEF Step

LEMMA NextExclusive == IInv /\ [Next]_vars => Exclusive'
<1> SUFFICES ASSUME IInv, [Next]_vars PROVE Exclusive'
  OBVIOUS
<1> USE KeyRefAssumption
        DEF IInv, TypeOK, LocalTypeOK, CallAtPc, Exclusive, Raises, Lowers, AtMutex, Works, keyVars, locals
<1>1. ASSUME NEW t \in Thread, NEW k \in Key, NewKey(t, k) PROVE Exclusive'
  BY <1>1 DEF NewKey
<1>2. ASSUME NEW t \in Thread, NEW k \in Key, Drop(t, k) PROVE Exclusive'
  <2>1. \A u \in Thread : call[u] \in {"init", "peer", "drop"} => want[u] # k
    BY <1>2 DEF Drop, Given
  <2>2. QED
    BY <1>2, <2>1 DEF Drop, Enter, Goto, Unshared
<1>3. ASSUME NEW t \in Thread, NEW c \in Ctx, NewCtx(t, c) PROVE Exclusive'
  BY <1>3 DEF NewCtx
<1>4. ASSUME NEW t \in Thread, NEW c \in Ctx, FreeCtx(t, c) PROVE Exclusive'
  BY <1>4 DEF FreeCtx, Enter, Goto, Unshared, Inside
<1>5. ASSUME NEW t \in Thread, NEW c \in Ctx, SignOf(t, c) PROVE Exclusive'
  BY <1>5 DEF SignOf, Enter, Goto, Inside, Set
<1>6. ASSUME NEW t \in Thread, NEW c \in Ctx, Decrypt(t, c) PROVE Exclusive'
  BY <1>6 DEF Decrypt, Enter, Goto, Inside, Set
<1>7. ASSUME NEW t \in Thread, NEW c \in Ctx, Refuses(t, c) PROVE Exclusive'
  BY <1>7 DEF Refuses
<1>8. ASSUME NEW t \in Thread, NEW c \in Ctx, NEW d \in Ctx, DupCtx(t, c, d)
      PROVE  Exclusive'
  BY <1>8 DEF DupCtx, Enter, Goto, Unshared, Inside, Set
<1>9. ASSUME NEW t \in Thread, NEW c \in Ctx, NEW k \in Key, RefInit(t, c, k)
      PROVE  Exclusive'
  BY <1>9 DEF RefInit, EvpUsable, RefThenFree, Startable, Enter, Goto, Unshared,
              Inside
<1>10. ASSUME NEW t \in Thread, NEW c \in Ctx, NEW k \in Key, FreeInit(t, c, k)
       PROVE  Exclusive'
  BY <1>10 DEF FreeInit, EvpUsable, FreeThenRef, Startable, Enter, Goto, Unshared,
               Inside
<1>11. ASSUME NEW t \in Thread, NEW c \in Ctx, NEW k \in Key, PeerInit(t, c, k)
       PROVE  Exclusive'
  BY <1>11 DEF PeerInit, EvpUsable, FreeThenRef, Startable, Enter, Goto, Unshared,
               Inside
<1>12. ASSUME NEW t \in Thread, Ref(t) PROVE Exclusive'
  BY <1>12 DEF Ref, Goto, LockedRegion
<1>13. ASSUME NEW t \in Thread, Release(t) PROVE Exclusive'
  BY <1>13 DEF Release, Goto, Leave, RefsFirst
<1>14. ASSUME NEW t \in Thread, Lock(t) PROVE Exclusive'
  BY <1>14 DEF Lock, Goto, LockedRegion
<1>15. ASSUME NEW t \in Thread, LockFails(t) PROVE Exclusive'
  <2>1. CASE call[t] = "dup"
    <3>1. /\ call' = [call EXCEPT ![t] = "free"] /\ UNCHANGED <<made, ctx, src, want>>
      BY <1>15, <2>1 DEF LockFails
    <3>2. QED
      BY <2>1, <3>1
  <2>2. CASE Leave(t)
    <3>1. /\ call' = [call EXCEPT ![t] = "none"] /\ made' = made
          /\ \A u \in Thread \ {t} : /\ ctx'[u] = ctx[u] /\ src'[u] = src[u]
                                   /\ want'[u] = want[u]
      BY <1>15, <2>2 DEF LockFails, Leave
    <3>2. QED
      BY <3>1
  <2>3. CASE call[t] # "dup" /\ ~ Leave(t)
    <3>1. UNCHANGED <<call, ctx, src, want, made>>
      BY <1>15, <2>3 DEF LockFails
    <3>2. QED
      BY <3>1
  <2>4. QED
    BY <2>1, <2>2, <2>3
<1>16. ASSUME NEW t \in Thread, Get(t) PROVE Exclusive'
  BY <1>16 DEF Get, Goto, LockedRegion
<1>17. ASSUME NEW t \in Thread, Put(t) PROVE Exclusive'
  BY <1>17 DEF Put, Goto, LockedRegion
<1>18. ASSUME NEW t \in Thread, Unlock(t) PROVE Exclusive'
  <2>1. CASE mode[t] = "sign"
    <3>1. /\ call' = [call EXCEPT ![t] = "none"] /\ made' = made
          /\ \A u \in Thread \ {t} : /\ ctx'[u] = ctx[u] /\ src'[u] = src[u]
                                   /\ want'[u] = want[u]
      BY <1>18, <2>1 DEF Unlock, Leave
    <3>2. QED
      BY <3>1
  <2>2. CASE mode[t] # "sign"
    <3>1. UNCHANGED <<call, ctx, src, want, made>>
      BY <1>18, <2>2 DEF Unlock
    <3>2. QED
      BY <3>1
  <2>3. QED
    BY <2>1, <2>2
<1>19. ASSUME NEW t \in Thread, Destroy(t) PROVE Exclusive'
  BY <1>19 DEF Destroy, Goto
<1>20. ASSUME NEW t \in Thread, Keep(t) PROVE Exclusive'
  BY <1>20 DEF Keep, Goto
<1>21. ASSUME NEW t \in Thread, Succeed(t) PROVE Exclusive'
  BY <1>21 DEF Succeed, Leave, Goto
<1>22. ASSUME NEW t \in Thread, InitFails(t) PROVE Exclusive'
  BY <1>22 DEF InitFails, Leave, Goto
<1>23. ASSUME NEW t \in Thread, DupFails(t) PROVE Exclusive'
  BY <1>23 DEF DupFails, Goto
<1>24. ASSUME NEW t \in Thread, Gone(t) PROVE Exclusive'
  <2>1. \A u \in Thread \ {t} : call[u] # "none" => ctx[t] \notin {ctx[u], src[u]}
    <3>1. call[t] = "free" /\ ctx[t] \in Ctx
      BY <1>24 DEF Gone
    <3>2. ASSUME NEW u \in Thread \ {t}, call[u] # "none"
          PROVE  ctx[t] \notin {ctx[u], src[u]}
      <4>1. ctx[t] \in {ctx[u], src[u]} => ctx[t] \in {ctx[t], src[t]} \cap {ctx[u], src[u]}
        OBVIOUS
      <4>2. {ctx[t], src[t]} \cap {ctx[u], src[u]} \subseteq {NoCtx}
        BY <3>1, <3>2
      <4>3. QED
        BY <3>1, <4>1, <4>2
    <3>3. QED
      BY <3>2
  <2>2. QED
    BY <1>24, <2>1 DEF Gone, Leave, Goto
<1>25. ASSUME NEW t \in Thread, Signed(t) PROVE Exclusive'
  BY <1>25 DEF Signed, Goto, LockedRegion
<1>26. ASSUME NEW t \in Thread, TakeRng(t) PROVE Exclusive'
  BY <1>26 DEF TakeRng, Goto
<1>27. ASSUME NEW t \in Thread, Decrypted(t) PROVE Exclusive'
  BY <1>27 DEF Decrypted, Goto
<1>28. ASSUME NEW t \in Thread, ClearRng(t) PROVE Exclusive'
  BY <1>28 DEF ClearRng, Leave, Goto
<1>29. CASE UNCHANGED vars
  BY <1>29 DEF vars
<1>30. QED
  BY NextCases, <1>1, <1>2, <1>3, <1>4, <1>5, <1>6, <1>7, <1>8, <1>9, <1>10, <1>11,
     <1>12, <1>13, <1>14, <1>15, <1>16, <1>17, <1>18, <1>19, <1>20, <1>21, <1>22,
     <1>23, <1>24, <1>25, <1>26, <1>27, <1>28, <1>29 DEF Step

(* The places a call empties or fills. *)
Moves(t) == call[t] \in {"drop", "init", "peer", "dup", "free"}

LEMMA TargetShape ==
  ASSUME IInv, NEW t \in Thread, Moves(t)
  PROVE  \/ /\ call[t] = "drop" /\ want[t] \in Key /\ target[t] = Evp(want[t])
         \/ /\ call[t] # "drop" /\ ctx[t] \in Ctx /\ src[t] \in Ctx
            /\ target[t] \in {KeyOf(ctx[t]), PeerOf(ctx[t])}
BY DEF IInv, CallAtPc, Moves

(* No thread moves what another's call is about. *)
LEMMA Undisturbed ==
  ASSUME IInv, NEW t \in Thread, NEW u \in Thread \ {t}, call[t] # "none", Moves(u)
  PROVE  /\ \A v \in Thread : target[u] # Local(v)
         /\ Moves(t) => target[u] # target[t]
         /\ ctx[t] \in Ctx =>
              target[u] \notin {KeyOf(ctx[t]), PeerOf(ctx[t]), KeyOf(src[t]), PeerOf(src[t])}
         /\ call[t] \in {"init", "peer"} => target[u] # Evp(want[t])
<1>1. call[u] # "none" /\ t # u
  BY DEF Moves
<1>2. {ctx[t], src[t]} \cap {ctx[u], src[u]} \subseteq {NoCtx}
  BY <1>1 DEF IInv, Exclusive
<1>3. ctx[u] \in Ctx => ctx[u] \notin {ctx[t], src[t]}
  BY <1>2, KeyRefAssumption
<1>4. call[u] = "drop" =>
        /\ call[t] \in {"init", "peer", "drop"} => want[t] # want[u]
  BY <1>1 DEF IInv, Exclusive
<1>5. CASE call[u] = "drop"
  <2>1. want[u] \in Key /\ target[u] = Evp(want[u])
    BY <1>5, TargetShape DEF Moves
  <2>2. ASSUME Moves(t) PROVE target[u] # target[t]
    <3>1. CASE call[t] = "drop"
      BY <1>4, <1>5, <2>1, <2>2, <3>1, PlacesDiffer, TargetShape
    <3>2. CASE call[t] # "drop"
      BY <2>1, <2>2, <3>2, PlacesDiffer, TargetShape
    <3>3. QED
      BY <3>1, <3>2
  <2>3. QED
    BY <1>4, <1>5, <2>1, <2>2, PlacesDiffer
<1>6. CASE call[u] # "drop"
  BY <1>3, <1>6, PlacesDiffer, TargetShape DEF Moves
<1>7. QED
  BY <1>5, <1>6

(* A thread between lock and unlock works on a key that somebody refers to,  *)
(* unless it has taken the last reference itself.                            *)
LEMMA WorksHeld ==
  ASSUME IInv, NEW t \in Thread, Works(t)
  PROVE  /\ arg[t] \in Key \cap made
         /\ ~ Disposes(t, arg[t]) => Holders(arg[t]) # {}
<1> USE KeyRefAssumption, PlacesDiffer
<1> DEFINE Held == \E p \in Place : holds[p] = arg[t]
<1>1. arg[t] \in Key /\ pc[t] # "idle" /\ call[t] # "none" /\ target[t] \in Place
  BY DEF IInv, TypeOK, LocalTypeOK, CallAtPc, Works
<1>2. Held => arg[t] \in made /\ Holders(arg[t]) # {}
  BY <1>1 DEF IInv, HoldsMade, Holders
<1>3. CASE call[t] = "sign"
  BY <1>1, <1>2, <1>3 DEF IInv, CallAtPc, Vouched, VouchedAt
<1>4. CASE Raises(t)
  <2>1. arg[t] = want[t] /\ call[t] \in {"init", "peer", "dup"}
    BY <1>1, <1>4 DEF IInv, TypeOK, LocalTypeOK, CallAtPc, Works, Raises, Lowers,
                      AtMutex
  <2>2. CASE call[t] \in {"init", "peer"}
    BY <1>1, <1>2, <2>1, <2>2 DEF IInv, Vouched, VouchedAt
  <2>3. CASE call[t] = "dup"
    BY <1>1, <1>2, <1>4, <2>1, <2>3 DEF IInv, CallAtPc, Vouched, VouchedAt
  <2>4. QED
    BY <2>1, <2>2, <2>3
<1>5. CASE Lowers(t) /\ pc[t] # "unlock"
  BY <1>1, <1>2, <1>5 DEF IInv, Vouched, VouchedAt
<1>6. CASE Lowers(t) /\ pc[t] = "unlock"
  <2>1. arg[t] \in made /\ cnt[t] = refCnt[arg[t]] + 1
    BY <1>6 DEF IInv, CountRead, Lowers
  <2>2. refCnt[arg[t]] = Cardinality(Holders(arg[t])) /\ refCnt[arg[t]] \in Nat
    BY <1>1, <2>1 DEF IInv, TypeOK, CountExact
  <2>3. cnt[t] # 1 => Cardinality(Holders(arg[t])) # 0
    BY <2>1, <2>2
  <2>4. cnt[t] # 1 => Holders(arg[t]) # {}
    BY <2>3, FS_EmptySet
  <2>5. QED
    BY <1>1, <1>6, <2>1, <2>4 DEF Disposes, Lowers
<1>7. CASE pc[t] = "destroy"
  BY <1>1, <1>7 DEF IInv, Disposal, Disposes
<1>8. QED
  BY <1>1, <1>3, <1>4, <1>5, <1>6, <1>7
     DEF IInv, TypeOK, LocalTypeOK, CallAtPc, Works, Raises, Lowers, AtMutex

(* A reference to a key that exists, in a place where it may be. *)
LEMMA HoldsStep ==
  ASSUME IInv, NEW x \in Place, NEW y \in (Key \cap made') \cup {NoKey},
         holds' = [holds EXCEPT ![x] = y], made \subseteq made',
         \A k \in Key : x = Evp(k) => y \in {k, NoKey},
         \A c \in Ctx : x \in {KeyOf(c), PeerOf(c)} => c \in made \/ y = NoKey
  PROVE  HoldsMade'
<1>1. \A p \in Place : holds'[p] = IF p = x THEN y ELSE holds[p]
  BY DEF IInv, TypeOK
<1>2. \A k \in Key : holds'[Evp(k)] \in {k, NoKey}
  BY <1>1, PlacesDiffer DEF IInv, HoldsMade
<1>3. \A c \in Ctx \ made' : holds'[KeyOf(c)] = NoKey /\ holds'[PeerOf(c)] = NoKey
  BY <1>1, PlacesDiffer DEF IInv, HoldsMade
<1>4. \A p \in Place : holds'[p] # NoKey => holds'[p] \in made'
  BY <1>1 DEF IInv, HoldsMade
<1>5. QED
  BY <1>2, <1>3, <1>4 DEF HoldsMade

LEMMA NextHoldsMade == IInv /\ [Next]_vars => HoldsMade'
<1> SUFFICES ASSUME IInv, [Next]_vars PROVE HoldsMade'
  OBVIOUS
<1> USE KeyRefAssumption, PlacesDiffer
        DEF IInv, TypeOK, LocalTypeOK, CallAtPc, Exclusive, Raises, Lowers, AtMutex,
            Works, keyVars, locals, HoldsMade
<1>1. ASSUME NEW t \in Thread, NEW k \in Key, NewKey(t, k) PROVE HoldsMade'
  <2>1. /\ holds' = [holds EXCEPT ![Evp(k)] = k] /\ made' = made \cup {k}
        /\ Evp(k) \in Place /\ k \in (Key \cap made') \cup {NoKey}
    BY <1>1 DEF NewKey
  <2>2. /\ made \subseteq made' /\ \A l \in Key : Evp(k) = Evp(l) => k \in {l, NoKey}
        /\ \A c \in Ctx : Evp(k) \notin {KeyOf(c), PeerOf(c)}
    BY <2>1
  <2>3. QED
    BY <2>1, <2>2, HoldsStep
<1>2. ASSUME NEW t \in Thread, NEW k \in Key, Drop(t, k) PROVE HoldsMade'
  BY <1>2 DEF Drop, Enter, Goto, Unshared
<1>3. ASSUME NEW t \in Thread, NEW c \in Ctx, NewCtx(t, c) PROVE HoldsMade'
  BY <1>3 DEF NewCtx
<1>4. ASSUME NEW t \in Thread, NEW c \in Ctx, FreeCtx(t, c) PROVE HoldsMade'
  BY <1>4 DEF FreeCtx, Enter, Goto, Unshared, Inside
<1>5. ASSUME NEW t \in Thread, NEW c \in Ctx, SignOf(t, c) PROVE HoldsMade'
  BY <1>5 DEF SignOf, Enter, Goto, Inside, Set
<1>6. ASSUME NEW t \in Thread, NEW c \in Ctx, Decrypt(t, c) PROVE HoldsMade'
  BY <1>6 DEF Decrypt, Enter, Goto, Inside, Set
<1>7. ASSUME NEW t \in Thread, NEW c \in Ctx, Refuses(t, c) PROVE HoldsMade'
  BY <1>7 DEF Refuses
<1>8. ASSUME NEW t \in Thread, NEW c \in Ctx, NEW d \in Ctx, DupCtx(t, c, d)
      PROVE  HoldsMade'
  BY <1>8 DEF DupCtx, Enter, Goto, Unshared, Inside, Set
<1>9. ASSUME NEW t \in Thread, NEW c \in Ctx, NEW k \in Key, RefInit(t, c, k)
      PROVE  HoldsMade'
  BY <1>9 DEF RefInit, EvpUsable, RefThenFree, Startable, Enter, Goto, Unshared,
              Inside
<1>10. ASSUME NEW t \in Thread, NEW c \in Ctx, NEW k \in Key, FreeInit(t, c, k)
       PROVE  HoldsMade'
  BY <1>10 DEF FreeInit, EvpUsable, FreeThenRef, Startable, Enter, Goto, Unshared,
               Inside
<1>11. ASSUME NEW t \in Thread, NEW c \in Ctx, NEW k \in Key, PeerInit(t, c, k)
       PROVE  HoldsMade'
  BY <1>11 DEF PeerInit, EvpUsable, FreeThenRef, Startable, Enter, Goto, Unshared,
               Inside
<1>12. ASSUME NEW t \in Thread, Ref(t) PROVE HoldsMade'
  BY <1>12 DEF Ref, Goto, LockedRegion
<1>13. ASSUME NEW t \in Thread, Release(t) PROVE HoldsMade'
  BY <1>13 DEF Release, Goto, Leave, RefsFirst
<1>14. ASSUME NEW t \in Thread, Lock(t) PROVE HoldsMade'
  BY <1>14 DEF Lock, Goto, LockedRegion
<1>15. ASSUME NEW t \in Thread, LockFails(t) PROVE HoldsMade'
  BY <1>15 DEF LockFails, Goto, Leave
<1>16. ASSUME NEW t \in Thread, Get(t) PROVE HoldsMade'
  BY <1>16 DEF Get, Goto, LockedRegion
<1>17. ASSUME NEW t \in Thread, Put(t) PROVE HoldsMade'
  <2>1. arg[t] \in Key \cap made
    BY <1>17, WorksHeld DEF Put
  <2>2. UNCHANGED made
    BY <1>17 DEF Put, LockedRegion
  <2>3. CASE mode[t] = "up"
    <3>1. holds' = [holds EXCEPT ![Local(t)] = arg[t]] /\ Local(t) \in Place
      BY <1>17, <2>3 DEF Put
    <3>2. arg[t] \in (Key \cap made') \cup {NoKey} /\ made \subseteq made'
      BY <2>1, <2>2
    <3>3. /\ \A l \in Key : Local(t) = Evp(l) => arg[t] \in {l, NoKey}
          /\ \A c \in Ctx : Local(t) \notin {KeyOf(c), PeerOf(c)}
      OBVIOUS
    <3>4. QED
      BY <3>1, <3>2, <3>3, HoldsStep
  <2>4. CASE mode[t] # "up"
    <3>1. holds' = [holds EXCEPT ![target[t]] = NoKey] /\ target[t] \in Place
      BY <1>17, <2>4 DEF Put
    <3>2. NoKey \in (Key \cap made') \cup {NoKey} /\ made \subseteq made'
      BY <2>2
    <3>3. QED
      BY <3>1, <3>2, HoldsStep
  <2>5. QED
    BY <2>3, <2>4
<1>18. ASSUME NEW t \in Thread, Unlock(t) PROVE HoldsMade'
  BY <1>18 DEF Unlock, Goto, Leave, RefsFirst
<1>19. ASSUME NEW t \in Thread, Destroy(t) PROVE HoldsMade'
  <2>1. arg[t] \in Key /\ Disposes(t, arg[t]) /\ Holders(arg[t]) = {}
    BY <1>19 DEF Destroy, Disposes, Disposal
  <2>2. \A p \in Place : holds[p] # arg[t]
    BY <2>1 DEF Holders
  <2>3. QED
    BY <1>19, <2>1, <2>2 DEF Destroy
<1>20. ASSUME NEW t \in Thread, Keep(t) PROVE HoldsMade'
  <2>1. ctx[t] \in Ctx \cap made /\ target[t] \in {KeyOf(ctx[t]), PeerOf(ctx[t])}
    <3>1. call[t] \in {"init", "peer", "dup"} /\ ctx[t] \in Ctx
      BY <1>20 DEF Keep
    <3>2. {ctx[t], src[t]} \subseteq made \cup {NoCtx}
      BY <3>1
    <3>3. QED
      BY <3>1, <3>2
  <2>2. /\ holds' = [holds EXCEPT ![target[t]] = holds[Local(t)], ![Local(t)] = NoKey]
        /\ UNCHANGED made
    BY <1>20 DEF Keep
  <2>3. /\ Local(t) \in Place /\ target[t] \in Place /\ target[t] # Local(t)
        /\ \A k \in Key : target[t] # Evp(k)
    BY ONLY <2>1, PlacesDiffer
  <2>4. \A p \in Place : holds'[p] = IF p = Local(t) THEN NoKey
                                     ELSE IF p = target[t] THEN holds[Local(t)] ELSE holds[p]
    BY <2>2, <2>3
  <2>5. \A k \in Key : holds'[Evp(k)] \in {k, NoKey}
    BY <2>3, <2>4
  <2>6. \A c \in Ctx \ made' : holds'[KeyOf(c)] = NoKey /\ holds'[PeerOf(c)] = NoKey
    BY <2>1, <2>2, <2>4
  <2>7. \A p \in Place : holds'[p] # NoKey => holds'[p] \in made'
    BY <2>2, <2>3, <2>4
  <2>8. QED
    BY <2>5, <2>6, <2>7
<1>21. ASSUME NEW t \in Thread, Succeed(t) PROVE HoldsMade'
  BY <1>21 DEF Succeed, Leave, Goto
<1>22. ASSUME NEW t \in Thread, InitFails(t) PROVE HoldsMade'
  BY <1>22 DEF InitFails, Leave, Goto
<1>23. ASSUME NEW t \in Thread, DupFails(t) PROVE HoldsMade'
  BY <1>23 DEF DupFails, Goto
<1>24. ASSUME NEW t \in Thread, Gone(t) PROVE HoldsMade'
  <2>1. /\ ctx[t] \in Ctx /\ holds[KeyOf(ctx[t])] = NoKey /\ holds[PeerOf(ctx[t])] = NoKey
    BY <1>24 DEF Gone, Vouched, VouchedAt
  <2>2. made' = made \ {ctx[t]} /\ UNCHANGED holds
    BY <1>24 DEF Gone
  <2>3. QED
    BY <2>1, <2>2
<1>25. ASSUME NEW t \in Thread, Signed(t) PROVE HoldsMade'
  BY <1>25 DEF Signed, Goto, LockedRegion
<1>26. ASSUME NEW t \in Thread, TakeRng(t) PROVE HoldsMade'
  BY <1>26 DEF TakeRng, Goto
<1>27. ASSUME NEW t \in Thread, Decrypted(t) PROVE HoldsMade'
  BY <1>27 DEF Decrypted, Goto
<1>28. ASSUME NEW t \in Thread, ClearRng(t) PROVE HoldsMade'
  BY <1>28 DEF ClearRng, Leave, Goto
<1>29. CASE UNCHANGED vars
  BY <1>29 DEF vars
<1>30. QED
  BY NextCases, <1>1, <1>2, <1>3, <1>4, <1>5, <1>6, <1>7, <1>8, <1>9, <1>10, <1>11,
     <1>12, <1>13, <1>14, <1>15, <1>16, <1>17, <1>18, <1>19, <1>20, <1>21, <1>22,
     <1>23, <1>24, <1>25, <1>26, <1>27, <1>28, <1>29 DEF Step

LEMMA NextMutexHeld == IInv /\ [Next]_vars => MutexHeld'
<1> SUFFICES ASSUME IInv, [Next]_vars PROVE MutexHeld'
  OBVIOUS
<1> USE KeyRefAssumption, PlacesDiffer
        DEF IInv, TypeOK, LocalTypeOK, CallAtPc, Exclusive, Raises, Lowers, AtMutex,
            Works, keyVars, locals, MutexHeld
<1>1. ASSUME NEW t \in Thread, NEW k \in Key, NewKey(t, k) PROVE MutexHeld'
  BY <1>1 DEF NewKey
<1>2. ASSUME NEW t \in Thread, NEW k \in Key, Drop(t, k) PROVE MutexHeld'
  BY <1>2 DEF Drop, Enter, Goto, Unshared
<1>3. ASSUME NEW t \in Thread, NEW c \in Ctx, NewCtx(t, c) PROVE MutexHeld'
  BY <1>3 DEF NewCtx
<1>4. ASSUME NEW t \in Thread, NEW c \in Ctx, FreeCtx(t, c) PROVE MutexHeld'
  BY <1>4 DEF FreeCtx, Enter, Goto, Unshared, Inside
<1>5. ASSUME NEW t \in Thread, NEW c \in Ctx, SignOf(t, c) PROVE MutexHeld'
  BY <1>5 DEF SignOf, Enter, Goto, Inside, Set
<1>6. ASSUME NEW t \in Thread, NEW c \in Ctx, Decrypt(t, c) PROVE MutexHeld'
  BY <1>6 DEF Decrypt, Enter, Goto, Inside, Set
<1>7. ASSUME NEW t \in Thread, NEW c \in Ctx, Refuses(t, c) PROVE MutexHeld'
  BY <1>7 DEF Refuses
<1>8. ASSUME NEW t \in Thread, NEW c \in Ctx, NEW d \in Ctx, DupCtx(t, c, d)
      PROVE  MutexHeld'
  BY <1>8 DEF DupCtx, Enter, Goto, Unshared, Inside, Set
<1>9. ASSUME NEW t \in Thread, NEW c \in Ctx, NEW k \in Key, RefInit(t, c, k)
      PROVE  MutexHeld'
  BY <1>9 DEF RefInit, EvpUsable, RefThenFree, Startable, Enter, Goto, Unshared,
              Inside
<1>10. ASSUME NEW t \in Thread, NEW c \in Ctx, NEW k \in Key, FreeInit(t, c, k)
       PROVE  MutexHeld'
  BY <1>10 DEF FreeInit, EvpUsable, FreeThenRef, Startable, Enter, Goto, Unshared,
               Inside
<1>11. ASSUME NEW t \in Thread, NEW c \in Ctx, NEW k \in Key, PeerInit(t, c, k)
       PROVE  MutexHeld'
  BY <1>11 DEF PeerInit, EvpUsable, FreeThenRef, Startable, Enter, Goto, Unshared,
               Inside
<1>12. ASSUME NEW t \in Thread, Ref(t) PROVE MutexHeld'
  BY <1>12 DEF Ref, Goto, LockedRegion
<1>13. ASSUME NEW t \in Thread, Release(t) PROVE MutexHeld'
  BY <1>13 DEF Release, Goto, Leave, RefsFirst
<1>14. ASSUME NEW t \in Thread, Lock(t) PROVE MutexHeld'
  BY <1>14 DEF Lock, Goto, LockedRegion
<1>15. ASSUME NEW t \in Thread, LockFails(t) PROVE MutexHeld'
  BY <1>15 DEF LockFails, Goto, Leave
<1>16. ASSUME NEW t \in Thread, Get(t) PROVE MutexHeld'
  BY <1>16 DEF Get, Goto, LockedRegion
<1>17. ASSUME NEW t \in Thread, Put(t) PROVE MutexHeld'
  BY <1>17 DEF Put, Goto, LockedRegion
<1>18. ASSUME NEW t \in Thread, Unlock(t) PROVE MutexHeld'
  <2>1. mutex' = [mutex EXCEPT ![arg[t]] = NoThread] /\ arg[t] \in Key
    BY <1>18 DEF Unlock
  <2>2. /\ pc'[t] \notin {"get", "put", "unlock", "sign"}
        /\ \A u \in Thread \ {t} : pc'[u] = pc[u] /\ arg'[u] = arg[u]
    <3>1. CASE mode[t] = "sign"
      BY <1>18, <3>1 DEF Unlock, Leave, Goto
    <3>2. CASE mode[t] # "sign"
      <4>1. UNCHANGED arg /\ \E where \in {"destroy", "release", "keep"} :
                              pc' = [pc EXCEPT ![t] = where]
        BY <1>18, <3>2 DEF Unlock, Goto
      <4>2. QED
        BY <4>1
    <3>3. QED
      BY <3>1, <3>2
  <2>3. QED
    BY <1>18, <2>1, <2>2 DEF Unlock
<1>19. ASSUME NEW t \in Thread, Destroy(t) PROVE MutexHeld'
  BY <1>19 DEF Destroy, Goto
<1>20. ASSUME NEW t \in Thread, Keep(t) PROVE MutexHeld'
  BY <1>20 DEF Keep, Goto
<1>21. ASSUME NEW t \in Thread, Succeed(t) PROVE MutexHeld'
  BY <1>21 DEF Succeed, Leave, Goto
<1>22. ASSUME NEW t \in Thread, InitFails(t) PROVE MutexHeld'
  BY <1>22 DEF InitFails, Leave, Goto
<1>23. ASSUME NEW t \in Thread, DupFails(t) PROVE MutexHeld'
  BY <1>23 DEF DupFails, Goto
<1>24. ASSUME NEW t \in Thread, Gone(t) PROVE MutexHeld'
  BY <1>24 DEF Gone, Leave, Goto
<1>25. ASSUME NEW t \in Thread, Signed(t) PROVE MutexHeld'
  BY <1>25 DEF Signed, Goto, LockedRegion
<1>26. ASSUME NEW t \in Thread, TakeRng(t) PROVE MutexHeld'
  BY <1>26 DEF TakeRng, Goto
<1>27. ASSUME NEW t \in Thread, Decrypted(t) PROVE MutexHeld'
  BY <1>27 DEF Decrypted, Goto
<1>28. ASSUME NEW t \in Thread, ClearRng(t) PROVE MutexHeld'
  BY <1>28 DEF ClearRng, Leave, Goto
<1>29. CASE UNCHANGED vars
  BY <1>29 DEF vars
<1>30. QED
  BY NextCases, <1>1, <1>2, <1>3, <1>4, <1>5, <1>6, <1>7, <1>8, <1>9, <1>10, <1>11,
     <1>12, <1>13, <1>14, <1>15, <1>16, <1>17, <1>18, <1>19, <1>20, <1>21, <1>22,
     <1>23, <1>24, <1>25, <1>26, <1>27, <1>28, <1>29 DEF Step

LEMMA NextKeyRng == IInv /\ [Next]_vars => KeyRngInUse'
<1> SUFFICES ASSUME IInv, [Next]_vars PROVE KeyRngInUse'
  OBVIOUS
<1> USE KeyRefAssumption, PlacesDiffer
        DEF IInv, TypeOK, LocalTypeOK, CallAtPc, Exclusive, Raises, Lowers, AtMutex,
            Works, keyVars, locals, KeyRngInUse
<1>1. ASSUME NEW t \in Thread, NEW k \in Key, NewKey(t, k) PROVE KeyRngInUse'
  BY <1>1 DEF NewKey
<1>2. ASSUME NEW t \in Thread, NEW k \in Key, Drop(t, k) PROVE KeyRngInUse'
  BY <1>2 DEF Drop, Enter, Goto, Unshared
<1>3. ASSUME NEW t \in Thread, NEW c \in Ctx, NewCtx(t, c) PROVE KeyRngInUse'
  BY <1>3 DEF NewCtx
<1>4. ASSUME NEW t \in Thread, NEW c \in Ctx, FreeCtx(t, c) PROVE KeyRngInUse'
  BY <1>4 DEF FreeCtx, Enter, Goto, Unshared, Inside
<1>5. ASSUME NEW t \in Thread, NEW c \in Ctx, SignOf(t, c) PROVE KeyRngInUse'
  BY <1>5 DEF SignOf, Enter, Goto, Inside, Set
<1>6. ASSUME NEW t \in Thread, NEW c \in Ctx, Decrypt(t, c) PROVE KeyRngInUse'
  BY <1>6 DEF Decrypt, Enter, Goto, Inside, Set
<1>7. ASSUME NEW t \in Thread, NEW c \in Ctx, Refuses(t, c) PROVE KeyRngInUse'
  BY <1>7 DEF Refuses
<1>8. ASSUME NEW t \in Thread, NEW c \in Ctx, NEW d \in Ctx, DupCtx(t, c, d)
      PROVE  KeyRngInUse'
  BY <1>8 DEF DupCtx, Enter, Goto, Unshared, Inside, Set
<1>9. ASSUME NEW t \in Thread, NEW c \in Ctx, NEW k \in Key, RefInit(t, c, k)
      PROVE  KeyRngInUse'
  BY <1>9 DEF RefInit, EvpUsable, RefThenFree, Startable, Enter, Goto, Unshared,
              Inside
<1>10. ASSUME NEW t \in Thread, NEW c \in Ctx, NEW k \in Key, FreeInit(t, c, k)
       PROVE  KeyRngInUse'
  BY <1>10 DEF FreeInit, EvpUsable, FreeThenRef, Startable, Enter, Goto, Unshared,
               Inside
<1>11. ASSUME NEW t \in Thread, NEW c \in Ctx, NEW k \in Key, PeerInit(t, c, k)
       PROVE  KeyRngInUse'
  BY <1>11 DEF PeerInit, EvpUsable, FreeThenRef, Startable, Enter, Goto, Unshared,
               Inside
<1>12. ASSUME NEW t \in Thread, Ref(t) PROVE KeyRngInUse'
  BY <1>12 DEF Ref, Goto, LockedRegion
<1>13. ASSUME NEW t \in Thread, Release(t) PROVE KeyRngInUse'
  BY <1>13 DEF Release, Goto, Leave, RefsFirst
<1>14. ASSUME NEW t \in Thread, Lock(t) PROVE KeyRngInUse'
  BY <1>14 DEF Lock, Goto, LockedRegion
<1>15. ASSUME NEW t \in Thread, LockFails(t) PROVE KeyRngInUse'
  BY <1>15 DEF LockFails, Goto, Leave
<1>16. ASSUME NEW t \in Thread, Get(t) PROVE KeyRngInUse'
  BY <1>16 DEF Get, Goto, LockedRegion
<1>17. ASSUME NEW t \in Thread, Put(t) PROVE KeyRngInUse'
  BY <1>17 DEF Put, Goto, LockedRegion
<1>18. ASSUME NEW t \in Thread, Unlock(t) PROVE KeyRngInUse'
  <2>0. call[t] # "decrypt" /\ UNCHANGED keyRng
    BY <1>18 DEF Unlock
  <2>1. /\ UNCHANGED keyRng /\ call[t] # "decrypt"
        /\ \A u \in Thread \ {t} : call'[u] = call[u] /\ ctx'[u] = ctx[u] /\ want'[u] = want[u]
    <3>1. CASE mode[t] = "sign"
      BY <1>18, <2>0, <3>1 DEF Unlock, Leave
    <3>2. CASE mode[t] # "sign"
      <4>1. CASE mode[t] = "up"
        BY <1>18, <2>0, <4>1 DEF Unlock
      <4>2. CASE mode[t] = "down"
        BY <1>18, <2>0, <4>2 DEF Unlock
      <4>3. QED
        BY <3>2, <4>1, <4>2
    <3>3. QED
      BY <3>1, <3>2
  <2>2. QED
    BY <2>1
<1>19. ASSUME NEW t \in Thread, Destroy(t) PROVE KeyRngInUse'
  BY <1>19 DEF Destroy, Goto
<1>20. ASSUME NEW t \in Thread, Keep(t) PROVE KeyRngInUse'
  BY <1>20 DEF Keep, Goto
<1>21. ASSUME NEW t \in Thread, Succeed(t) PROVE KeyRngInUse'
  BY <1>21 DEF Succeed, Leave, Goto
<1>22. ASSUME NEW t \in Thread, InitFails(t) PROVE KeyRngInUse'
  BY <1>22 DEF InitFails, Leave, Goto
<1>23. ASSUME NEW t \in Thread, DupFails(t) PROVE KeyRngInUse'
  BY <1>23 DEF DupFails, Goto
<1>24. ASSUME NEW t \in Thread, Gone(t) PROVE KeyRngInUse'
  BY <1>24 DEF Gone, Leave, Goto
<1>25. ASSUME NEW t \in Thread, Signed(t) PROVE KeyRngInUse'
  BY <1>25 DEF Signed, Goto, LockedRegion
<1>26. ASSUME NEW t \in Thread, TakeRng(t) PROVE KeyRngInUse'
  BY <1>26 DEF TakeRng, Goto
<1>27. ASSUME NEW t \in Thread, Decrypted(t) PROVE KeyRngInUse'
  BY <1>27 DEF Decrypted, Goto
<1>28. ASSUME NEW t \in Thread, ClearRng(t) PROVE KeyRngInUse'
  BY <1>28 DEF ClearRng, Leave, Goto
<1>29. CASE UNCHANGED vars
  BY <1>29 DEF vars
<1>30. QED
  BY NextCases, <1>1, <1>2, <1>3, <1>4, <1>5, <1>6, <1>7, <1>8, <1>9, <1>10, <1>11,
     <1>12, <1>13, <1>14, <1>15, <1>16, <1>17, <1>18, <1>19, <1>20, <1>21, <1>22,
     <1>23, <1>24, <1>25, <1>26, <1>27, <1>28, <1>29 DEF Step

(* What a step of one thread leaves to the others: their locals, and every   *)
(* place but the one it moves, its own local, and the EVP_PKEY of a new key. *)
Leaves(u) ==
  /\ UNCHANGED kind
  /\ \A t \in Thread \ {u} :
       /\ pc'[t] = pc[t] /\ call'[t] = call[t] /\ ctx'[t] = ctx[t] /\ src'[t] = src[t]
       /\ want'[t] = want[t] /\ target'[t] = target[t] /\ mode'[t] = mode[t]
       /\ arg'[t] = arg[t] /\ cnt'[t] = cnt[t]
  /\ \A p \in Place :
       \/ holds'[p] = holds[p]
       \/ Moves(u) /\ p \in {target[u], Local(u)}
       \/ \E k \in Key \ made : p = Evp(k)

LEMMA StepLeaves ==
  ASSUME IInv, NEW t \in Thread, Step(t)
  PROVE  Leaves(t)
<1> USE KeyRefAssumption, PlacesDiffer
        DEF IInv, TypeOK, LocalTypeOK, CallAtPc, Raises, Lowers, AtMutex, RefsFirst, keyVars, locals, Works, Leaves, Moves
<1>1. ASSUME NEW k \in Key, NewKey(t, k) PROVE Leaves(t)
  BY <1>1 DEF NewKey
<1>2. ASSUME NEW k \in Key, Drop(t, k) PROVE Leaves(t)
  BY <1>2 DEF Drop, Enter, Goto, Unshared
<1>3. ASSUME NEW c \in Ctx, NewCtx(t, c) PROVE Leaves(t)
  BY <1>3 DEF NewCtx
<1>4. ASSUME NEW c \in Ctx, FreeCtx(t, c) PROVE Leaves(t)
  BY <1>4 DEF FreeCtx, Enter, Goto, Unshared, Inside
<1>5. ASSUME NEW c \in Ctx, SignOf(t, c) PROVE Leaves(t)
  BY <1>5 DEF SignOf, Enter, Goto, Inside, Set
<1>6. ASSUME NEW c \in Ctx, Decrypt(t, c) PROVE Leaves(t)
  BY <1>6 DEF Decrypt, Enter, Goto, Inside, Set
<1>7. ASSUME NEW c \in Ctx, Refuses(t, c) PROVE Leaves(t)
  BY <1>7 DEF Refuses
<1>8. ASSUME NEW c \in Ctx, NEW d \in Ctx, DupCtx(t, c, d) PROVE Leaves(t)
  BY <1>8 DEF DupCtx, Enter, Goto, Unshared, Inside, Set
<1>9. ASSUME NEW c \in Ctx, NEW k \in Key, RefInit(t, c, k) PROVE Leaves(t)
  BY <1>9 DEF RefInit, EvpUsable, RefThenFree, Startable, Enter, Goto, Unshared,
              Inside
<1>10. ASSUME NEW c \in Ctx, NEW k \in Key, FreeInit(t, c, k) PROVE Leaves(t)
  BY <1>10 DEF FreeInit, EvpUsable, FreeThenRef, Startable, Enter, Goto, Unshared,
               Inside
<1>11. ASSUME NEW c \in Ctx, NEW k \in Key, PeerInit(t, c, k) PROVE Leaves(t)
  BY <1>11 DEF PeerInit, EvpUsable, FreeThenRef, Startable, Enter, Goto, Unshared,
               Inside
<1>12. ASSUME Ref(t) PROVE Leaves(t)
  BY <1>12 DEF Ref, Goto, LockedRegion
<1>13. ASSUME Release(t) PROVE Leaves(t)
  BY <1>13 DEF Release, Goto, Leave, RefsFirst
<1>14. ASSUME Lock(t) PROVE Leaves(t)
  BY <1>14 DEF Lock, Goto, LockedRegion
<1>15. ASSUME LockFails(t) PROVE Leaves(t)
  BY <1>15 DEF LockFails, Goto, Leave
<1>16. ASSUME Get(t) PROVE Leaves(t)
  BY <1>16 DEF Get, Goto, LockedRegion
<1>17. ASSUME Put(t) PROVE Leaves(t)
  BY <1>17 DEF Put, Goto, LockedRegion
<1>18. ASSUME Unlock(t) PROVE Leaves(t)
  <2>1. CASE mode[t] = "sign"
    BY <1>18, <2>1 DEF Unlock, Goto, Leave
  <2>2. CASE mode[t] # "sign"
    <3>1. UNCHANGED <<call, locals, kind, holds>>
      BY <1>18, <2>2 DEF Unlock
    <3>2. \E where \in {"destroy", "release", "keep"} : pc' = [pc EXCEPT ![t] = where]
      BY <1>18, <2>2 DEF Unlock, Goto
    <3>3. QED
      BY <3>1, <3>2
  <2>3. QED
    BY <2>1, <2>2
<1>19. ASSUME Destroy(t) PROVE Leaves(t)
  BY <1>19 DEF Destroy, Goto
<1>20. ASSUME Keep(t) PROVE Leaves(t)
  BY <1>20 DEF Keep, Goto
<1>21. ASSUME Succeed(t) PROVE Leaves(t)
  BY <1>21 DEF Succeed, Leave, Goto
<1>22. ASSUME InitFails(t) PROVE Leaves(t)
  BY <1>22 DEF InitFails, Leave, Goto
<1>23. ASSUME DupFails(t) PROVE Leaves(t)
  BY <1>23 DEF DupFails, Goto
<1>24. ASSUME Gone(t) PROVE Leaves(t)
  BY <1>24 DEF Gone, Leave, Goto
<1>25. ASSUME Signed(t) PROVE Leaves(t)
  BY <1>25 DEF Signed, Goto, LockedRegion
<1>26. ASSUME TakeRng(t) PROVE Leaves(t)
  BY <1>26 DEF TakeRng, Goto
<1>27. ASSUME Decrypted(t) PROVE Leaves(t)
  BY <1>27 DEF Decrypted, Goto
<1>28. ASSUME ClearRng(t) PROVE Leaves(t)
  BY <1>28 DEF ClearRng, Leave, Goto
<1>29. QED
  BY <1>1, <1>2, <1>3, <1>4, <1>5, <1>6, <1>7, <1>8, <1>9, <1>10, <1>11, <1>12,
     <1>13, <1>14, <1>15, <1>16, <1>17, <1>18, <1>19, <1>20, <1>21, <1>22, <1>23,
     <1>24, <1>25, <1>26, <1>27, <1>28 DEF Step

LEMMA LeftAlone ==
  ASSUME IInv, NEW u \in Thread, NEW t \in Thread \ {u}, Leaves(u)
  PROVE  VouchedAt(t)' /\ LocalsAt(t)'
<1> USE KeyRefAssumption, PlacesDiffer
        DEF Raises, Lowers, AtMutex, RefsFirst
<1>1. VouchedAt(t) /\ LocalsAt(t) /\ HoldsMade /\ TypeOK /\ CallAtPc
  BY DEF IInv, Vouched, Locals
<1>2. /\ pc'[t] = pc[t] /\ call'[t] = call[t] /\ ctx'[t] = ctx[t] /\ src'[t] = src[t]
      /\ want'[t] = want[t] /\ target'[t] = target[t] /\ mode'[t] = mode[t]
      /\ arg'[t] = arg[t] /\ kind' = kind
  BY DEF Leaves
<1>3. ASSUME NEW p \in Place, p # Local(u), Moves(u) => p # target[u],
             \A k \in Key \ made : p # Evp(k)
      PROVE  holds'[p] = holds[p]
  BY <1>3 DEF Leaves
<1>4. holds'[Local(t)] = holds[Local(t)]
  <2>1. Moves(u) => target[u] # Local(t)
    BY TargetShape
  <2>2. QED
    BY <1>3, <2>1
<1>5. CASE call[t] = "none"
  <2>1. pc[t] = "idle"
    BY <1>1, <1>5 DEF CallAtPc
  <2>2. QED
    BY <1>1, <1>2, <1>4, <1>5, <2>1 DEF VouchedAt, LocalsAt, HasLocal
<1>6. CASE call[t] # "none"
  <2>1. ctx[t] \in Ctx /\ src[t] \in Ctx =>
          /\ holds'[KeyOf(ctx[t])] = holds[KeyOf(ctx[t])]
          /\ holds'[PeerOf(ctx[t])] = holds[PeerOf(ctx[t])]
          /\ holds'[KeyOf(src[t])] = holds[KeyOf(src[t])]
          /\ holds'[PeerOf(src[t])] = holds[PeerOf(src[t])]
    BY <1>3, <1>6, Undisturbed
  <2>2. call[t] \in {"init", "peer"} => holds'[Evp(want[t])] = holds[Evp(want[t])]
    <3>1. SUFFICES ASSUME call[t] \in {"init", "peer"}
                   PROVE  holds'[Evp(want[t])] = holds[Evp(want[t])]
      OBVIOUS
    <3>2. want[t] \in Key \cap made /\ Evp(want[t]) \in Place
      BY <1>1, <3>1 DEF VouchedAt, HoldsMade, CallAtPc
    <3>3. QED
      BY <1>3, <1>6, <3>1, <3>2, Undisturbed
  <2>3. Moves(t) /\ holds[target[t]] = arg[t] /\ arg[t] \in Key
          => holds'[target[t]] = arg[t]
    <3>1. SUFFICES ASSUME Moves(t), holds[target[t]] = arg[t], arg[t] \in Key
                   PROVE  holds'[target[t]] = arg[t]
      OBVIOUS
    <3>2. target[t] \in Place /\ target[t] # Local(u)
      <4>1. CASE target[t] = Evp(want[t]) /\ want[t] \in Key
        BY <4>1
      <4>2. CASE ctx[t] \in Ctx /\ target[t] \in {KeyOf(ctx[t]), PeerOf(ctx[t])}
        BY <4>2
      <4>3. QED
        BY <3>1, <4>1, <4>2, TargetShape
    <3>3. \A k \in Key \ made : target[t] # Evp(k)
      BY <1>1, <3>1, <3>2 DEF HoldsMade
    <3>4. QED
      BY <1>3, <1>6, <3>1, <3>2, <3>3, Undisturbed
  <2> DEFINE InCtx == call[t] \in {"init", "peer", "dup", "free", "sign", "decrypt"}
  <2>4. /\ InCtx => ctx[t] \in Ctx /\ src[t] \in Ctx
        /\ call[t] \in {"init", "peer", "dup", "free"} =>
             target[t] \in {KeyOf(ctx[t]), PeerOf(ctx[t])}
        /\ pc[t] = "gone" => call[t] = "free"
        /\ pc[t] = "keep" \/ Raises(t) => call[t] \in {"init", "peer", "dup"}
        /\ Lowers(t) => Moves(t) /\ arg[t] \in Key
    BY <1>1, <1>6 DEF CallAtPc, Works, Moves, TypeOK, LocalTypeOK
  <2>5. VouchedAt(t)'
    <3>1. /\ (call[t] \in {"init", "peer"} => holds[Evp(want[t])] = want[t])'
          /\ (call[t] \in {"sign", "decrypt"} => want[t] = holds[KeyOf(ctx[t])])'
          /\ (Lowers(t) /\ pc[t] # "unlock" => holds[target[t]] = arg[t])'
          /\ (call[t] = "free" /\ target[t] = KeyOf(ctx[t]) => holds[PeerOf(ctx[t])] = NoKey)'
          /\ (pc[t] = "gone" => holds[KeyOf(ctx[t])] = NoKey)'
      BY ONLY <1>1, <1>2, <2>1, <2>2, <2>3, <2>4 DEF VouchedAt, Lowers, AtMutex
    <3>2. (call[t] = "dup" /\ Raises(t) =>
             want[t] = holds[IF target[t] = KeyOf(ctx[t]) THEN KeyOf(src[t])
                             ELSE PeerOf(src[t])])'
      BY ONLY <1>1, <1>2, <2>1, <2>4 DEF VouchedAt, Raises, AtMutex
    <3>3. (call[t] = "dup" /\ target[t] = KeyOf(ctx[t]) /\ pc[t] # "params" =>
             holds[PeerOf(ctx[t])] = NoKey)'
      BY ONLY <1>1, <1>2, <2>1, <2>4 DEF VouchedAt
    <3>4. QED
      BY <3>1, <3>2, <3>3 DEF VouchedAt
  <2>6. LocalsAt(t)'
    BY ONLY <1>1, <1>2, <1>4, <2>1, <2>4
       DEF LocalsAt, HasLocal, Raises, Lowers, AtMutex, RefsFirst
  <2>7. QED
    BY <2>5, <2>6
<1>7. QED
  BY <1>5, <1>6

LEMMA StepVouched ==
  ASSUME IInv, NEW t \in Thread, Step(t)
  PROVE  VouchedAt(t)' /\ LocalsAt(t)'
<1> USE KeyRefAssumption, PlacesDiffer
        DEF IInv, TypeOK, LocalTypeOK, CallAtPc, Raises, Lowers, AtMutex, RefsFirst, HasLocal, VouchedAt, LocalsAt, Works, keyVars, locals
<1>0. VouchedAt(t) /\ LocalsAt(t)
  BY DEF IInv, Vouched, Locals
<1>1. ASSUME NEW k \in Key, NewKey(t, k) PROVE VouchedAt(t)' /\ LocalsAt(t)'
  <2>1. pc[t] = "idle" /\ call[t] = "none" /\ UNCHANGED <<kind, pc, call, locals>>
    BY <1>0, <1>1 DEF NewKey
  <2>2. holds'[Local(t)] = holds[Local(t)]
    <3>1. holds' = [holds EXCEPT ![Evp(k)] = k] /\ Local(t) # Evp(k)
      BY <1>1 DEF NewKey
    <3>2. QED
      BY <3>1
  <2>3. QED
    BY <1>0, <2>1, <2>2
<1>2. ASSUME NEW k \in Key, Drop(t, k) PROVE VouchedAt(t)' /\ LocalsAt(t)'
  BY <1>0, <1>2 DEF Drop, Enter, Goto, Unshared
<1>3. ASSUME NEW c \in Ctx, NewCtx(t, c) PROVE VouchedAt(t)' /\ LocalsAt(t)'
  BY <1>0, <1>3 DEF NewCtx
<1>4. ASSUME NEW c \in Ctx, FreeCtx(t, c) PROVE VouchedAt(t)' /\ LocalsAt(t)'
  BY <1>0, <1>4 DEF FreeCtx, Enter, Goto, Unshared, Inside
<1>5. ASSUME NEW c \in Ctx, SignOf(t, c) PROVE VouchedAt(t)' /\ LocalsAt(t)'
  BY <1>0, <1>5 DEF SignOf, Enter, Goto, Inside, Set
<1>6. ASSUME NEW c \in Ctx, Decrypt(t, c) PROVE VouchedAt(t)' /\ LocalsAt(t)'
  BY <1>0, <1>6 DEF Decrypt, Enter, Goto, Inside, Set
<1>7. ASSUME NEW c \in Ctx, Refuses(t, c) PROVE VouchedAt(t)' /\ LocalsAt(t)'
  BY <1>0, <1>7 DEF Refuses
<1>8. ASSUME NEW c \in Ctx, NEW d \in Ctx, DupCtx(t, c, d)
      PROVE  VouchedAt(t)' /\ LocalsAt(t)'
  <2>1. /\ call'[t] = "dup" /\ pc'[t] = "ref" /\ ctx'[t] = d /\ src'[t] = c
        /\ want'[t] = holds[KeyOf(c)] /\ target'[t] = KeyOf(d) /\ UNCHANGED <<holds, kind>>
    BY <1>0, <1>8 DEF DupCtx, Enter, Goto, Unshared
  <2>2. pc[t] = "idle" /\ call[t] = "none" /\ d \notin made
    BY <1>0, <1>8 DEF DupCtx, Enter
  <2>3. holds[KeyOf(d)] = NoKey /\ holds[PeerOf(d)] = NoKey
    BY <1>0, <2>2 DEF HoldsMade
  <2>4. holds[Local(t)] = NoKey
    BY <1>0, <2>2
  <2>5. QED
    BY <2>1, <2>3, <2>4
<1>9. ASSUME NEW c \in Ctx, NEW k \in Key, RefInit(t, c, k)
      PROVE  VouchedAt(t)' /\ LocalsAt(t)'
  BY <1>0, <1>9 DEF RefInit, EvpUsable, RefThenFree, Startable, Enter, Goto,
                    Unshared, Inside
<1>10. ASSUME NEW c \in Ctx, NEW k \in Key, FreeInit(t, c, k)
       PROVE  VouchedAt(t)' /\ LocalsAt(t)'
  BY <1>0, <1>10 DEF FreeInit, EvpUsable, FreeThenRef, Startable, Enter, Goto,
                     Unshared, Inside
<1>11. ASSUME NEW c \in Ctx, NEW k \in Key, PeerInit(t, c, k)
       PROVE  VouchedAt(t)' /\ LocalsAt(t)'
  BY <1>0, <1>11 DEF PeerInit, EvpUsable, FreeThenRef, Startable, Enter, Goto,
                     Unshared, Inside
<1>12. ASSUME Ref(t) PROVE VouchedAt(t)' /\ LocalsAt(t)'
  BY <1>0, <1>12 DEF Ref, Goto, LockedRegion
<1>13. ASSUME Release(t) PROVE VouchedAt(t)' /\ LocalsAt(t)'
  BY <1>0, <1>13 DEF Release, Goto, Leave, RefsFirst
<1>14. ASSUME Lock(t) PROVE VouchedAt(t)' /\ LocalsAt(t)'
  BY <1>0, <1>14 DEF Lock, Goto, LockedRegion
<1>15. ASSUME LockFails(t) PROVE VouchedAt(t)' /\ LocalsAt(t)'
  BY <1>0, <1>15 DEF LockFails, Goto, Leave
<1>16. ASSUME Get(t) PROVE VouchedAt(t)' /\ LocalsAt(t)'
  BY <1>0, <1>16 DEF Get, Goto, LockedRegion
<1>17. ASSUME Put(t) PROVE VouchedAt(t)' /\ LocalsAt(t)'
  <2>1. UNCHANGED <<kind, call, ctx, src, want, target, mode, arg>> /\ pc'[t] = "unlock"
    BY <1>0, <1>17 DEF Put, Goto, LockedRegion
  <2>2. /\ pc[t] = "put" /\ mode[t] \in {"up", "down"} /\ Moves(t)
        /\ (mode[t] = "up" => call[t] \in {"init", "peer", "dup"} /\ arg[t] = want[t])
        /\ \/ want[t] \in Key /\ target[t] = Evp(want[t])
           \/ ctx[t] \in Ctx /\ target[t] \in {KeyOf(ctx[t]), PeerOf(ctx[t])}
    BY <1>0, <1>17 DEF Put, Moves
  <2>3. target[t] \in Place /\ Local(t) \in Place /\ target[t] # Local(t)
    BY ONLY <2>2, PlacesDiffer
  <2>4. CASE mode[t] = "up"
    <3>1. \A p \in Place : holds'[p] = IF p = Local(t) THEN want[t] ELSE holds[p]
      BY <1>0, <1>17, <2>2, <2>4 DEF Put
    <3>2. ctx[t] \in Ctx /\ src[t] \in Ctx /\ want[t] \in Key
          /\ target[t] \in {KeyOf(ctx[t]), PeerOf(ctx[t])}
      BY <1>0, <2>2, <2>4
    <3>3. VouchedAt(t)'
      BY ONLY <1>0, <2>1, <2>2, <2>4, <3>1, <3>2, PlacesDiffer
         DEF VouchedAt, Raises, Lowers, AtMutex
    <3>4. LocalsAt(t)'
      BY ONLY <1>0, <2>1, <2>2, <2>3, <2>4, <3>1, PlacesDiffer
         DEF LocalsAt, HasLocal, Raises, Lowers, AtMutex, RefsFirst
    <3>5. QED
      BY <3>3, <3>4
  <2>5. CASE mode[t] = "down"
    <3>1. \A p \in Place : holds'[p] = IF p = target[t] THEN NoKey ELSE holds[p]
      BY <1>0, <1>17, <2>5 DEF Put
    <3>2. /\ call[t] \in {"drop", "init", "peer", "free"}
          /\ call[t] # "drop" => /\ ctx[t] \in Ctx
                                 /\ target[t] \in {KeyOf(ctx[t]), PeerOf(ctx[t])}
          /\ call[t] \in {"init", "peer"} => want[t] \in Key
      BY <1>0, <2>2, <2>5
    <3>3. VouchedAt(t)'
      BY ONLY <1>0, <2>1, <2>2, <2>5, <3>1, <3>2, PlacesDiffer
         DEF VouchedAt, Raises, Lowers, AtMutex
    <3>4. LocalsAt(t)'
      BY ONLY <1>0, <2>1, <2>2, <2>3, <2>5, <3>1, PlacesDiffer
         DEF LocalsAt, HasLocal, Raises, Lowers, AtMutex, RefsFirst
    <3>5. QED
      BY <3>3, <3>4
  <2>6. QED
    BY <2>2, <2>4, <2>5
<1>18. ASSUME Unlock(t) PROVE VouchedAt(t)' /\ LocalsAt(t)'
  <2>1. CASE mode[t] = "sign"
    <3>1. /\ call'[t] = "none" /\ pc'[t] = "idle" /\ UNCHANGED <<holds, kind>>
      BY <1>0, <1>18, <2>1 DEF Unlock, Leave, Goto
    <3>2. holds[Local(t)] = NoKey
      BY <1>0, <1>18, <2>1 DEF Unlock
    <3>3. QED
      BY <3>1, <3>2
  <2>2. CASE mode[t] = "down"
    <3>1. /\ UNCHANGED <<call, locals, holds, kind>> /\ pc'[t] \in {"destroy", "release"}
      BY <1>0, <1>18, <2>2 DEF Unlock, Goto
    <3>2. call[t] # "dup" /\ pc[t] = "unlock"
      BY <1>0, <1>18, <2>2 DEF Unlock
    <3>3. QED
      BY ONLY <1>0, <2>2, <3>1, <3>2
         DEF locals, VouchedAt, LocalsAt, HasLocal, Raises, Lowers, AtMutex, RefsFirst
  <2>3. CASE mode[t] = "up"
    <3>1. /\ UNCHANGED <<call, locals, holds, kind>> /\ pc[t] = "unlock"
          /\ pc'[t] = IF RefsFirst(t) THEN "release" ELSE "keep"
      BY <1>0, <1>18, <2>3 DEF Unlock, Goto
    <3>2. QED
      BY ONLY <1>0, <2>3, <3>1
         DEF locals, VouchedAt, LocalsAt, HasLocal, Raises, Lowers, AtMutex, RefsFirst
  <2>4. QED
    BY <1>0, <2>1, <2>2, <2>3
<1>19. ASSUME Destroy(t) PROVE VouchedAt(t)' /\ LocalsAt(t)'
  BY <1>0, <1>19 DEF Destroy, Goto
<1>20. ASSUME Keep(t) PROVE VouchedAt(t)' /\ LocalsAt(t)'
  <2>1. /\ call[t] \in {"init", "peer", "dup"} /\ ctx[t] \in Ctx /\ src[t] \in Ctx
        /\ target[t] \in {KeyOf(ctx[t]), PeerOf(ctx[t])} /\ want[t] \in Key
        /\ call[t] = "dup" => ctx[t] # src[t]
    BY <1>0, <1>20 DEF Keep
  <2>2. holds[Local(t)] = want[t] /\ target[t] \in Place /\ target[t] # Local(t)
    BY <1>0, <1>20, <2>1 DEF Keep
  <2>3. \A p \in Place : holds'[p] = IF p = Local(t) THEN NoKey
                                     ELSE IF p = target[t] THEN want[t] ELSE holds[p]
    BY <1>0, <1>20, <2>2 DEF Keep
  <2>4. UNCHANGED <<kind, call, ctx, src, mode, arg>> /\ pc[t] = "keep"
    BY <1>0, <1>20 DEF Keep
  <2>5. CASE call[t] = "dup" /\ target[t] = KeyOf(ctx[t]) /\ holds[PeerOf(src[t])] # NoKey
    <3>1. /\ want'[t] = holds[PeerOf(src[t])] /\ target'[t] = PeerOf(ctx[t])
          /\ pc'[t] = "ref"
      BY <1>0, <1>20, <2>5 DEF Keep, Goto
    <3>2. holds[PeerOf(ctx[t])] = NoKey
      BY <1>0, <2>4, <2>5
    <3>3. QED
      BY ONLY <1>0, <2>1, <2>3, <2>4, <2>5, <3>1, <3>2, PlacesDiffer
         DEF VouchedAt, LocalsAt, HasLocal, Raises, Lowers, AtMutex, RefsFirst
  <2>6. CASE ~(call[t] = "dup" /\ target[t] = KeyOf(ctx[t]) /\ holds[PeerOf(src[t])] # NoKey)
    <3>1. want' = want /\ target' = target /\ pc'[t] = "params"
      BY <1>0, <1>20, <2>6 DEF Keep, Goto
    <3>2. VouchedAt(t)'
      <4>1. CASE call[t] \in {"init", "peer"}
        <5>1. Evp(want[t]) \in Place /\ Evp(want[t]) \notin {Local(t), target[t]}
          BY ONLY <2>1, PlacesDiffer
        <5>2. QED
          BY ONLY <1>0, <2>3, <2>4, <3>1, <4>1, <5>1
             DEF VouchedAt, Raises, Lowers, AtMutex
      <4>2. CASE call[t] = "dup"
        BY ONLY <1>0, <2>4, <3>1, <4>2 DEF VouchedAt, Raises, Lowers, AtMutex
      <4>3. QED
        BY <2>1, <4>1, <4>2
    <3>3. LocalsAt(t)'
      <4>1. holds'[Local(t)] = NoKey
        BY ONLY <2>3, PlacesDiffer
      <4>2. QED
        BY ONLY <2>4, <3>1, <4>1
           DEF LocalsAt, HasLocal, Raises, Lowers, AtMutex, RefsFirst
    <3>4. QED
      BY <3>2, <3>3
  <2>7. QED
    BY <2>5, <2>6
<1>21. ASSUME Succeed(t) PROVE VouchedAt(t)' /\ LocalsAt(t)'
  BY <1>0, <1>21 DEF Succeed, Leave, Goto
<1>22. ASSUME InitFails(t) PROVE VouchedAt(t)' /\ LocalsAt(t)'
  BY <1>0, <1>22 DEF InitFails, Leave, Goto
<1>23. ASSUME DupFails(t) PROVE VouchedAt(t)' /\ LocalsAt(t)'
  BY <1>0, <1>23 DEF DupFails, Goto
<1>24. ASSUME Gone(t) PROVE VouchedAt(t)' /\ LocalsAt(t)'
  BY <1>0, <1>24 DEF Gone, Leave, Goto
<1>25. ASSUME Signed(t) PROVE VouchedAt(t)' /\ LocalsAt(t)'
  BY <1>0, <1>25 DEF Signed, Goto, LockedRegion
<1>26. ASSUME TakeRng(t) PROVE VouchedAt(t)' /\ LocalsAt(t)'
  BY <1>0, <1>26 DEF TakeRng, Goto
<1>27. ASSUME Decrypted(t) PROVE VouchedAt(t)' /\ LocalsAt(t)'
  BY <1>0, <1>27 DEF Decrypted, Goto
<1>28. ASSUME ClearRng(t) PROVE VouchedAt(t)' /\ LocalsAt(t)'
  BY <1>0, <1>28 DEF ClearRng, Leave, Goto
<1>29. QED
  BY <1>1, <1>2, <1>3, <1>4, <1>5, <1>6, <1>7, <1>8, <1>9, <1>10, <1>11, <1>12,
     <1>13, <1>14, <1>15, <1>16, <1>17, <1>18, <1>19, <1>20, <1>21, <1>22, <1>23,
     <1>24, <1>25, <1>26, <1>27, <1>28 DEF Step

LEMMA NextVouched == IInv /\ [Next]_vars => Vouched' /\ Locals'
<1> SUFFICES ASSUME IInv, [Next]_vars PROVE Vouched' /\ Locals'
  OBVIOUS
<1>1. ASSUME NEW t \in Thread, Step(t) PROVE Vouched' /\ Locals'
  BY <1>1, StepLeaves, LeftAlone, StepVouched DEF Vouched, Locals
<1>2. CASE UNCHANGED vars
  BY <1>2 DEF vars, keyVars, locals, IInv, Vouched, Locals, VouchedAt, LocalsAt,
              HasLocal,
              Raises, Lowers, AtMutex, RefsFirst
<1>3. QED
  BY <1>1, <1>2, NextCases

(* What a store into one place does to the sets of holders. *)
LEMMA HoldersChange ==
  ASSUME TypeOK, NEW x \in Place, NEW y,
         \A p \in Place : holds'[p] = IF p = x THEN y ELSE holds[p]
  PROVE  \A k :
    /\ k # y /\ k # holds[x] => Holders(k)' = Holders(k)
    /\ k = y => Holders(k)' = Holders(k) \cup {x}
    /\ k # y => Holders(k)' = Holders(k) \ {x}
BY DEF Holders, TypeOK

(* Moving a reference from one place to an empty one. *)
LEMMA HoldersMove ==
  ASSUME TypeOK, NEW x \in Place, NEW y \in Place, x # y, holds[x] = NoKey,
         \A p \in Place : holds'[p] = IF p = y THEN NoKey
                                      ELSE IF p = x THEN holds[y] ELSE holds[p]
  PROVE  \A k \in Key :
    /\ k # holds[y] => Holders(k)' = Holders(k)
    /\ k = holds[y] => Holders(k)' = (Holders(k) \ {y}) \cup {x}
                       /\ y \in Holders(k) /\ x \notin Holders(k)
BY KeyRefAssumption DEF Holders, TypeOK

(* The count a thread has read is still the count: the mutex is its own. *)
LEMMA NextCountRead == IInv /\ [Next]_vars => CountRead'
<1> SUFFICES ASSUME IInv, [Next]_vars PROVE CountRead'
  OBVIOUS
<1>0. TypeOK /\ LocalTypeOK /\ CallAtPc /\ CountRead /\ MutexHeld
  BY DEF IInv, TypeOK
<1> USE KeyRefAssumption
        DEF CallAtPc, Raises, Lowers, AtMutex, Works, keyVars, locals, TypeOK, LocalTypeOK, MutexHeld, CountRead
<1>1. ASSUME NEW t \in Thread, NEW k \in Key, NewKey(t, k) PROVE CountRead'
  <2>1. \A u \in Thread : Works(u) => arg[u] # k
    BY <1>0, <1>1, WorksHeld DEF NewKey
  <2>2. UNCHANGED <<pc, call, locals>> /\ made \subseteq made'
        /\ refCnt' = [refCnt EXCEPT ![k] = 1]
    BY <1>0, <1>1 DEF NewKey
  <2>3. QED
    BY <1>0, <2>1, <2>2
<1>2. ASSUME NEW t \in Thread, NEW k \in Key, Drop(t, k) PROVE CountRead'
  BY <1>0, <1>2 DEF Drop, Enter, Goto, Unshared
<1>3. ASSUME NEW t \in Thread, NEW c \in Ctx, NewCtx(t, c) PROVE CountRead'
  BY <1>0, <1>3 DEF NewCtx
<1>4. ASSUME NEW t \in Thread, NEW c \in Ctx, FreeCtx(t, c) PROVE CountRead'
  BY <1>0, <1>4 DEF FreeCtx, Enter, Goto, Unshared, Inside
<1>5. ASSUME NEW t \in Thread, NEW c \in Ctx, SignOf(t, c) PROVE CountRead'
  BY <1>0, <1>5 DEF SignOf, Enter, Goto, Inside, Set
<1>6. ASSUME NEW t \in Thread, NEW c \in Ctx, Decrypt(t, c) PROVE CountRead'
  BY <1>0, <1>6 DEF Decrypt, Enter, Goto, Inside, Set
<1>7. ASSUME NEW t \in Thread, NEW c \in Ctx, Refuses(t, c) PROVE CountRead'
  BY <1>0, <1>7 DEF Refuses
<1>8. ASSUME NEW t \in Thread, NEW c \in Ctx, NEW d \in Ctx, DupCtx(t, c, d)
      PROVE  CountRead'
  BY <1>0, <1>8 DEF DupCtx, Enter, Goto, Unshared, Inside, Set
<1>9. ASSUME NEW t \in Thread, NEW c \in Ctx, NEW k \in Key, RefInit(t, c, k)
      PROVE  CountRead'
  BY <1>0, <1>9 DEF RefInit, EvpUsable, RefThenFree, Startable, Enter, Goto,
                    Unshared, Inside
<1>10. ASSUME NEW t \in Thread, NEW c \in Ctx, NEW k \in Key, FreeInit(t, c, k)
       PROVE  CountRead'
  BY <1>0, <1>10 DEF FreeInit, EvpUsable, FreeThenRef, Startable, Enter, Goto,
                     Unshared, Inside
<1>11. ASSUME NEW t \in Thread, NEW c \in Ctx, NEW k \in Key, PeerInit(t, c, k)
       PROVE  CountRead'
  BY <1>0, <1>11 DEF PeerInit, EvpUsable, FreeThenRef, Startable, Enter, Goto,
                     Unshared, Inside
<1>12. ASSUME NEW t \in Thread, Ref(t) PROVE CountRead'
  BY <1>0, <1>12 DEF Ref, Goto, LockedRegion
<1>13. ASSUME NEW t \in Thread, Release(t) PROVE CountRead'
  BY <1>0, <1>13 DEF Release, Goto, Leave, RefsFirst
<1>14. ASSUME NEW t \in Thread, Lock(t) PROVE CountRead'
  BY <1>0, <1>14 DEF Lock, Goto, LockedRegion
<1>15. ASSUME NEW t \in Thread, LockFails(t) PROVE CountRead'
  BY <1>0, <1>15 DEF LockFails, Goto, Leave
<1>16. ASSUME NEW t \in Thread, Get(t) PROVE CountRead'
  BY <1>0, <1>16 DEF Get, Goto, LockedRegion
<1>17. ASSUME NEW t \in Thread, Put(t) PROVE CountRead'
  <2>1. /\ pc[t] = "put" /\ mode[t] \in {"up", "down"} /\ arg[t] \in Key
        /\ cnt[t] = refCnt[arg[t]]
    BY <1>0, <1>17 DEF Put
  <2>2. arg[t] \in made
    BY <2>1, WorksHeld
  <2>3. /\ pc' = [pc EXCEPT ![t] = "unlock"] /\ UNCHANGED <<made, arg, cnt, mode>>
        /\ \E n : refCnt' = [refCnt EXCEPT ![arg[t]] = n]
        /\ mode[t] = "down" => refCnt' = [refCnt EXCEPT ![arg[t]] = cnt[t] - 1]
    BY <1>0, <1>17, <2>1 DEF Put, Goto, LockedRegion
  <2>4. \A u \in Thread \ {t} : pc[u] \in {"put", "unlock"} => arg[u] # arg[t]
    BY ONLY <1>0, <2>1 DEF MutexHeld
  <2>5. cnt[t] \in Nat /\ refCnt[arg[t]] \in Nat
    BY <1>0, <2>1
  <2>6. QED
    BY ONLY <1>0, <2>1, <2>2, <2>3, <2>4, <2>5 DEF CountRead, TypeOK, LocalTypeOK
<1>18. ASSUME NEW t \in Thread, Unlock(t) PROVE CountRead'
  <2>1. /\ UNCHANGED <<refCnt, made>> /\ pc'[t] \notin {"put", "unlock"}
        /\ \A u \in Thread \ {t} : /\ pc'[u] = pc[u] /\ arg'[u] = arg[u]
                                   /\ cnt'[u] = cnt[u] /\ mode'[u] = mode[u]
    <3>1. CASE mode[t] = "sign"
      BY <1>0, <1>18, <3>1 DEF Unlock, Goto, Leave
    <3>2. CASE mode[t] # "sign"
      <4>1. CASE mode[t] = "up"
        BY <1>0, <1>18, <4>1 DEF Unlock, Goto
      <4>3. CASE mode[t] = "down"
        BY <1>0, <1>18, <4>3 DEF Unlock, Goto
      <4>4. QED
        BY <1>0, <3>2, <4>1, <4>3
    <3>3. QED
      BY <3>1, <3>2
  <2>2. QED
    BY <1>0, <2>1
<1>19. ASSUME NEW t \in Thread, Destroy(t) PROVE CountRead'
  <2>1. arg[t] \in Key /\ Disposes(t, arg[t])
    BY <1>0, <1>19 DEF Destroy, Disposes
  <2>2. Disposal /\ CountExact
    BY DEF IInv
  <2>3. Holders(arg[t]) = {} /\ arg[t] \in made
    BY <2>1, <2>2 DEF Disposal
  <2>4. refCnt[arg[t]] = 0
    BY <2>1, <2>2, <2>3, FS_EmptySet DEF CountExact
  <2>5. ASSUME NEW u \in Thread \ {t}, pc[u] = "unlock", mode[u] = "down"
        PROVE  arg[u] # arg[t]
    <3>1. SUFFICES ASSUME arg[u] = arg[t] PROVE FALSE
      OBVIOUS
    <3>2. cnt[u] = 1
      BY <1>0, <2>4, <2>5, <3>1
    <3>3. Disposes(u, arg[t])
      BY <2>5, <3>1, <3>2 DEF Disposes
    <3>4. QED
      BY <2>1, <2>2, <3>3 DEF Disposal
  <2>6. /\ made' = made \ {arg[t]} /\ pc' = [pc EXCEPT ![t] = "release"]
        /\ UNCHANGED <<refCnt, arg, cnt, mode>>
    BY <1>0, <1>19 DEF Destroy, Goto
  <2>7. QED
    BY ONLY <1>0, <2>5, <2>6 DEF CountRead, TypeOK, LocalTypeOK
<1>20. ASSUME NEW t \in Thread, Keep(t) PROVE CountRead'
  BY <1>0, <1>20 DEF Keep, Goto
<1>21. ASSUME NEW t \in Thread, Succeed(t) PROVE CountRead'
  BY <1>0, <1>21 DEF Succeed, Leave, Goto
<1>22. ASSUME NEW t \in Thread, InitFails(t) PROVE CountRead'
  BY <1>0, <1>22 DEF InitFails, Leave, Goto
<1>23. ASSUME NEW t \in Thread, DupFails(t) PROVE CountRead'
  BY <1>0, <1>23 DEF DupFails, Goto
<1>24. ASSUME NEW t \in Thread, Gone(t) PROVE CountRead'
  <2>1. /\ made' = made \ {ctx[t]} /\ ctx[t] \in Ctx /\ UNCHANGED refCnt
        /\ pc'[t] = "idle"
        /\ \A u \in Thread \ {t} : /\ pc'[u] = pc[u] /\ arg'[u] = arg[u]
                                   /\ cnt'[u] = cnt[u] /\ mode'[u] = mode[u]
    BY <1>0, <1>24 DEF Gone, Leave, Goto
  <2>2. \A u \in Thread : pc[u] = "unlock" => arg[u] \in Key
    BY <1>0, <1>0
  <2>3. QED
    BY <1>0, <2>1, <2>2
<1>25. ASSUME NEW t \in Thread, Signed(t) PROVE CountRead'
  BY <1>0, <1>25 DEF Signed, Goto, LockedRegion
<1>26. ASSUME NEW t \in Thread, TakeRng(t) PROVE CountRead'
  BY <1>0, <1>26 DEF TakeRng, Goto
<1>27. ASSUME NEW t \in Thread, Decrypted(t) PROVE CountRead'
  BY <1>0, <1>27 DEF Decrypted, Goto
<1>28. ASSUME NEW t \in Thread, ClearRng(t) PROVE CountRead'
  BY <1>0, <1>28 DEF ClearRng, Leave, Goto
<1>29. CASE UNCHANGED vars
  BY <1>0, <1>29 DEF vars
<1>30. QED
  BY NextCases, <1>1, <1>2, <1>3, <1>4, <1>5, <1>6, <1>7, <1>8, <1>9, <1>10, <1>11,
     <1>12, <1>13, <1>14, <1>15, <1>16, <1>17, <1>18, <1>19, <1>20, <1>21, <1>22,
     <1>23, <1>24, <1>25, <1>26, <1>27, <1>28, <1>29 DEF Step

LEMMA NextCountExact == IInv /\ [Next]_vars => CountExact'
<1> SUFFICES ASSUME IInv, [Next]_vars PROVE CountExact'
  OBVIOUS
<1>0. TypeOK /\ LocalTypeOK /\ CallAtPc /\ CountExact /\ Locals
  BY DEF IInv, TypeOK
<1> DEFINE Same == UNCHANGED <<refCnt, holds>> /\ Key \cap made' \subseteq made
<1>00. Same => CountExact'
  BY <1>0 DEF CountExact, Holders
<1> HIDE DEF Same
<1> USE KeyRefAssumption
        DEF CallAtPc, Raises, Lowers, AtMutex, Works, keyVars, locals
<1>1. ASSUME NEW t \in Thread, NEW k \in Key, NewKey(t, k) PROVE CountExact'
  <2>1. /\ refCnt' = [refCnt EXCEPT ![k] = 1] /\ holds' = [holds EXCEPT ![Evp(k)] = k]
        /\ made' = made \cup {k} /\ k \notin made
    BY <1>1 DEF NewKey
  <2>2. HoldsMade /\ Evp(k) \in Place
    BY PlacesDiffer DEF IInv
  <2>3. Holders(k) = {} /\ holds[Evp(k)] = NoKey
    BY <2>1, <2>2 DEF HoldsMade, Holders
  <2>4. \A p \in Place : holds'[p] = IF p = Evp(k) THEN k ELSE holds[p]
    BY <1>0, <2>1 DEF TypeOK
  <2>5. Holders(k)' = {Evp(k)}
    BY <1>0, <2>2, <2>3, <2>4, HoldersChange
  <2>6. refCnt'[k] = Cardinality(Holders(k)')
    BY <1>0, <2>1, <2>5, FS_Singleton DEF TypeOK
  <2>7. ASSUME NEW l \in Key \cap made PROVE refCnt'[l] = Cardinality(Holders(l)')
    <3>1. l # k /\ l # NoKey
      BY <2>1
    <3>2. Holders(l)' = Holders(l)
      BY <1>0, <2>2, <2>3, <2>4, <3>1, HoldersChange
    <3>3. refCnt'[l] = refCnt[l]
      BY <1>0, <2>1, <3>1 DEF TypeOK
    <3>4. QED
      BY <1>0, <3>2, <3>3 DEF CountExact
  <2>8. QED
    BY <2>1, <2>6, <2>7 DEF CountExact
<1>2. ASSUME NEW t \in Thread, NEW k \in Key, Drop(t, k) PROVE CountExact'
  BY <1>0, <1>00, <1>2 DEF Drop, Enter, Goto, Unshared, Same
<1>3. ASSUME NEW t \in Thread, NEW c \in Ctx, NewCtx(t, c) PROVE CountExact'
  BY <1>0, <1>00, <1>3 DEF NewCtx, Same
<1>4. ASSUME NEW t \in Thread, NEW c \in Ctx, FreeCtx(t, c) PROVE CountExact'
  BY <1>0, <1>00, <1>4 DEF FreeCtx, Enter, Goto, Unshared, Inside, Same
<1>5. ASSUME NEW t \in Thread, NEW c \in Ctx, SignOf(t, c) PROVE CountExact'
  BY <1>0, <1>00, <1>5 DEF SignOf, Enter, Goto, Inside, Set, Same
<1>6. ASSUME NEW t \in Thread, NEW c \in Ctx, Decrypt(t, c) PROVE CountExact'
  BY <1>0, <1>00, <1>6 DEF Decrypt, Enter, Goto, Inside, Set, Same
<1>7. ASSUME NEW t \in Thread, NEW c \in Ctx, Refuses(t, c) PROVE CountExact'
  BY <1>0, <1>00, <1>7 DEF Refuses, Same
<1>8. ASSUME NEW t \in Thread, NEW c \in Ctx, NEW d \in Ctx, DupCtx(t, c, d)
      PROVE  CountExact'
  BY <1>0, <1>00, <1>8 DEF DupCtx, Enter, Goto, Unshared, Inside, Set, Same
<1>9. ASSUME NEW t \in Thread, NEW c \in Ctx, NEW k \in Key, RefInit(t, c, k)
      PROVE  CountExact'
  BY <1>0, <1>00, <1>9 DEF RefInit, EvpUsable, RefThenFree, Startable, Enter, Goto,
                           Unshared, Inside, Same
<1>10. ASSUME NEW t \in Thread, NEW c \in Ctx, NEW k \in Key, FreeInit(t, c, k)
       PROVE  CountExact'
  BY <1>0, <1>00, <1>10 DEF FreeInit, EvpUsable, FreeThenRef, Startable, Enter,
                            Goto, Unshared, Inside, Same
<1>11. ASSUME NEW t \in Thread, NEW c \in Ctx, NEW k \in Key, PeerInit(t, c, k)
       PROVE  CountExact'
  BY <1>0, <1>00, <1>11 DEF PeerInit, EvpUsable, FreeThenRef, Startable, Enter,
                            Goto, Unshared, Inside, Same
<1>12. ASSUME NEW t \in Thread, Ref(t) PROVE CountExact'
  BY <1>0, <1>00, <1>12 DEF Ref, Goto, LockedRegion, Same
<1>13. ASSUME NEW t \in Thread, Release(t) PROVE CountExact'
  BY <1>0, <1>00, <1>13 DEF Release, Goto, Leave, RefsFirst, Same
<1>14. ASSUME NEW t \in Thread, Lock(t) PROVE CountExact'
  BY <1>0, <1>00, <1>14 DEF Lock, Goto, LockedRegion, Same
<1>15. ASSUME NEW t \in Thread, LockFails(t) PROVE CountExact'
  BY <1>0, <1>00, <1>15 DEF LockFails, Goto, Leave, Same
<1>16. ASSUME NEW t \in Thread, Get(t) PROVE CountExact'
  BY <1>0, <1>00, <1>16 DEF Get, Goto, LockedRegion, Same
<1>17. ASSUME NEW t \in Thread, Put(t) PROVE CountExact'
  <2>1. /\ pc[t] = "put" /\ mode[t] \in {"up", "down"} /\ arg[t] \in Key
        /\ target[t] \in Place /\ Local(t) \in Place
    BY <1>0, <1>17, PlacesDiffer DEF Put, LocalTypeOK
  <2>2. arg[t] \in made
    BY <2>1, WorksHeld
  <2>3. cnt[t] = refCnt[arg[t]]
    BY <2>1 DEF IInv, CountRead
  <2>4. refCnt[arg[t]] = Cardinality(Holders(arg[t])) /\ IsFiniteSet(Holders(arg[t]))
    BY <1>0, <2>1, <2>2, HoldersFinite DEF CountExact
  <2>5. UNCHANGED made
    BY <1>17 DEF Put, LockedRegion
  <2>6. CASE mode[t] = "up"
    <3>1. /\ refCnt' = [refCnt EXCEPT ![arg[t]] = cnt[t] + 1]
          /\ \A p \in Place : holds'[p] = IF p = Local(t) THEN arg[t] ELSE holds[p]
      BY <1>0, <1>17, <2>6 DEF Put, TypeOK
    <3>2. holds[Local(t)] = NoKey
      BY <1>0, <2>1, <2>6 DEF Locals, LocalsAt, HasLocal
    <3>3. /\ \A l \in Key : l # arg[t] => Holders(l)' = Holders(l)
          /\ {p \in Place : holds'[p] = arg[t]} = Holders(arg[t]) \cup {Local(t)}
      BY <1>0, <2>1, <3>1, <3>2, HoldersChange DEF Holders
    <3>4. Local(t) \notin Holders(arg[t])
      BY <2>1, <3>2 DEF Holders
    <3>5. Cardinality(Holders(arg[t]) \cup {Local(t)}) = cnt[t] + 1
      BY <2>3, <2>4, <3>4, FS_AddElement
    <3>6. ASSUME NEW l \in Key \cap made PROVE refCnt'[l] = Cardinality(Holders(l)')
      <4>1. CASE l = arg[t]
        <5>1. refCnt'[l] = cnt[t] + 1
          BY <1>0, <2>1, <3>1, <4>1 DEF TypeOK
        <5>2. Holders(l)' = {p \in Place : holds'[p] = arg[t]}
          BY <4>1 DEF Holders
        <5>3. QED
          BY <3>3, <3>5, <5>1, <5>2
      <4>2. CASE l # arg[t]
        BY <1>0, <3>1, <3>3, <4>2 DEF CountExact, TypeOK
      <4>3. QED
        BY <4>1, <4>2
    <3>7. QED
      BY <2>5, <3>6 DEF CountExact
  <2>7. CASE mode[t] = "down"
    <3>1. /\ refCnt' = [refCnt EXCEPT ![arg[t]] = cnt[t] - 1]
          /\ \A p \in Place : holds'[p] = IF p = target[t] THEN NoKey ELSE holds[p]
      BY <1>0, <1>17, <2>7 DEF Put, TypeOK
    <3>2. holds[target[t]] = arg[t]
      BY <2>1, <2>7 DEF IInv, Vouched, VouchedAt
    <3>3. /\ \A l \in Key : l # arg[t] => Holders(l)' = Holders(l)
          /\ {p \in Place : holds'[p] = arg[t]} = Holders(arg[t]) \ {target[t]}
      BY <1>0, <2>1, <3>1, <3>2, HoldersChange DEF Holders
    <3>4. target[t] \in Holders(arg[t])
      BY <2>1, <3>2 DEF Holders
    <3>5. Cardinality(Holders(arg[t]) \ {target[t]}) = cnt[t] - 1
      <4>1. Cardinality(Holders(arg[t]) \ {target[t]}) = Cardinality(Holders(arg[t])) - 1
        BY <2>4, <3>4, FS_RemoveElement
      <4>2. QED
        BY <2>3, <2>4, <4>1
    <3>6. ASSUME NEW l \in Key \cap made PROVE refCnt'[l] = Cardinality(Holders(l)')
      <4>1. CASE l = arg[t]
        <5>1. refCnt'[l] = cnt[t] - 1
          BY <1>0, <2>1, <3>1, <4>1 DEF TypeOK
        <5>2. Holders(l)' = {p \in Place : holds'[p] = arg[t]}
          BY <4>1 DEF Holders
        <5>3. QED
          BY <3>3, <3>5, <5>1, <5>2
      <4>2. CASE l # arg[t]
        BY <1>0, <3>1, <3>3, <4>2 DEF CountExact, TypeOK
      <4>3. QED
        BY <4>1, <4>2
    <3>7. QED
      BY <2>5, <3>6 DEF CountExact
  <2>8. QED
    BY <2>1, <2>6, <2>7
<1>18. ASSUME NEW t \in Thread, Unlock(t) PROVE CountExact'
  BY <1>0, <1>00, <1>18 DEF Unlock, Goto, Leave, RefsFirst, Same
<1>19. ASSUME NEW t \in Thread, Destroy(t) PROVE CountExact'
  BY <1>0, <1>00, <1>19 DEF Destroy, Goto, Same
<1>20. ASSUME NEW t \in Thread, Keep(t) PROVE CountExact'
  <2>1. /\ holds[target[t]] = NoKey /\ holds[Local(t)] = want[t] /\ want[t] \in Key
        /\ target[t] \in Place /\ Local(t) \in Place /\ target[t] # Local(t)
    <3>1. /\ pc[t] = "keep" /\ call[t] \in {"init", "peer", "dup"} /\ ctx[t] \in Ctx
          /\ target[t] \in {KeyOf(ctx[t]), PeerOf(ctx[t])} /\ want[t] \in Key
      BY <1>0, <1>20 DEF Keep, LocalTypeOK
    <3>2. LocalsAt(t)
      BY DEF IInv, Locals
    <3>3. QED
      BY ONLY <3>1, <3>2, PlacesDiffer DEF LocalsAt, HasLocal
  <2>2. /\ UNCHANGED <<refCnt, made>>
        /\ \A p \in Place : holds'[p] = IF p = Local(t) THEN NoKey
                                        ELSE IF p = target[t] THEN holds[Local(t)]
                                        ELSE holds[p]
    BY <1>0, <1>20, <2>1 DEF Keep, TypeOK
  <2>3. ASSUME NEW l \in Key
  PROVE  Cardinality(Holders(l)') = Cardinality(Holders(l))
    <3>1. CASE l # want[t]
      BY <1>0, <2>1, <2>2, <3>1, HoldersMove
    <3>2. CASE l = want[t]
      <4>1. /\ Holders(l)' = (Holders(l) \ {Local(t)}) \cup {target[t]}
            /\ Local(t) \in Holders(l) /\ target[t] \notin Holders(l)
        BY <1>0, <2>1, <2>2, <3>2, HoldersMove
      <4>2. IsFiniteSet(Holders(l)) /\ Cardinality(Holders(l)) \in Nat
        BY HoldersFinite
      <4>3. /\ IsFiniteSet(Holders(l) \ {Local(t)})
            /\ Cardinality(Holders(l) \ {Local(t)}) = Cardinality(Holders(l)) - 1
        BY <4>1, <4>2, FS_RemoveElement
      <4>4. Cardinality((Holders(l) \ {Local(t)}) \cup {target[t]})
              = Cardinality(Holders(l)) - 1 + 1
        BY <4>1, <4>3, FS_AddElement
      <4>5. QED
        BY <4>1, <4>2, <4>4
    <3>3. QED
      BY <3>1, <3>2
  <2>4. QED
    BY <1>0, <2>2, <2>3 DEF CountExact
<1>21. ASSUME NEW t \in Thread, Succeed(t) PROVE CountExact'
  BY <1>0, <1>00, <1>21 DEF Succeed, Leave, Goto, Same
<1>22. ASSUME NEW t \in Thread, InitFails(t) PROVE CountExact'
  BY <1>0, <1>00, <1>22 DEF InitFails, Leave, Goto, Same
<1>23. ASSUME NEW t \in Thread, DupFails(t) PROVE CountExact'
  BY <1>0, <1>00, <1>23 DEF DupFails, Goto, Same
<1>24. ASSUME NEW t \in Thread, Gone(t) PROVE CountExact'
  BY <1>0, <1>00, <1>24 DEF Gone, Leave, Goto, Same
<1>25. ASSUME NEW t \in Thread, Signed(t) PROVE CountExact'
  BY <1>0, <1>00, <1>25 DEF Signed, Goto, LockedRegion, Same
<1>26. ASSUME NEW t \in Thread, TakeRng(t) PROVE CountExact'
  BY <1>0, <1>00, <1>26 DEF TakeRng, Goto, Same
<1>27. ASSUME NEW t \in Thread, Decrypted(t) PROVE CountExact'
  BY <1>0, <1>00, <1>27 DEF Decrypted, Goto, Same
<1>28. ASSUME NEW t \in Thread, ClearRng(t) PROVE CountExact'
  BY <1>0, <1>00, <1>28 DEF ClearRng, Leave, Goto, Same
<1>29. CASE UNCHANGED vars
  BY <1>0, <1>00, <1>29 DEF vars, Same
<1>30. QED
  BY NextCases, <1>1, <1>2, <1>3, <1>4, <1>5, <1>6, <1>7, <1>8, <1>9, <1>10, <1>11,
     <1>12, <1>13, <1>14, <1>15, <1>16, <1>17, <1>18, <1>19, <1>20, <1>21, <1>22,
     <1>23, <1>24, <1>25, <1>26, <1>27, <1>28, <1>29 DEF Step

(* Who takes the last reference disposes of the key, and nobody else does:  *)
(* whoever else is at the key vouches for a reference.                      *)
LEMMA NextDisposal == IInv /\ [Next]_vars => Disposal'
<1> SUFFICES ASSUME IInv, [Next]_vars PROVE Disposal'
  OBVIOUS
<1>0. TypeOK /\ LocalTypeOK /\ CallAtPc /\ Disposal
  BY DEF IInv, TypeOK
<1> DEFINE Steady(t) ==
      /\ \A k \in Key : Holders(k)' = {} <=> Holders(k) = {}
      /\ Key \cap made' = Key \cap made
      /\ \A u \in Thread, k \in Key : Disposes(u, k)' <=> Disposes(u, k)
<1>00. ASSUME NEW t \in Thread, Steady(t) PROVE Disposal'
  BY <1>0, <1>00 DEF Disposal
<1>01. UNCHANGED holds => \A k \in Key : Holders(k)' = {} <=> Holders(k) = {}
  BY DEF Holders
<1> HIDE DEF Steady
<1> USE KeyRefAssumption
        DEF CallAtPc, Raises, Lowers, AtMutex, Works, keyVars, locals
<1>1. ASSUME NEW t \in Thread, NEW k \in Key, NewKey(t, k) PROVE Disposal'
  <2>1. /\ holds' = [holds EXCEPT ![Evp(k)] = k] /\ k \notin made
        /\ made' = made \cup {k} /\ UNCHANGED <<pc, call, locals>>
    BY <1>1 DEF NewKey
  <2>2. HoldsMade /\ Evp(k) \in Place
    BY PlacesDiffer DEF IInv
  <2>3. holds[Evp(k)] = NoKey
    BY <2>1, <2>2 DEF HoldsMade
  <2>4. \A p \in Place : holds'[p] = IF p = Evp(k) THEN k ELSE holds[p]
    BY <1>0, <2>1 DEF TypeOK
  <2>5. /\ Holders(k)' # {}
        /\ \A l \in Key : l # k => Holders(l)' = Holders(l)
    BY <1>0, <2>2, <2>3, <2>4, HoldersChange
  <2>6. \A u \in Thread, l \in Key : Disposes(u, l)' <=> Disposes(u, l)
    BY <2>1 DEF Disposes
  <2>7. QED
    BY <1>0, <2>1, <2>5, <2>6 DEF Disposal
<1>2. ASSUME NEW t \in Thread, NEW k \in Key, Drop(t, k) PROVE Disposal'
  <2>1. UNCHANGED holds /\ Key \cap made' = Key \cap made
    BY <1>0, <1>2 DEF Drop, Enter, Goto, Unshared
  <2>2. \A u \in Thread, l \in Key : Disposes(u, l)' <=> Disposes(u, l)
    BY <1>0, <1>2 DEF Drop, Enter, Goto, Unshared, Disposes, LocalTypeOK
  <2>3. QED
    BY <1>00, <1>01, <2>1, <2>2 DEF Steady
<1>3. ASSUME NEW t \in Thread, NEW c \in Ctx, NewCtx(t, c) PROVE Disposal'
  <2>1. UNCHANGED holds /\ Key \cap made' = Key \cap made
    BY <1>0, <1>3 DEF NewCtx
  <2>2. \A u \in Thread, k \in Key : Disposes(u, k)' <=> Disposes(u, k)
    BY <1>0, <1>3 DEF NewCtx, Disposes, LocalTypeOK
  <2>3. QED
    BY <1>00, <1>01, <2>1, <2>2 DEF Steady
<1>4. ASSUME NEW t \in Thread, NEW c \in Ctx, FreeCtx(t, c) PROVE Disposal'
  <2>1. UNCHANGED holds /\ Key \cap made' = Key \cap made
    BY <1>0, <1>4 DEF FreeCtx, Enter, Goto, Unshared, Inside
  <2>2. \A u \in Thread, k \in Key : Disposes(u, k)' <=> Disposes(u, k)
    BY <1>0, <1>4 DEF FreeCtx, Enter, Goto, Unshared, Inside, Disposes, LocalTypeOK
  <2>3. QED
    BY <1>00, <1>01, <2>1, <2>2 DEF Steady
<1>5. ASSUME NEW t \in Thread, NEW c \in Ctx, SignOf(t, c) PROVE Disposal'
  <2>1. UNCHANGED holds /\ Key \cap made' = Key \cap made
    BY <1>0, <1>5 DEF SignOf, Enter, Goto, Inside, Set
  <2>2. \A u \in Thread, k \in Key : Disposes(u, k)' <=> Disposes(u, k)
    BY <1>0, <1>5 DEF SignOf, Enter, Goto, Inside, Set, Disposes, LocalTypeOK
  <2>3. QED
    BY <1>00, <1>01, <2>1, <2>2 DEF Steady
<1>6. ASSUME NEW t \in Thread, NEW c \in Ctx, Decrypt(t, c) PROVE Disposal'
  <2>1. UNCHANGED holds /\ Key \cap made' = Key \cap made
    BY <1>0, <1>6 DEF Decrypt, Enter, Goto, Inside, Set
  <2>2. \A u \in Thread, k \in Key : Disposes(u, k)' <=> Disposes(u, k)
    BY <1>0, <1>6 DEF Decrypt, Enter, Goto, Inside, Set, Disposes, LocalTypeOK
  <2>3. QED
    BY <1>00, <1>01, <2>1, <2>2 DEF Steady
<1>7. ASSUME NEW t \in Thread, NEW c \in Ctx, Refuses(t, c) PROVE Disposal'
  <2>1. UNCHANGED holds /\ Key \cap made' = Key \cap made
    BY <1>0, <1>7 DEF Refuses
  <2>2. \A u \in Thread, k \in Key : Disposes(u, k)' <=> Disposes(u, k)
    BY <1>0, <1>7 DEF Refuses, Disposes, LocalTypeOK
  <2>3. QED
    BY <1>00, <1>01, <2>1, <2>2 DEF Steady
<1>8. ASSUME NEW t \in Thread, NEW c \in Ctx, NEW d \in Ctx, DupCtx(t, c, d)
      PROVE  Disposal'
  <2>1. UNCHANGED holds /\ Key \cap made' = Key \cap made
    BY <1>0, <1>8 DEF DupCtx, Enter, Goto, Unshared, Inside, Set
  <2>2. \A u \in Thread, k \in Key : Disposes(u, k)' <=> Disposes(u, k)
    BY <1>0, <1>8 DEF DupCtx, Enter, Goto, Unshared, Inside, Set, Disposes,
                      LocalTypeOK
  <2>3. QED
    BY <1>00, <1>01, <2>1, <2>2 DEF Steady
<1>9. ASSUME NEW t \in Thread, NEW c \in Ctx, NEW k \in Key, RefInit(t, c, k)
      PROVE  Disposal'
  <2>1. UNCHANGED holds /\ Key \cap made' = Key \cap made
    BY <1>0, <1>9 DEF RefInit, EvpUsable, RefThenFree, Startable, Enter, Goto,
                      Unshared, Inside
  <2>2. \A u \in Thread, l \in Key : Disposes(u, l)' <=> Disposes(u, l)
    BY <1>0, <1>9 DEF RefInit, EvpUsable, RefThenFree, Startable, Enter, Goto,
                      Unshared, Inside, Disposes, LocalTypeOK
  <2>3. QED
    BY <1>00, <1>01, <2>1, <2>2 DEF Steady
<1>10. ASSUME NEW t \in Thread, NEW c \in Ctx, NEW k \in Key, FreeInit(t, c, k)
       PROVE  Disposal'
  <2>1. UNCHANGED holds /\ Key \cap made' = Key \cap made
    BY <1>0, <1>10 DEF FreeInit, EvpUsable, FreeThenRef, Startable, Enter, Goto,
                       Unshared, Inside
  <2>2. \A u \in Thread, l \in Key : Disposes(u, l)' <=> Disposes(u, l)
    BY <1>0, <1>10 DEF FreeInit, EvpUsable, FreeThenRef, Startable, Enter, Goto,
                       Unshared, Inside, Disposes, LocalTypeOK
  <2>3. QED
    BY <1>00, <1>01, <2>1, <2>2 DEF Steady
<1>11. ASSUME NEW t \in Thread, NEW c \in Ctx, NEW k \in Key, PeerInit(t, c, k)
       PROVE  Disposal'
  <2>1. UNCHANGED holds /\ Key \cap made' = Key \cap made
    BY <1>0, <1>11 DEF PeerInit, EvpUsable, FreeThenRef, Startable, Enter, Goto,
                       Unshared, Inside
  <2>2. \A u \in Thread, l \in Key : Disposes(u, l)' <=> Disposes(u, l)
    BY <1>0, <1>11 DEF PeerInit, EvpUsable, FreeThenRef, Startable, Enter, Goto,
                       Unshared, Inside, Disposes, LocalTypeOK
  <2>3. QED
    BY <1>00, <1>01, <2>1, <2>2 DEF Steady
<1>12. ASSUME NEW t \in Thread, Ref(t) PROVE Disposal'
  <2>1. UNCHANGED holds /\ Key \cap made' = Key \cap made
    BY <1>0, <1>12 DEF Ref, Goto, LockedRegion
  <2>2. \A u \in Thread, k \in Key : Disposes(u, k)' <=> Disposes(u, k)
    BY <1>0, <1>12 DEF Ref, Goto, LockedRegion, Disposes, LocalTypeOK
  <2>3. QED
    BY <1>00, <1>01, <2>1, <2>2 DEF Steady
<1>13. ASSUME NEW t \in Thread, Release(t) PROVE Disposal'
  <2>1. UNCHANGED holds /\ Key \cap made' = Key \cap made
    BY <1>0, <1>13 DEF Release, Goto, Leave, RefsFirst
  <2>2. \A u \in Thread, k \in Key : Disposes(u, k)' <=> Disposes(u, k)
    BY <1>0, <1>13 DEF Release, Goto, Leave, RefsFirst, Disposes, LocalTypeOK
  <2>3. QED
    BY <1>00, <1>01, <2>1, <2>2 DEF Steady
<1>14. ASSUME NEW t \in Thread, Lock(t) PROVE Disposal'
  <2>1. UNCHANGED holds /\ Key \cap made' = Key \cap made
    BY <1>0, <1>14 DEF Lock, Goto, LockedRegion
  <2>2. \A u \in Thread, k \in Key : Disposes(u, k)' <=> Disposes(u, k)
    BY <1>0, <1>14 DEF Lock, Goto, LockedRegion, Disposes, LocalTypeOK
  <2>3. QED
    BY <1>00, <1>01, <2>1, <2>2 DEF Steady
<1>15. ASSUME NEW t \in Thread, LockFails(t) PROVE Disposal'
  <2>1. UNCHANGED holds /\ Key \cap made' = Key \cap made
    BY <1>0, <1>15 DEF LockFails, Goto, Leave
  <2>2. \A u \in Thread, k \in Key : Disposes(u, k)' <=> Disposes(u, k)
    BY <1>0, <1>15 DEF LockFails, Goto, Leave, Disposes, LocalTypeOK
  <2>3. QED
    BY <1>00, <1>01, <2>1, <2>2 DEF Steady
<1>16. ASSUME NEW t \in Thread, Get(t) PROVE Disposal'
  <2>1. UNCHANGED holds /\ Key \cap made' = Key \cap made
    BY <1>0, <1>16 DEF Get, Goto, LockedRegion
  <2>2. \A u \in Thread, k \in Key : Disposes(u, k)' <=> Disposes(u, k)
    BY <1>0, <1>16 DEF Get, Goto, LockedRegion, Disposes, LocalTypeOK
  <2>3. QED
    BY <1>00, <1>01, <2>1, <2>2 DEF Steady
<1>17. ASSUME NEW t \in Thread, Put(t) PROVE Disposal'
  <2>1. /\ pc[t] = "put" /\ mode[t] \in {"up", "down"} /\ arg[t] \in Key
        /\ target[t] \in Place /\ Local(t) \in Place
    BY <1>0, <1>17, PlacesDiffer DEF Put, LocalTypeOK
  <2>2. arg[t] \in made /\ Holders(arg[t]) # {}
    BY <2>1, WorksHeld DEF Disposes
  <2>3. cnt[t] = refCnt[arg[t]] /\ cnt[t] = Cardinality(Holders(arg[t])) /\ cnt[t] \in Nat
    BY <1>0, <2>1, <2>2 DEF IInv, CountRead, CountExact, LocalTypeOK
  <2>4. /\ UNCHANGED <<made, arg, mode, cnt>> /\ pc' = [pc EXCEPT ![t] = "unlock"]
    BY <1>17 DEF Put, Goto, LockedRegion
  <2>5. \A u \in Thread \ {t}, k \in Key : Disposes(u, k)' <=> Disposes(u, k)
    BY <1>0, <2>4 DEF Disposes, LocalTypeOK
  <2>6. \A u \in Thread : ~ Disposes(u, arg[t])
    BY <1>0, <2>1, <2>2 DEF Disposal
  <2>7. ~ \E k \in Key : Disposes(t, k)
    BY <2>1 DEF Disposes
  <2>8. CASE mode[t] = "up"
    <3>1. \A p \in Place : holds'[p] = IF p = Local(t) THEN arg[t] ELSE holds[p]
      BY <1>0, <1>17, <2>8 DEF Put, TypeOK
    <3>2. holds[Local(t)] = NoKey
      BY <2>1, <2>8 DEF IInv, Locals, LocalsAt, HasLocal
    <3>3. \A k \in Key : /\ k # arg[t] => Holders(k)' = Holders(k)
                         /\ k = arg[t] => Holders(k)' # {}
      BY <1>0, <2>1, <3>1, <3>2, HoldersChange
    <3>4. ~ \E k \in Key : Disposes(t, k)'
      BY <1>0, <2>4, <2>8 DEF Disposes, LocalTypeOK
    <3>5. QED
      BY <1>0, <2>4, <2>5, <2>6, <2>7, <3>3, <3>4 DEF Disposal
  <2>9. CASE mode[t] = "down"
    <3>1. \A p \in Place : holds'[p] = IF p = target[t] THEN NoKey ELSE holds[p]
      BY <1>0, <1>17, <2>9 DEF Put, TypeOK
    <3>2. holds[target[t]] = arg[t]
      BY <2>1, <2>9 DEF IInv, Vouched, VouchedAt
    <3>3. \A k \in Key : /\ k # arg[t] => Holders(k)' = Holders(k)
                         /\ k = arg[t] => Holders(k)' = Holders(k) \ {target[t]}
      BY <1>0, <2>1, <3>1, <3>2, HoldersChange
    <3>4. \A k \in Key : Disposes(t, k)' <=> k = arg[t] /\ cnt[t] = 1
      BY <1>0, <2>4, <2>9 DEF Disposes, LocalTypeOK
    <3>5. (Holders(arg[t]) \ {target[t]} = {}) <=> cnt[t] = 1
      <4>1. IsFiniteSet(Holders(arg[t])) /\ target[t] \in Holders(arg[t])
        BY <2>1, <3>2, HoldersFinite DEF Holders
      <4>2. /\ IsFiniteSet(Holders(arg[t]) \ {target[t]})
            /\ Cardinality(Holders(arg[t]) \ {target[t]}) = Cardinality(Holders(arg[t])) - 1
        BY <4>1, FS_RemoveElement
      <4>3. Cardinality(Holders(arg[t]) \ {target[t]}) = 0 <=> cnt[t] = 1
        BY <2>3, <4>2
      <4>4. QED
        BY <4>2, <4>3, FS_EmptySet
    <3>6. \A k \in Key : k = arg[t] => (Holders(k)' = {} <=> cnt[t] = 1)
      BY <3>3, <3>5
    <3>7. \A u \in Thread, k \in Key : Disposes(u, k)' => k \in made /\ Holders(k)' = {}
      <4>1. ASSUME NEW k \in Key, Disposes(t, k)'
      PROVE  k \in made /\ Holders(k)' = {}
        BY <2>2, <3>4, <3>6, <4>1
      <4>2. ASSUME NEW u \in Thread \ {t}, NEW k \in Key, Disposes(u, k)'
            PROVE  k \in made /\ Holders(k)' = {}
        <5>1. Disposes(u, k) /\ k # arg[t]
          BY <2>5, <2>6, <4>2
        <5>2. QED
          BY <1>0, <3>3, <5>1 DEF Disposal
      <4>3. QED
        BY <4>1, <4>2
    <3>8. \A u, v \in Thread, k \in Key : Disposes(u, k)' /\ Disposes(v, k)' => u = v
      <4>1. ASSUME NEW u \in Thread \ {t}, NEW k \in Key
      PROVE  ~(Disposes(u, k)' /\ Disposes(t, k)')
        BY <2>5, <2>6, <3>4
      <4>2. ASSUME NEW u \in Thread \ {t}, NEW v \in Thread \ {t}, NEW k \in Key,
                   Disposes(u, k)', Disposes(v, k)'
            PROVE  u = v
        BY <1>0, <2>5, <4>2 DEF Disposal
      <4>3. QED
        BY <4>1, <4>2
    <3>9. ASSUME NEW k \in Key \cap made, Holders(k)' = {}
          PROVE  \E u \in Thread : Disposes(u, k)'
      <4>1. CASE k = arg[t]
        BY <3>4, <3>6, <3>9, <4>1
      <4>2. CASE k # arg[t]
        <5>1. Holders(k) = {}
          BY <3>3, <3>9, <4>2
        <5>2. PICK u \in Thread : Disposes(u, k)
          BY <1>0, <5>1 DEF Disposal
        <5>3. u # t
          BY <2>7, <5>2
        <5>4. QED
          BY <2>5, <5>2, <5>3
      <4>3. QED
        BY <4>1, <4>2
    <3>10. QED
      BY <2>4, <3>7, <3>8, <3>9 DEF Disposal
  <2>10. QED
    BY <2>1, <2>8, <2>9
<1>18. ASSUME NEW t \in Thread, Unlock(t) PROVE Disposal'
  <2>1. UNCHANGED <<holds, made>>
    BY <1>18 DEF Unlock
  <2>2. \A u \in Thread \ {t}, k \in Key : Disposes(u, k)' <=> Disposes(u, k)
    <3>1. CASE mode[t] = "sign"
      BY <1>0, <1>18, <3>1 DEF Unlock, Goto, Leave, Disposes, LocalTypeOK
    <3>2. CASE mode[t] = "down"
      BY <1>0, <1>18, <3>2 DEF Unlock, Goto, Disposes, LocalTypeOK
    <3>3. CASE mode[t] = "up"
      BY <1>0, <1>18, <3>3 DEF Unlock, Goto, Disposes, LocalTypeOK
    <3>4. QED
      BY <1>0, <3>1, <3>2, <3>3 DEF LocalTypeOK
  <2>3. \A k \in Key : Disposes(t, k)' <=> Disposes(t, k)
    <3>1. CASE mode[t] = "sign"
      BY <1>0, <1>18, <3>1 DEF Unlock, Goto, Leave, Disposes, LocalTypeOK
    <3>2. CASE mode[t] = "down"
      BY <1>0, <1>18, <3>2 DEF Unlock, Goto, Disposes, LocalTypeOK
    <3>3. CASE mode[t] = "up"
      BY <1>0, <1>18, <3>3 DEF Unlock, Goto, Disposes, LocalTypeOK
    <3>4. QED
      BY <1>0, <3>1, <3>2, <3>3 DEF LocalTypeOK
  <2>4. QED
    BY <1>00, <1>01, <2>1, <2>2, <2>3 DEF Steady
<1>19. ASSUME NEW t \in Thread, Destroy(t) PROVE Disposal'
  <2>1. arg[t] \in Key /\ Disposes(t, arg[t])
    BY <1>0, <1>19 DEF Destroy, Disposes
  <2>2. /\ made' = made \ {arg[t]} /\ pc' = [pc EXCEPT ![t] = "release"]
        /\ UNCHANGED <<holds, arg, cnt, mode>>
    BY <1>19 DEF Destroy, Goto
  <2>3. \A u \in Thread \ {t}, k \in Key : Disposes(u, k)' <=> Disposes(u, k)
    BY <1>0, <2>2 DEF Disposes, LocalTypeOK
  <2>4. \A k \in Key : ~ Disposes(t, k)' /\ (Disposes(t, k) => k = arg[t])
    BY <1>0, <2>2 DEF Disposes, LocalTypeOK
  <2>5. QED
    BY <1>0, <1>01, <2>1, <2>2, <2>3, <2>4 DEF Disposal
<1>20. ASSUME NEW t \in Thread, Keep(t) PROVE Disposal'
  <2>1. /\ holds[target[t]] = NoKey /\ holds[Local(t)] = want[t] /\ want[t] \in Key
        /\ target[t] \in Place /\ Local(t) \in Place /\ target[t] # Local(t)
    <3>1. /\ pc[t] = "keep" /\ call[t] \in {"init", "peer", "dup"} /\ ctx[t] \in Ctx
          /\ target[t] \in {KeyOf(ctx[t]), PeerOf(ctx[t])} /\ want[t] \in Key
      BY <1>0, <1>20 DEF Keep, LocalTypeOK
    <3>2. LocalsAt(t)
      BY DEF IInv, Locals
    <3>3. QED
      BY ONLY <3>1, <3>2, PlacesDiffer DEF LocalsAt, HasLocal
  <2>2. UNCHANGED made
        /\ \A p \in Place : holds'[p] = IF p = Local(t) THEN NoKey
                                        ELSE IF p = target[t] THEN holds[Local(t)]
                                        ELSE holds[p]
    BY <1>0, <1>20, <2>1 DEF Keep, TypeOK
  <2>3. \A l \in Key : Holders(l)' = {} <=> Holders(l) = {}
    BY <1>0, <2>1, <2>2, HoldersMove
  <2>4. \A u \in Thread, k \in Key : Disposes(u, k)' <=> Disposes(u, k)
    <3>1. UNCHANGED <<mode, arg, cnt>> /\ pc[t] = "keep"
          /\ \E where \in {"ref", "params"} : pc' = [pc EXCEPT ![t] = where]
      BY <1>20 DEF Keep, Goto
    <3>2. QED
      BY <1>0, <3>1 DEF Disposes, LocalTypeOK
  <2>5. QED
    BY <1>00, <2>2, <2>3, <2>4 DEF Steady
<1>21. ASSUME NEW t \in Thread, Succeed(t) PROVE Disposal'
  <2>1. UNCHANGED holds /\ Key \cap made' = Key \cap made
    BY <1>0, <1>21 DEF Succeed, Leave, Goto
  <2>2. \A u \in Thread, k \in Key : Disposes(u, k)' <=> Disposes(u, k)
    BY <1>0, <1>21 DEF Succeed, Leave, Goto, Disposes, LocalTypeOK
  <2>3. QED
    BY <1>00, <1>01, <2>1, <2>2 DEF Steady
<1>22. ASSUME NEW t \in Thread, InitFails(t) PROVE Disposal'
  <2>1. UNCHANGED holds /\ Key \cap made' = Key \cap made
    BY <1>0, <1>22 DEF InitFails, Leave, Goto
  <2>2. \A u \in Thread, k \in Key : Disposes(u, k)' <=> Disposes(u, k)
    BY <1>0, <1>22 DEF InitFails, Leave, Goto, Disposes, LocalTypeOK
  <2>3. QED
    BY <1>00, <1>01, <2>1, <2>2 DEF Steady
<1>23. ASSUME NEW t \in Thread, DupFails(t) PROVE Disposal'
  <2>1. UNCHANGED holds /\ Key \cap made' = Key \cap made
    BY <1>0, <1>23 DEF DupFails, Goto
  <2>2. \A u \in Thread, k \in Key : Disposes(u, k)' <=> Disposes(u, k)
    BY <1>0, <1>23 DEF DupFails, Goto, Disposes, LocalTypeOK
  <2>3. QED
    BY <1>00, <1>01, <2>1, <2>2 DEF Steady
<1>24. ASSUME NEW t \in Thread, Gone(t) PROVE Disposal'
  <2>1. /\ made' = made \ {ctx[t]} /\ ctx[t] \in Ctx /\ UNCHANGED holds
    BY <1>0, <1>24 DEF Gone, LocalTypeOK
  <2>2. \A u \in Thread, k \in Key : Disposes(u, k)' <=> Disposes(u, k)
    BY <1>0, <1>24 DEF Gone, Leave, Goto, Disposes, LocalTypeOK
  <2>3. Key \cap made' = Key \cap made
    BY <2>1
  <2>4. QED
    BY <1>00, <1>01, <2>1, <2>2, <2>3 DEF Steady
<1>25. ASSUME NEW t \in Thread, Signed(t) PROVE Disposal'
  <2>1. UNCHANGED holds /\ Key \cap made' = Key \cap made
    BY <1>0, <1>25 DEF Signed, Goto, LockedRegion
  <2>2. \A u \in Thread, k \in Key : Disposes(u, k)' <=> Disposes(u, k)
    BY <1>0, <1>25 DEF Signed, Goto, LockedRegion, Disposes, LocalTypeOK
  <2>3. QED
    BY <1>00, <1>01, <2>1, <2>2 DEF Steady
<1>26. ASSUME NEW t \in Thread, TakeRng(t) PROVE Disposal'
  <2>1. UNCHANGED holds /\ Key \cap made' = Key \cap made
    BY <1>0, <1>26 DEF TakeRng, Goto
  <2>2. \A u \in Thread, k \in Key : Disposes(u, k)' <=> Disposes(u, k)
    BY <1>0, <1>26 DEF TakeRng, Goto, Disposes, LocalTypeOK
  <2>3. QED
    BY <1>00, <1>01, <2>1, <2>2 DEF Steady
<1>27. ASSUME NEW t \in Thread, Decrypted(t) PROVE Disposal'
  <2>1. UNCHANGED holds /\ Key \cap made' = Key \cap made
    BY <1>0, <1>27 DEF Decrypted, Goto
  <2>2. \A u \in Thread, k \in Key : Disposes(u, k)' <=> Disposes(u, k)
    BY <1>0, <1>27 DEF Decrypted, Goto, Disposes, LocalTypeOK
  <2>3. QED
    BY <1>00, <1>01, <2>1, <2>2 DEF Steady
<1>28. ASSUME NEW t \in Thread, ClearRng(t) PROVE Disposal'
  <2>1. UNCHANGED holds /\ Key \cap made' = Key \cap made
    BY <1>0, <1>28 DEF ClearRng, Leave, Goto
  <2>2. \A u \in Thread, k \in Key : Disposes(u, k)' <=> Disposes(u, k)
    BY <1>0, <1>28 DEF ClearRng, Leave, Goto, Disposes, LocalTypeOK
  <2>3. QED
    BY <1>00, <1>01, <2>1, <2>2 DEF Steady
<1>29. CASE UNCHANGED vars
  <2>1. UNCHANGED <<holds, made>>
        /\ \A u \in Thread, k \in Key : Disposes(u, k)' <=> Disposes(u, k)
    BY <1>29 DEF vars, Disposes
  <2>2. QED
    BY <1>0, <1>01, <2>1 DEF Disposal
<1>30. QED
  BY NextCases, <1>1, <1>2, <1>3, <1>4, <1>5, <1>6, <1>7, <1>8, <1>9, <1>10, <1>11,
     <1>12, <1>13, <1>14, <1>15, <1>16, <1>17, <1>18, <1>19, <1>20, <1>21, <1>22,
     <1>23, <1>24, <1>25, <1>26, <1>27, <1>28, <1>29 DEF Step

LEMMA InitIInv == Init => IInv
<1> SUFFICES ASSUME Init PROVE IInv
  OBVIOUS
<1> USE KeyRefAssumption, PlacesDiffer DEF Init
<1>1. \A p \in Place : holds[p] = IF p \in Key \X {"evp"} THEN p[1] ELSE NoKey
  OBVIOUS
<1>2. /\ \A k \in Key : holds[Evp(k)] = k
      /\ \A c \in Ctx : holds[KeyOf(c)] = NoKey /\ holds[PeerOf(c)] = NoKey
      /\ \A t \in Thread : holds[Local(t)] = NoKey
  <2>1. \A k \in Key : Evp(k) \in Key \X {"evp"} /\ Evp(k)[1] = k
    BY DEF Evp
  <2>2. \A c \in Ctx : KeyOf(c) \notin Key \X {"evp"} /\ PeerOf(c) \notin Key \X {"evp"}
    BY DEF KeyOf, PeerOf
  <2>3. \A t \in Thread : Local(t) \notin Key \X {"evp"}
    BY DEF Local
  <2>4. QED
    BY <1>1, <2>1, <2>2, <2>3
<1>3. TypeOK
  BY <1>1 DEF TypeOK, LocalTypeOK
<1>4. CallAtPc /\ Exclusive
  BY DEF CallAtPc, Exclusive, Raises, Lowers, AtMutex, Works
<1>5. HoldsMade /\ Vouched /\ Locals
  BY <1>1, <1>2 DEF HoldsMade, Vouched, VouchedAt, Locals, LocalsAt, HasLocal,
                    Raises,
                    Lowers, AtMutex, RefsFirst
<1>6. MutexHeld /\ CountRead /\ KeyRngInUse
  BY DEF MutexHeld, CountRead, KeyRngInUse
<1>7. \A k \in Key : Holders(k) = {Evp(k)}
  <2>1. \A k \in Key, p \in Place : holds[p] = k <=> p = Evp(k)
    BY <1>1, <1>2 DEF Evp
  <2>2. QED
    BY <2>1 DEF Holders
<1>8. CountExact
  BY <1>7, FS_Singleton DEF CountExact
<1>9. Disposal
  BY <1>7 DEF Disposal, Disposes
<1>10. QED
  BY <1>3, <1>4, <1>5, <1>6, <1>8, <1>9 DEF IInv

LEMMA NextIInv == IInv /\ [Next]_vars => IInv'
BY NextTypeOK, NextCallAtPc, NextExclusive, NextHoldsMade, NextVouched, NextMutexHeld,
   NextCountRead, NextCountExact, NextDisposal, NextKeyRng DEF IInv

LEMMA SpecIInv == Spec => []IInv
BY InitIInv, NextIInv, PTL DEF Spec

------------------------------------------------------------------------------
(* The type invariant, for every instance. *)
THEOREM SpecTypeOK == Spec => []TypeOK
<1>1. IInv => TypeOK
  BY DEF IInv
<1>2. QED
  BY <1>1, SpecIInv, PTL

(* The count of a key is the number of the places that refer to it, however *)
(* many threads take and drop references, and whatever fails on the way.    *)
THEOREM SpecCountExact == Spec => []CountExact
<1>1. IInv => CountExact
  BY DEF IInv
<1>2. QED
  BY <1>1, SpecIInv, PTL

(* No reference and no thread is left with a key that is gone, and a key     *)
(* without references is disposed of by exactly one thread.                  *)
THEOREM SpecLifeTime == Spec => []LifeTime
<1>1. ASSUME IInv PROVE LifeTime
  <2>1. \A p \in Place : holds[p] # NoKey => holds[p] \in made
    BY <1>1 DEF IInv, HoldsMade
  <2>2. \A t \in Thread : Works(t) => arg[t] \in made
    BY <1>1, WorksHeld
  <2>3. ASSUME NEW t \in Thread, pc[t] = "destroy" PROVE mutex[arg[t]] = NoThread
    <3>1. arg[t] \in Key /\ Disposes(t, arg[t])
      BY <1>1, <2>3 DEF IInv, CallAtPc, Works, Disposes
    <3>2. Holders(arg[t]) = {}
      BY <1>1, <3>1 DEF IInv, Disposal
    <3>3. ASSUME NEW u \in Thread, mutex[arg[t]] = u PROVE FALSE
      <4>1. arg[u] = arg[t] /\ pc[u] \in {"get", "put", "unlock", "sign"}
        BY <1>1, <3>1, <3>3 DEF IInv, MutexHeld
      <4>2. ~ Disposes(u, arg[t])
        BY <1>1, <2>3, <3>1, <4>1 DEF IInv, Disposal
      <4>3. QED
        BY <1>1, <3>2, <4>1, <4>2, WorksHeld DEF Works
    <3>4. QED
      BY <1>1, <3>1, <3>3 DEF IInv, TypeOK
  <2>4. QED
    BY <1>1, <2>1, <2>2, <2>3 DEF IInv, Disposal, LifeTime
<1>2. QED
  BY <1>1, SpecIInv, PTL

(* RsaKey.rng is only set while the decryption that set it is running. *)
THEOREM SpecKeyRngInUse == Spec => []KeyRngInUse
<1>1. IInv => KeyRngInUse
  BY DEF IInv
<1>2. QED
  BY <1>1, SpecIInv, PTL
==============================================================================
