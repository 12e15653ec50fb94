---------------------------- MODULE WpDrbg_proofs ----------------------------
(***************************************************************************)
(* What holds of the DRBG and SEED-SRC contexts for any tree of contexts,  *)
(* any threads and any number of calls; and, for the trees in which one    *)
(* thread uses each generator that no lock guards, that no generator is    *)
(* entered twice at once and no entropy is used twice.                     *)
(***************************************************************************)
EXTENDS WpDrbg, TLAPS

Working == {"instantiate", "generate", "uninstantiate"}

(* The call a thread is in says where it can stand, and on what context. *)
CallAtPc ==
  \A t \in DrbgThread :
    /\ drbgPc[t] = "idle" <=> call[t] = "none"
    /\ drbgPc[t] = "enable" => call[t] = "new" /\ node[t] \in Shared
    /\ drbgPc[t] = "lock" => call[t] \in Working
    /\ drbgPc[t] = "seed" => call[t] = "instantiate"
    /\ drbgPc[t] \in {"nonce", "clear"} => call[t] = "instantiate" /\ node[t] \in Drbg
    /\ drbgPc[t] = "mid" => call[t] \in {"instantiate", "generate"} /\ Generates(t) \in Drbg
    /\ drbgPc[t] = "gen" => call[t] = "generate"
    /\ drbgPc[t] = "uninit" => call[t] = "uninstantiate"
    /\ drbgPc[t] = "free" => call[t] \in {"new", "free"}

(* A seed is held from the moment it is there until it is cleared. *)
SeedHeld ==
  \A t \in DrbgThread : seed[t] # NoData <=> drbgPc[t] \in {"nonce", "clear"}

(* Whoever works on a context works on one that exists. *)
OnMade ==
  \A t \in DrbgThread :
    call[t] \in Working \/ drbgPc[t] \in {"enable", "free"} => node[t] \in made

(* A context is made or freed by one thread, while nobody works on it. *)
Alone ==
  \A t, u \in DrbgThread :
    t # u /\ node[t] = node[u] /\ call[t] \in {"new", "free"} /\ call[u] # "none" =>
      /\ call[u] \notin Working
      /\ drbgPc[t] = "unlock" \/ drbgPc[u] = "unlock"

(* Only wp_drbg_enable_locking leaves a pointer to a freed mutex, and the   *)
(* thread that it failed in goes on to free the context.                    *)
MutexState ==
  \A n \in Node :
    /\ ctxMutex[n] # "none" => n \in made \cap Shared
    /\ ctxMutex[n] = "freed" =>
         \E t \in DrbgThread : node[t] = n /\ call[t] = "new" /\ drbgPc[t] = "free"

IInv ==
  /\ DrbgTypeOK
  /\ CallAtPc
  /\ SeedHeld
  /\ OnMade
  /\ Alone
  /\ MutexState

------------------------------------------------------------------------------
(* A seed or an output is never mistaken for the absence of one. *)
LEMMA DataIsSome ==
  ASSUME NEW a, NEW b, NEW c
  PROVE  <<a, b, c>> # NoData
BY DEF NoData

LEMMA InitIInv == DrbgInit => IInv
<1> SUFFICES ASSUME DrbgInit PROVE IInv
  OBVIOUS
<1> USE DrbgAssumption DEF DrbgInit
<1>1. DrbgTypeOK
  <2>1. (CHOOSE n \in Node : TRUE) \in Node
    OBVIOUS
  <2>2. QED
    BY <2>1 DEF DrbgTypeOK, Data
<1>2. CallAtPc /\ SeedHeld /\ OnMade /\ Alone /\ MutexState
  BY DEF CallAtPc, SeedHeld, OnMade, Alone, MutexState, Working
<1>3. QED
  BY <1>1, <1>2 DEF IInv

LEMMA NextIInv == IInv /\ [DrbgNext]_drbgVars => IInv'
<1> SUFFICES ASSUME IInv, [DrbgNext]_drbgVars PROVE IInv'
  OBVIOUS
<1> USE DrbgAssumption, DataIsSome
        DEF IInv, DrbgTypeOK, CallAtPc, SeedHeld, OnMade, Alone, MutexState, Working, Data,
            Generates, Parent, ctxVars, Node
<1>1. ASSUME NEW t \in DrbgThread, NEW n \in Node, New(t, n) PROVE IInv'
  <2>1. DrbgTypeOK'
    BY <1>1 DEF New, Begin, DrbgGoto
  <2>2. CallAtPc'
    BY <1>1 DEF New, Begin, DrbgGoto
  <2>3. SeedHeld'
    BY <1>1 DEF New, Begin, DrbgGoto
  <2>4. OnMade'
    BY <1>1 DEF New, Begin, DrbgGoto
  <2>5. Alone'
    BY <1>1 DEF New, Begin, DrbgGoto
  <2>6. MutexState'
    BY <1>1 DEF New, Begin, DrbgGoto
  <2>7. QED
    BY <2>1, <2>2, <2>3, <2>4, <2>5, <2>6 DEF IInv
<1>2. ASSUME NEW t \in DrbgThread, NEW n \in Node, Instantiate(t, n) PROVE IInv'
  <2>1. DrbgTypeOK'
    BY <1>2 DEF Instantiate, Enter, Busy, Begin, DrbgGoto
  <2>2. CallAtPc'
    BY <1>2 DEF Instantiate, Enter, Busy, Begin, DrbgGoto
  <2>3. SeedHeld'
    BY <1>2 DEF Instantiate, Enter, Busy, Begin, DrbgGoto
  <2>4. OnMade'
    BY <1>2 DEF Instantiate, Enter, Busy, Begin, DrbgGoto
  <2>5. Alone'
    BY <1>2 DEF Instantiate, Enter, Busy, Begin, DrbgGoto
  <2>6. MutexState'
    BY <1>2 DEF Instantiate, Enter, Busy, Begin, DrbgGoto
  <2>7. QED
    BY <2>1, <2>2, <2>3, <2>4, <2>5, <2>6 DEF IInv
<1>3. ASSUME NEW t \in DrbgThread, NEW n \in Node, Generate(t, n) PROVE IInv'
  <2>1. DrbgTypeOK'
    BY <1>3 DEF Generate, Enter, Begin, DrbgGoto
  <2>2. CallAtPc'
    BY <1>3 DEF Generate, Enter, Begin, DrbgGoto
  <2>3. SeedHeld'
    BY <1>3 DEF Generate, Enter, Begin, DrbgGoto
  <2>4. OnMade'
    BY <1>3 DEF Generate, Enter, Begin, DrbgGoto
  <2>5. Alone'
    BY <1>3 DEF Generate, Enter, Begin, DrbgGoto
  <2>6. MutexState'
    BY <1>3 DEF Generate, Enter, Begin, DrbgGoto
  <2>7. QED
    BY <2>1, <2>2, <2>3, <2>4, <2>5, <2>6 DEF IInv
<1>4. ASSUME NEW t \in DrbgThread, NEW n \in Node, Uninstantiate(t, n) PROVE IInv'
  <2>1. DrbgTypeOK'
    BY <1>4 DEF Uninstantiate, Enter, Begin, DrbgGoto
  <2>2. CallAtPc'
    BY <1>4 DEF Uninstantiate, Enter, Begin, DrbgGoto
  <2>3. SeedHeld'
    BY <1>4 DEF Uninstantiate, Enter, Begin, DrbgGoto
  <2>4. OnMade'
    BY <1>4 DEF Uninstantiate, Enter, Begin, DrbgGoto
  <2>5. Alone'
    BY <1>4 DEF Uninstantiate, Enter, Begin, DrbgGoto
  <2>6. MutexState'
    BY <1>4 DEF Uninstantiate, Enter, Begin, DrbgGoto
  <2>7. QED
    BY <2>1, <2>2, <2>3, <2>4, <2>5, <2>6 DEF IInv
<1>5. ASSUME NEW t \in DrbgThread, NEW n \in Node, Free(t, n) PROVE IInv'
  <2>1. DrbgTypeOK'
    BY <1>5 DEF Free, Busy, Begin, DrbgGoto
  <2>2. CallAtPc'
    BY <1>5 DEF Free, Busy, Begin, DrbgGoto
  <2>3. SeedHeld'
    BY <1>5 DEF Free, Busy, Begin, DrbgGoto
  <2>4. OnMade'
    BY <1>5 DEF Free, Busy, Begin, DrbgGoto
  <2>5. Alone'
    BY <1>5 DEF Free, Busy, Begin, DrbgGoto
  <2>6. MutexState'
    BY <1>5 DEF Free, Busy, Begin, DrbgGoto
  <2>7. QED
    BY <2>1, <2>2, <2>3, <2>4, <2>5, <2>6 DEF IInv
<1>6. ASSUME NEW t \in DrbgThread, EnableLocking(t) PROVE IInv'
  <2>1. DrbgTypeOK'
    <3>1. node[t] \in Node /\ ctxMutex' \in [Node -> {"none", "ready", "freed"}]
      BY <1>6 DEF EnableLocking
    <3>2. drbgPc' \in [DrbgThread -> {"idle", "enable", "lock", "seed", "mid", "nonce", "clear",
                                     "gen", "uninit", "free", "unlock"}]
      BY <1>6 DEF EnableLocking, FailTo, DrbgGoto
    <3>3. drbgOk' \in [DrbgThread -> BOOLEAN]
      <4>1. drbgOk' = drbgOk \/ drbgOk' = [drbgOk EXCEPT ![t] = FALSE]
        BY <1>6 DEF EnableLocking, FailTo
      <4>2. drbgOk \in [DrbgThread -> BOOLEAN]
        OBVIOUS
      <4>3. QED
        BY ONLY <4>1, <4>2
    <3>4. UNCHANGED <<made, ready, owner, epoch, gen, seedOf, sysDrawn, drbgCalls, call,
                      node, seen, seed, out>>
      BY <1>6 DEF EnableLocking
    <3>5. QED
      BY <3>1, <3>2, <3>3, <3>4
  <2>2. CallAtPc'
    BY <1>6 DEF EnableLocking, FailTo, DrbgGoto, ctxVars
  <2>3. SeedHeld'
    BY <1>6 DEF EnableLocking, FailTo, DrbgGoto, ctxVars
  <2>4. OnMade'
    BY <1>6 DEF EnableLocking, FailTo, DrbgGoto, ctxVars
  <2>5. Alone'
    BY <1>6 DEF EnableLocking, FailTo, DrbgGoto, ctxVars
  <2>6. MutexState'
    BY <1>6 DEF EnableLocking, FailTo, DrbgGoto, ctxVars
  <2>7. QED
    BY <2>1, <2>2, <2>3, <2>4, <2>5, <2>6 DEF IInv
<1>7. ASSUME NEW t \in DrbgThread, DrbgLock(t) PROVE IInv'
  <2>1. DrbgTypeOK'
    BY <1>7 DEF DrbgLock, FirstStep, DrbgGoto, ctxVars
  <2>2. CallAtPc'
    BY <1>7 DEF DrbgLock, FirstStep, DrbgGoto, ctxVars
  <2>3. SeedHeld'
    BY <1>7 DEF DrbgLock, FirstStep, DrbgGoto, ctxVars
  <2>4. OnMade'
    BY <1>7 DEF DrbgLock, FirstStep, DrbgGoto, ctxVars
  <2>5. Alone'
    BY <1>7 DEF DrbgLock, FirstStep, DrbgGoto, ctxVars
  <2>6. MutexState'
    BY <1>7 DEF DrbgLock, FirstStep, DrbgGoto, ctxVars
  <2>7. QED
    BY <2>1, <2>2, <2>3, <2>4, <2>5, <2>6 DEF IInv
<1>8. ASSUME NEW t \in DrbgThread, DrbgLockFails(t) PROVE IInv'
  <2>1. DrbgTypeOK'
    BY <1>8 DEF DrbgLockFails, FailTo, DrbgGoto, ctxVars
  <2>2. CallAtPc'
    BY <1>8 DEF DrbgLockFails, FailTo, DrbgGoto, ctxVars
  <2>3. SeedHeld'
    BY <1>8 DEF DrbgLockFails, FailTo, DrbgGoto, ctxVars
  <2>4. OnMade'
    BY <1>8 DEF DrbgLockFails, FailTo, DrbgGoto, ctxVars
  <2>5. Alone'
    BY <1>8 DEF DrbgLockFails, FailTo, DrbgGoto, ctxVars
  <2>6. MutexState'
    BY <1>8 DEF DrbgLockFails, FailTo, DrbgGoto, ctxVars
  <2>7. QED
    BY <2>1, <2>2, <2>3, <2>4, <2>5, <2>6 DEF IInv
<1>9. ASSUME NEW t \in DrbgThread, SeedSrcReady(t) PROVE IInv'
  <2>1. DrbgTypeOK'
    BY <1>9 DEF SeedSrcReady, DrbgGoto, ctxVars
  <2>2. CallAtPc'
    BY <1>9 DEF SeedSrcReady, DrbgGoto, ctxVars
  <2>3. SeedHeld'
    BY <1>9 DEF SeedSrcReady, DrbgGoto, ctxVars
  <2>4. OnMade'
    BY <1>9 DEF SeedSrcReady, DrbgGoto, ctxVars
  <2>5. Alone'
    BY <1>9 DEF SeedSrcReady, DrbgGoto, ctxVars
  <2>6. MutexState'
    BY <1>9 DEF SeedSrcReady, DrbgGoto, ctxVars
  <2>7. QED
    BY <2>1, <2>2, <2>3, <2>4, <2>5, <2>6 DEF IInv
<1>10. ASSUME NEW t \in DrbgThread, SeedFromSystem(t) PROVE IInv'
  <2>1. DrbgTypeOK'
    BY <1>10 DEF SeedFromSystem, SysSeed, DrbgGoto, ctxVars
  <2>2. CallAtPc'
    BY <1>10 DEF SeedFromSystem, SysSeed, DrbgGoto, ctxVars
  <2>3. SeedHeld'
    BY <1>10 DEF SeedFromSystem, SysSeed, DrbgGoto, ctxVars
  <2>4. OnMade'
    BY <1>10 DEF SeedFromSystem, SysSeed, DrbgGoto, ctxVars
  <2>5. Alone'
    BY <1>10 DEF SeedFromSystem, SysSeed, DrbgGoto, ctxVars
  <2>6. MutexState'
    BY <1>10 DEF SeedFromSystem, SysSeed, DrbgGoto, ctxVars
  <2>7. QED
    BY <2>1, <2>2, <2>3, <2>4, <2>5, <2>6 DEF IInv
<1>11. ASSUME NEW t \in DrbgThread, SeedFromParent(t) PROVE IInv'
  <2>1. DrbgTypeOK'
    BY <1>11 DEF SeedFromParent, Parent, DrbgGoto, ctxVars
  <2>2. CallAtPc'
    BY <1>11 DEF SeedFromParent, Parent, DrbgGoto, ctxVars
  <2>3. SeedHeld'
    BY <1>11 DEF SeedFromParent, Parent, DrbgGoto, ctxVars
  <2>4. OnMade'
    BY <1>11 DEF SeedFromParent, Parent, DrbgGoto, ctxVars
  <2>5. Alone'
    BY <1>11 DEF SeedFromParent, Parent, DrbgGoto, ctxVars
  <2>6. MutexState'
    BY <1>11 DEF SeedFromParent, Parent, DrbgGoto, ctxVars
  <2>7. QED
    BY <2>1, <2>2, <2>3, <2>4, <2>5, <2>6 DEF IInv
<1>12. ASSUME NEW t \in DrbgThread, SeedFails(t) PROVE IInv'
  <2>1. DrbgTypeOK'
    BY <1>12 DEF SeedFails, FailTo, DrbgGoto, ctxVars
  <2>2. CallAtPc'
    BY <1>12 DEF SeedFails, FailTo, DrbgGoto, ctxVars
  <2>3. SeedHeld'
    BY <1>12 DEF SeedFails, FailTo, DrbgGoto, ctxVars
  <2>4. OnMade'
    BY <1>12 DEF SeedFails, FailTo, DrbgGoto, ctxVars
  <2>5. Alone'
    BY <1>12 DEF SeedFails, FailTo, DrbgGoto, ctxVars
  <2>6. MutexState'
    BY <1>12 DEF SeedFails, FailTo, DrbgGoto, ctxVars
  <2>7. QED
    BY <2>1, <2>2, <2>3, <2>4, <2>5, <2>6 DEF IInv
<1>13. ASSUME NEW t \in DrbgThread, Generated(t) PROVE IInv'
  <2>1. DrbgTypeOK'
    <3>1. Generates(t) \in Node /\ Output(Generates(t), seen[t]) \in Data
      BY <1>13 DEF Generated, Output
    <3>2. gen' \in [Node -> Nat]
      BY <1>13, <3>1 DEF Generated
    <3>3. seed' \in [DrbgThread -> Data] /\ out' \in [DrbgThread -> Data]
      <4> DEFINE o == Output(Generates(t), seen[t])
      <4>1. \/ seed' = [seed EXCEPT ![t] = o] /\ out' = out
            \/ seed' = seed /\ out' = [out EXCEPT ![t] = o]
        BY <1>13 DEF Generated
      <4>2. o \in Data /\ seed \in [DrbgThread -> Data] /\ out \in [DrbgThread -> Data]
        BY <3>1 DEF IInv, DrbgTypeOK
      <4> HIDE DEF o, IInv
      <4>3. QED
        BY <4>1, <4>2
    <3>4. QED
      BY <1>13, <3>2, <3>3 DEF Generated, DrbgGoto
  <2>2. CallAtPc'
    <3>1. CASE call[t] = "instantiate"
      BY <1>13, <3>1 DEF Generated, DrbgGoto
    <3>2. CASE call[t] # "instantiate"
      BY <1>13, <3>2 DEF Generated, DrbgGoto
    <3>3. QED
      BY <3>1, <3>2
  <2>3. SeedHeld'
    BY <1>13 DEF Generated, Output, Generates, Parent, DrbgGoto, ctxVars
  <2>4. OnMade'
    BY <1>13 DEF Generated, Output, Generates, Parent, DrbgGoto, ctxVars
  <2>5. Alone'
    BY <1>13 DEF Generated, Output, Generates, Parent, DrbgGoto, ctxVars
  <2>6. MutexState'
    BY <1>13 DEF Generated, Output, Generates, Parent, DrbgGoto, ctxVars
  <2>7. QED
    BY <2>1, <2>2, <2>3, <2>4, <2>5, <2>6 DEF IInv
<1>14. ASSUME NEW t \in DrbgThread, NonceFails(t) PROVE IInv'
  <2>1. DrbgTypeOK'
    BY <1>14 DEF NonceFails, FailTo, DrbgGoto, ctxVars
  <2>2. CallAtPc'
    BY <1>14 DEF NonceFails, FailTo, DrbgGoto, ctxVars
  <2>3. SeedHeld'
    BY <1>14 DEF NonceFails, FailTo, DrbgGoto, ctxVars
  <2>4. OnMade'
    BY <1>14 DEF NonceFails, FailTo, DrbgGoto, ctxVars
  <2>5. Alone'
    BY <1>14 DEF NonceFails, FailTo, DrbgGoto, ctxVars
  <2>6. MutexState'
    BY <1>14 DEF NonceFails, FailTo, DrbgGoto, ctxVars
  <2>7. QED
    BY <2>1, <2>2, <2>3, <2>4, <2>5, <2>6 DEF IInv
<1>15. ASSUME NEW t \in DrbgThread, InitRngNonce(t) PROVE IInv'
  <2>1. DrbgTypeOK'
    BY <1>15 DEF InitRngNonce, DrbgGoto, ctxVars
  <2>2. CallAtPc'
    BY <1>15 DEF InitRngNonce, DrbgGoto, ctxVars
  <2>3. SeedHeld'
    BY <1>15 DEF InitRngNonce, DrbgGoto, ctxVars
  <2>4. OnMade'
    BY <1>15 DEF InitRngNonce, DrbgGoto, ctxVars
  <2>5. Alone'
    BY <1>15 DEF InitRngNonce, DrbgGoto, ctxVars
  <2>6. MutexState'
    BY <1>15 DEF InitRngNonce, DrbgGoto, ctxVars
  <2>7. QED
    BY <2>1, <2>2, <2>3, <2>4, <2>5, <2>6 DEF IInv
<1>16. ASSUME NEW t \in DrbgThread, ClearSeed(t) PROVE IInv'
  <2>1. DrbgTypeOK'
    BY <1>16 DEF ClearSeed, DrbgGoto, ctxVars
  <2>2. CallAtPc'
    BY <1>16 DEF ClearSeed, DrbgGoto, ctxVars
  <2>3. SeedHeld'
    BY <1>16 DEF ClearSeed, DrbgGoto, ctxVars
  <2>4. OnMade'
    BY <1>16 DEF ClearSeed, DrbgGoto, ctxVars
  <2>5. Alone'
    BY <1>16 DEF ClearSeed, DrbgGoto, ctxVars
  <2>6. MutexState'
    BY <1>16 DEF ClearSeed, DrbgGoto, ctxVars
  <2>7. QED
    BY <2>1, <2>2, <2>3, <2>4, <2>5, <2>6 DEF IInv
<1>17. ASSUME NEW t \in DrbgThread, EnterGenerate(t) PROVE IInv'
  <2>1. DrbgTypeOK'
    <3>1. CASE node[t] \in Drbg
      <4>1. seen' \in [DrbgThread -> Nat]
        BY <1>17, <3>1 DEF EnterGenerate
      <4>2. drbgPc' \in [DrbgThread -> {"idle", "enable", "lock", "seed", "mid", "nonce", "clear",
                                     "gen", "uninit", "free", "unlock"}]
        BY <1>17, <3>1 DEF EnterGenerate, DrbgGoto
      <4>3. UNCHANGED <<ctxVars, sysDrawn, drbgCalls, call, node, seed, out, drbgOk>>
        BY <1>17, <3>1 DEF EnterGenerate
      <4>4. QED
        BY <4>1, <4>2, <4>3
    <3>2. CASE node[t] \notin Drbg
      <4>1. SysSeed(sysDrawn + 1) \in Data
        BY DEF SysSeed
      <4>2. out' \in [DrbgThread -> Data]
        BY <1>17, <3>2, <4>1 DEF EnterGenerate
      <4>3. QED
        BY <1>17, <3>2, <4>2 DEF EnterGenerate, DrbgGoto
    <3>3. QED
      BY <3>1, <3>2
  <2>2. CallAtPc'
    BY <1>17 DEF EnterGenerate, SysSeed, DrbgGoto, ctxVars
  <2>3. SeedHeld'
    BY <1>17 DEF EnterGenerate, SysSeed, DrbgGoto, ctxVars
  <2>4. OnMade'
    BY <1>17 DEF EnterGenerate, SysSeed, DrbgGoto, ctxVars
  <2>5. Alone'
    BY <1>17 DEF EnterGenerate, SysSeed, DrbgGoto, ctxVars
  <2>6. MutexState'
    BY <1>17 DEF EnterGenerate, SysSeed, DrbgGoto, ctxVars
  <2>7. QED
    BY <2>1, <2>2, <2>3, <2>4, <2>5, <2>6 DEF IInv
<1>18. ASSUME NEW t \in DrbgThread, GenerateFails(t) PROVE IInv'
  <2>1. DrbgTypeOK'
    BY <1>18 DEF GenerateFails, FailTo, DrbgGoto, ctxVars
  <2>2. CallAtPc'
    BY <1>18 DEF GenerateFails, FailTo, DrbgGoto, ctxVars
  <2>3. SeedHeld'
    BY <1>18 DEF GenerateFails, FailTo, DrbgGoto, ctxVars
  <2>4. OnMade'
    BY <1>18 DEF GenerateFails, FailTo, DrbgGoto, ctxVars
  <2>5. Alone'
    BY <1>18 DEF GenerateFails, FailTo, DrbgGoto, ctxVars
  <2>6. MutexState'
    BY <1>18 DEF GenerateFails, FailTo, DrbgGoto, ctxVars
  <2>7. QED
    BY <2>1, <2>2, <2>3, <2>4, <2>5, <2>6 DEF IInv
<1>19. ASSUME NEW t \in DrbgThread, UninstantiateCtx(t) PROVE IInv'
  <2>1. DrbgTypeOK'
    BY <1>19 DEF UninstantiateCtx, DropRng, DrbgGoto, ctxVars
  <2>2. CallAtPc'
    BY <1>19 DEF UninstantiateCtx, DropRng, DrbgGoto, ctxVars
  <2>3. SeedHeld'
    BY <1>19 DEF UninstantiateCtx, DropRng, DrbgGoto, ctxVars
  <2>4. OnMade'
    BY <1>19 DEF UninstantiateCtx, DropRng, DrbgGoto, ctxVars
  <2>5. Alone'
    BY <1>19 DEF UninstantiateCtx, DropRng, DrbgGoto, ctxVars
  <2>6. MutexState'
    BY <1>19 DEF UninstantiateCtx, DropRng, DrbgGoto, ctxVars
  <2>7. QED
    BY <2>1, <2>2, <2>3, <2>4, <2>5, <2>6 DEF IInv
<1>20. ASSUME NEW t \in DrbgThread, FreeCtx(t) PROVE IInv'
  <2>1. DrbgTypeOK'
    BY <1>20 DEF FreeCtx, DropRng, DrbgGoto, ctxVars
  <2>2. CallAtPc'
    BY <1>20 DEF FreeCtx, DropRng, DrbgGoto, ctxVars
  <2>3. SeedHeld'
    BY <1>20 DEF FreeCtx, DropRng, DrbgGoto, ctxVars
  <2>4. OnMade'
    BY <1>20 DEF FreeCtx, DropRng, DrbgGoto, ctxVars
  <2>5. Alone'
    BY <1>20 DEF FreeCtx, DropRng, DrbgGoto, ctxVars
  <2>6. MutexState'
    BY <1>20 DEF FreeCtx, DropRng, DrbgGoto, ctxVars
  <2>7. QED
    BY <2>1, <2>2, <2>3, <2>4, <2>5, <2>6 DEF IInv
<1>21. ASSUME NEW t \in DrbgThread, Return(t) PROVE IInv'
  <2>1. DrbgTypeOK'
    BY <1>21 DEF Return, DrbgGoto, ctxVars
  <2>2. CallAtPc'
    BY <1>21 DEF Return, DrbgGoto, ctxVars
  <2>3. SeedHeld'
    BY <1>21 DEF Return, DrbgGoto, ctxVars
  <2>4. OnMade'
    BY <1>21 DEF Return, DrbgGoto, ctxVars
  <2>5. Alone'
    BY <1>21 DEF Return, DrbgGoto, ctxVars
  <2>6. MutexState'
    BY <1>21 DEF Return, DrbgGoto, ctxVars
  <2>7. QED
    BY <2>1, <2>2, <2>3, <2>4, <2>5, <2>6 DEF IInv
<1>22. CASE UNCHANGED drbgVars
  BY <1>22 DEF drbgVars
<1> HIDE DEF IInv, DrbgTypeOK, CallAtPc, SeedHeld, OnMade, Alone, MutexState, Working,
             Data, Generates, Parent, ctxVars, Node
<1>23. QED
  BY <1>1, <1>2, <1>3, <1>4, <1>5, <1>6, <1>7, <1>8, <1>9, <1>10, <1>11, <1>12,
     <1>13, <1>14, <1>15, <1>16, <1>17, <1>18, <1>19, <1>20, <1>21, <1>22 DEF DrbgNext

LEMMA SpecIInv == DrbgSpec => []IInv
BY InitIInv, NextIInv, PTL DEF DrbgSpec

------------------------------------------------------------------------------
(* Every variable keeps its type; in particular a DRBG has recorded entropy *)
(* exactly while it has a generator.                                        *)
THEOREM SpecTypeOK == DrbgSpec => []DrbgTypeOK
BY SpecIInv, PTL DEF IInv

(* parentClearSeed is reached, or not needed, on every way out of           *)
(* wp_drbg_instantiate, whatever fails in it.                               *)
THEOREM SpecSeedCleared == DrbgSpec => []SeedCleared
<1>1. IInv => SeedCleared
  BY DEF IInv, SeedHeld, SeedCleared
<1>2. QED
  BY <1>1, SpecIInv, PTL

(* The pointer that wp_drbg_enable_locking leaves to a freed mutex is gone  *)
(* before anyone can lock it, for every tree and every number of threads.   *)
THEOREM SpecMutexUsable == DrbgSpec => []MutexUsable
<1>1. IInv => MutexUsable
  <2> SUFFICES ASSUME IInv PROVE MutexUsable
    OBVIOUS
  <2>1. \A n \in Node : n \notin made \cap Shared => ctxMutex[n] = "none"
    BY DEF IInv, DrbgTypeOK, MutexState
  <2>2. ASSUME NEW t \in DrbgThread, drbgPc[t] = "lock", ctxMutex[node[t]] = "freed" PROVE FALSE
    <3>1. PICK u \in DrbgThread : node[u] = node[t] /\ call[u] = "new" /\ drbgPc[u] = "free"
      BY <2>2 DEF IInv, DrbgTypeOK, MutexState
    <3>2. call[t] \in Working
      BY <2>2 DEF IInv, CallAtPc
    <3>3. QED
      BY <3>1, <3>2 DEF IInv, Alone, Working
  <2>3. QED
    BY <2>1, <2>2 DEF MutexUsable
<1>2. QED
  BY <1>1, SpecIInv, PTL

------------------------------------------------------------------------------
Inside(t) == call[t] \in Working /\ drbgPc[t] # "lock"

(* A thread calls the contexts that it uses. *)
CallerUses == \A t \in DrbgThread : call[t] # "none" => t \in Users[node[t]]

(* A shared context has its mutex, once the call that makes it is over. *)
SharedLocked ==
  \A n \in Shared \cap made :
    \/ ctxMutex[n] = "ready"
    \/ \E t \in DrbgThread : node[t] = n /\ call[t] = "new" /\ drbgPc[t] \in {"enable", "free"}

(* Whoever works on a shared context holds its mutex until it returns. *)
InsideOwns == \A t \in DrbgThread : Inside(t) /\ node[t] \in Shared => owner[node[t]] = t

LockInv == CallerUses /\ SharedLocked /\ InsideOwns

LEMMA InitLockInv == DrbgInit => LockInv
BY DrbgAssumption
   DEF DrbgInit, LockInv, CallerUses, SharedLocked, InsideOwns, Inside, Working

LEMMA NextLockInv == IInv /\ LockInv /\ [DrbgNext]_drbgVars => LockInv'
<1> SUFFICES ASSUME IInv, LockInv, [DrbgNext]_drbgVars PROVE LockInv'
  OBVIOUS
<1> USE DrbgAssumption
        DEF IInv, DrbgTypeOK, CallAtPc, OnMade, Alone, MutexState, Working, LockInv,
            CallerUses, SharedLocked, InsideOwns, Inside, ctxVars, Node
<1>1. ASSUME NEW t \in DrbgThread, NEW n \in Node, New(t, n) PROVE LockInv'
  BY <1>1 DEF New, Begin, DrbgGoto
<1>2. ASSUME NEW t \in DrbgThread, NEW n \in Node, Instantiate(t, n) PROVE LockInv'
  BY <1>2 DEF Instantiate, Enter, Busy, Begin, DrbgGoto
<1>3. ASSUME NEW t \in DrbgThread, NEW n \in Node, Generate(t, n) PROVE LockInv'
  BY <1>3 DEF Generate, Enter, Begin, DrbgGoto
<1>4. ASSUME NEW t \in DrbgThread, NEW n \in Node, Uninstantiate(t, n) PROVE LockInv'
  BY <1>4 DEF Uninstantiate, Enter, Begin, DrbgGoto
<1>5. ASSUME NEW t \in DrbgThread, NEW n \in Node, Free(t, n) PROVE LockInv'
  BY <1>5 DEF Free, Busy, Begin, DrbgGoto
<1>6. ASSUME NEW t \in DrbgThread, EnableLocking(t) PROVE LockInv'
  BY <1>6 DEF EnableLocking, FailTo, DrbgGoto
<1>7. ASSUME NEW t \in DrbgThread, DrbgLock(t) PROVE LockInv'
  BY <1>7 DEF DrbgLock, FirstStep, DrbgGoto
<1>8. ASSUME NEW t \in DrbgThread, DrbgLockFails(t) PROVE LockInv'
  BY <1>8 DEF DrbgLockFails, FailTo, DrbgGoto
<1>9. ASSUME NEW t \in DrbgThread, SeedSrcReady(t) PROVE LockInv'
  BY <1>9 DEF SeedSrcReady, DrbgGoto
<1>10. ASSUME NEW t \in DrbgThread, SeedFromSystem(t) PROVE LockInv'
  BY <1>10 DEF SeedFromSystem, DrbgGoto
<1>11. ASSUME NEW t \in DrbgThread, SeedFromParent(t) PROVE LockInv'
  BY <1>11 DEF SeedFromParent, DrbgGoto
<1>12. ASSUME NEW t \in DrbgThread, SeedFails(t) PROVE LockInv'
  BY <1>12 DEF SeedFails, FailTo, DrbgGoto
<1>13. ASSUME NEW t \in DrbgThread, Generated(t) PROVE LockInv'
  BY <1>13 DEF Generated, DrbgGoto
<1>14. ASSUME NEW t \in DrbgThread, NonceFails(t) PROVE LockInv'
  BY <1>14 DEF NonceFails, FailTo, DrbgGoto
<1>15. ASSUME NEW t \in DrbgThread, InitRngNonce(t) PROVE LockInv'
  BY <1>15 DEF InitRngNonce, DrbgGoto
<1>16. ASSUME NEW t \in DrbgThread, ClearSeed(t) PROVE LockInv'
  BY <1>16 DEF ClearSeed, DrbgGoto
<1>17. ASSUME NEW t \in DrbgThread, EnterGenerate(t) PROVE LockInv'
  BY <1>17 DEF EnterGenerate, DrbgGoto
<1>18. ASSUME NEW t \in DrbgThread, GenerateFails(t) PROVE LockInv'
  BY <1>18 DEF GenerateFails, FailTo, DrbgGoto
<1>19. ASSUME NEW t \in DrbgThread, UninstantiateCtx(t) PROVE LockInv'
  BY <1>19 DEF UninstantiateCtx, DropRng, DrbgGoto
<1>20. ASSUME NEW t \in DrbgThread, FreeCtx(t) PROVE LockInv'
  BY <1>20 DEF FreeCtx, DropRng, DrbgGoto
<1>21. ASSUME NEW t \in DrbgThread, Return(t) PROVE LockInv'
  BY <1>21 DEF Return, DrbgGoto
<1>22. CASE UNCHANGED drbgVars
  BY <1>22 DEF drbgVars
<1>23. QED
  BY <1>1, <1>2, <1>3, <1>4, <1>5, <1>6, <1>7, <1>8, <1>9, <1>10, <1>11, <1>12,
     <1>13, <1>14, <1>15, <1>16, <1>17, <1>18, <1>19, <1>20, <1>21, <1>22 DEF DrbgNext

(* No two threads are in one generator, or about to be.  Where the tree     *)
(* does not see to that, the mutex does.                                    *)
LEMMA UsersApart ==
  ASSUME ConfinedTrees, IInv, LockInv,
         NEW t \in DrbgThread, NEW u \in DrbgThread \ {t}, Uses(t) \in Drbg
  PROVE  Uses(u) # Uses(t)
<1> SUFFICES ASSUME Uses(u) = Uses(t) PROVE FALSE
  OBVIOUS
<1> DEFINE n == Uses(t)
<1> USE DrbgAssumption
<1>1. ASSUME NEW v \in DrbgThread, Uses(v) \in Drbg
      PROVE  /\ Uses(v) = node[v] \/ node[v] \in Children(Uses(v))
             /\ call[v] # "none" /\ drbgPc[v] # "unlock"
             /\ Touches(v, Uses(v))
             /\ Uses(v) = node[v] => Inside(v) \/ drbgPc[v] = "free"
  <2>1. drbgPc[v] \in {"gen", "uninit", "free", "nonce", "mid", "seed"}
    BY <1>1 DEF Uses, Node
  <2>2. Uses(v) = node[v] \/ Uses(v) = Parent(v)
    BY <1>1, <2>1 DEF Uses, Generates, Node
  <2>3. node[v] \in Node /\ v \in Users[node[v]] /\ call[v] # "none"
    BY <2>1 DEF IInv, DrbgTypeOK, LockInv, CallAtPc, CallerUses
  <2>4. Uses(v) = node[v] \/ node[v] \in Children(Uses(v))
    BY <2>2, <2>3 DEF Parent, Children
  <2>5. QED
    BY <2>1, <2>3, <2>4 DEF Touches, Inside, Working, IInv, CallAtPc
<1>2. CASE n \in Shared /\ Children(n) = {}
  <2>1. node[t] = n /\ node[u] = n
    BY <1>1, <1>2
  <2>2. CASE drbgPc[t] = "free" \/ drbgPc[u] = "free"
    BY <1>1, <2>1, <2>2 DEF IInv, CallAtPc, Alone
  <2>3. CASE Inside(t) /\ Inside(u)
    BY <1>2, <2>1, <2>3 DEF LockInv, InsideOwns
  <2>4. QED
    BY <1>1, <2>1, <2>2, <2>3
<1>3. QED
  BY <1>1, <1>2 DEF ConfinedTrees

------------------------------------------------------------------------------
(* Between the read of a generator's state and the write of the next one    *)
(* the generator is there, and is the one that was read.                    *)
MidInv ==
  \A t \in DrbgThread : drbgPc[t] = "mid" =>
    Generates(t) \in ready /\ seen[t] = gen[Generates(t)]

LEMMA InitMidInv == DrbgInit => MidInv
BY DEF DrbgInit, MidInv

LEMMA NextMidInv == ConfinedTrees /\ IInv /\ LockInv /\ MidInv /\ [DrbgNext]_drbgVars => MidInv'
<1> SUFFICES ASSUME ConfinedTrees, IInv, LockInv, MidInv, [DrbgNext]_drbgVars PROVE MidInv'
  OBVIOUS
<1>0. ASSUME NEW t \in DrbgThread, NEW u \in DrbgThread, t # u, drbgPc[u] = "mid", Uses(t) \in Drbg
      PROVE  Uses(t) # Generates(u)
  BY <1>0, UsersApart DEF Uses
<1> USE DrbgAssumption
        DEF IInv, DrbgTypeOK, CallAtPc, Working, MidInv, ctxVars, Node, Generates, Parent
<1>1. ASSUME NEW t \in DrbgThread, NEW n \in Node, New(t, n) PROVE MidInv'
  BY <1>1 DEF New, Begin, DrbgGoto
<1>2. ASSUME NEW t \in DrbgThread, NEW n \in Node, Instantiate(t, n) PROVE MidInv'
  BY <1>2 DEF Instantiate, Enter, Busy, Begin, DrbgGoto
<1>3. ASSUME NEW t \in DrbgThread, NEW n \in Node, Generate(t, n) PROVE MidInv'
  BY <1>3 DEF Generate, Enter, Begin, DrbgGoto
<1>4. ASSUME NEW t \in DrbgThread, NEW n \in Node, Uninstantiate(t, n) PROVE MidInv'
  BY <1>4 DEF Uninstantiate, Enter, Begin, DrbgGoto
<1>5. ASSUME NEW t \in DrbgThread, NEW n \in Node, Free(t, n) PROVE MidInv'
  BY <1>5 DEF Free, Busy, Begin, DrbgGoto
<1>6. ASSUME NEW t \in DrbgThread, EnableLocking(t) PROVE MidInv'
  BY <1>6 DEF EnableLocking, FailTo, DrbgGoto
<1>7. ASSUME NEW t \in DrbgThread, DrbgLock(t) PROVE MidInv'
  BY <1>7 DEF DrbgLock, FirstStep, DrbgGoto
<1>8. ASSUME NEW t \in DrbgThread, DrbgLockFails(t) PROVE MidInv'
  BY <1>8 DEF DrbgLockFails, FailTo, DrbgGoto
<1>9. ASSUME NEW t \in DrbgThread, SeedSrcReady(t) PROVE MidInv'
  BY <1>9 DEF SeedSrcReady, DrbgGoto
<1>10. ASSUME NEW t \in DrbgThread, SeedFromSystem(t) PROVE MidInv'
  BY <1>10 DEF SeedFromSystem, DrbgGoto
<1>11. ASSUME NEW t \in DrbgThread, SeedFromParent(t) PROVE MidInv'
  BY <1>11 DEF SeedFromParent, DrbgGoto
<1>12. ASSUME NEW t \in DrbgThread, SeedFails(t) PROVE MidInv'
  BY <1>12 DEF SeedFails, FailTo, DrbgGoto
<1>13. ASSUME NEW t \in DrbgThread, Generated(t) PROVE MidInv'
  BY <1>0, <1>13 DEF Generated, DrbgGoto, Uses
<1>14. ASSUME NEW t \in DrbgThread, NonceFails(t) PROVE MidInv'
  BY <1>14 DEF NonceFails, FailTo, DrbgGoto
<1>15. ASSUME NEW t \in DrbgThread, InitRngNonce(t) PROVE MidInv'
  BY <1>0, <1>15 DEF InitRngNonce, DrbgGoto, Uses
<1>16. ASSUME NEW t \in DrbgThread, ClearSeed(t) PROVE MidInv'
  BY <1>16 DEF ClearSeed, DrbgGoto
<1>17. ASSUME NEW t \in DrbgThread, EnterGenerate(t) PROVE MidInv'
  BY <1>17 DEF EnterGenerate, DrbgGoto
<1>18. ASSUME NEW t \in DrbgThread, GenerateFails(t) PROVE MidInv'
  BY <1>18 DEF GenerateFails, FailTo, DrbgGoto
<1>19. ASSUME NEW t \in DrbgThread, UninstantiateCtx(t) PROVE MidInv'
  BY <1>0, <1>19 DEF UninstantiateCtx, DropRng, DrbgGoto, Uses
<1>20. ASSUME NEW t \in DrbgThread, FreeCtx(t) PROVE MidInv'
  BY <1>0, <1>20 DEF FreeCtx, DropRng, DrbgGoto, Uses
<1>21. ASSUME NEW t \in DrbgThread, Return(t) PROVE MidInv'
  BY <1>21 DEF Return, DrbgGoto
<1>22. CASE UNCHANGED drbgVars
  BY <1>22 DEF drbgVars
<1>23. QED
  BY <1>1, <1>2, <1>3, <1>4, <1>5, <1>6, <1>7, <1>8, <1>9, <1>10, <1>11, <1>12,
     <1>13, <1>14, <1>15, <1>16, <1>17, <1>18, <1>19, <1>20, <1>21, <1>22 DEF DrbgNext

(* Data that has left a generator or the system: a generator does not       *)
(* return to a state, and the system numbers its bytes.                     *)
Issued(d) ==
  \/ d[1] = NoParent /\ d[3] \in 1 .. sysDrawn
  \/ /\ d[1] \in Drbg
     /\ d[2] < epoch[d[1]] \/ (d[2] = epoch[d[1]] /\ d[3] < gen[d[1]])

AllIssued ==
  /\ \A n \in Node : seedOf[n] # NoData => Issued(seedOf[n])
  /\ \A t \in DrbgThread : /\ seed[t] # NoData => Issued(seed[t])
                           /\ out[t] # NoData => Issued(out[t])

(* No two places hold the same data, but for the context that is being      *)
(* instantiated and the buffer it is instantiated from.                     *)
Distinct ==
  /\ \A m, n \in Node : m # n /\ seedOf[m] # NoData => seedOf[m] # seedOf[n]
  /\ \A t, u \in DrbgThread : t # u /\ out[t] # NoData => out[t] # out[u]
  /\ \A t, u \in DrbgThread : out[t] # NoData => out[t] # seed[u]
  /\ \A t \in DrbgThread, n \in Node : out[t] # NoData => out[t] # seedOf[n]
  /\ \A t, u \in DrbgThread : t # u /\ seed[t] # NoData => seed[t] # seed[u]
  /\ \A t \in DrbgThread, n \in Node :
       seed[t] # NoData /\ seed[t] = seedOf[n] => drbgPc[t] = "clear" /\ node[t] = n

FreshInv == AllIssued /\ Distinct

LEMMA InitFreshInv == DrbgInit => FreshInv
BY DrbgAssumption DEF DrbgInit, FreshInv, AllIssued, Distinct

(* What a generator or the system gives next is nowhere yet. *)
LEMMA NextOutputNew ==
  ASSUME IInv, NEW n \in Drbg, NEW d, Issued(d), d \in Data
  PROVE  d # Output(n, gen[n]) /\ d # SysSeed(sysDrawn + 1)
<1>1. n \in Node /\ n # NoParent /\ epoch[n] \in Nat /\ gen[n] \in Nat /\ sysDrawn \in Nat
  BY DrbgAssumption DEF IInv, DrbgTypeOK, Node
<1>2. d # Output(n, gen[n])
  BY <1>1 DEF Issued, Output
<1>3. d # SysSeed(sysDrawn + 1)
  BY <1>1, DrbgAssumption DEF Issued, SysSeed, Node
<1>4. QED
  BY <1>2, <1>3

(* A step that hands out nothing and makes no generator. *)
LEMMA StillFresh ==
  ASSUME IInv, FreshInv, IInv', UNCHANGED <<epoch, gen, sysDrawn>>,
         \A n \in Node : seedOf'[n] \in {seedOf[n], NoData},
         \A t \in DrbgThread : /\ seed'[t] \in {seed[t], NoData}
                               /\ out'[t] \in {out[t], NoData}
                               /\ seed'[t] # NoData /\ drbgPc[t] = "clear" =>
                                drbgPc'[t] = "clear" /\ node'[t] = node[t]
  PROVE  FreshInv'
<1>1. AllIssued'
  BY DEF FreshInv, AllIssued, Issued
<1>2. Distinct'
  BY DEF FreshInv, Distinct
<1>3. QED
  BY <1>1, <1>2 DEF FreshInv

LEMMA NextFreshInv ==
  ConfinedTrees /\ IInv /\ IInv' /\ LockInv /\ MidInv /\ FreshInv /\ [DrbgNext]_drbgVars => FreshInv'
<1> SUFFICES ASSUME ConfinedTrees, IInv, IInv', LockInv, MidInv, FreshInv, [DrbgNext]_drbgVars
             PROVE  FreshInv'
  OBVIOUS
<1> USE DrbgAssumption DEF ctxVars
<1>0. /\ seed \in [DrbgThread -> Data] /\ out \in [DrbgThread -> Data]
      /\ seedOf \in [Node -> Data] /\ node \in [DrbgThread -> Node]
      /\ drbgPc \in [DrbgThread -> {"idle", "enable", "lock", "seed", "mid", "nonce", "clear",
                                     "gen", "uninit", "free", "unlock"}]
  BY DEF IInv, DrbgTypeOK
<1>1. ASSUME NEW t \in DrbgThread, NEW n \in Node, New(t, n) PROVE FreshInv'
  BY <1>0, <1>1, StillFresh DEF New, Begin, DrbgGoto
<1>2. ASSUME NEW t \in DrbgThread, NEW n \in Node, Instantiate(t, n) PROVE FreshInv'
  BY <1>0, <1>2, StillFresh DEF Instantiate, Enter, Begin, DrbgGoto
<1>3. ASSUME NEW t \in DrbgThread, NEW n \in Node, Generate(t, n) PROVE FreshInv'
  BY <1>0, <1>3, StillFresh DEF Generate, Enter, Begin, DrbgGoto
<1>4. ASSUME NEW t \in DrbgThread, NEW n \in Node, Uninstantiate(t, n) PROVE FreshInv'
  BY <1>0, <1>4, StillFresh DEF Uninstantiate, Enter, Begin, DrbgGoto
<1>5. ASSUME NEW t \in DrbgThread, NEW n \in Node, Free(t, n) PROVE FreshInv'
  BY <1>0, <1>5, StillFresh DEF Free, Begin, DrbgGoto
<1>6. ASSUME NEW t \in DrbgThread, EnableLocking(t) PROVE FreshInv'
  BY <1>0, <1>6, StillFresh DEF EnableLocking, FailTo, DrbgGoto
<1>7. ASSUME NEW t \in DrbgThread, DrbgLock(t) PROVE FreshInv'
  BY <1>0, <1>7, StillFresh DEF DrbgLock, FirstStep, DrbgGoto
<1>8. ASSUME NEW t \in DrbgThread, DrbgLockFails(t) PROVE FreshInv'
  BY <1>0, <1>8, StillFresh DEF DrbgLockFails, FailTo, DrbgGoto
<1>9. ASSUME NEW t \in DrbgThread, SeedSrcReady(t) PROVE FreshInv'
  BY <1>0, <1>9, StillFresh DEF SeedSrcReady, DrbgGoto
<1>10. ASSUME NEW t \in DrbgThread, SeedFromSystem(t) PROVE FreshInv'
  <2> DEFINE fresh == SysSeed(sysDrawn + 1)
  <2>1. /\ seed' = [seed EXCEPT ![t] = fresh] /\ sysDrawn' = sysDrawn + 1
        /\ UNCHANGED <<seedOf, epoch, gen, out, node>>
        /\ drbgPc' = [drbgPc EXCEPT ![t] = "nonce"] /\ node[t] \in Drbg
    BY <1>10 DEF SeedFromSystem, DrbgGoto
  <2>2. /\ \A n \in Node : seedOf[n] # NoData => seedOf[n] # fresh
        /\ \A u \in DrbgThread : /\ seed[u] # NoData => seed[u] # fresh
                                 /\ out[u] # NoData => out[u] # fresh
    BY <1>0, <2>1, NextOutputNew DEF FreshInv, AllIssued
  <2>3. fresh # NoData /\ \A d : d = fresh => Issued(d)'
    BY <2>1, DataIsSome DEF SysSeed, Issued, IInv, DrbgTypeOK
  <2>4. \A d \in Data \ {NoData} : Issued(d) => Issued(d)'
    BY <2>1 DEF Issued, IInv, DrbgTypeOK, Node
  <2>5. AllIssued'
    BY <1>0, <2>1, <2>3, <2>4 DEF FreshInv, AllIssued
  <2>6. Distinct'
    BY <1>0, <2>1, <2>2, <2>3 DEF FreshInv, Distinct
  <2>7. QED
    BY <2>5, <2>6 DEF FreshInv
<1>11. ASSUME NEW t \in DrbgThread, SeedFromParent(t) PROVE FreshInv'
  BY <1>0, <1>11, StillFresh DEF SeedFromParent, DrbgGoto
<1>12. ASSUME NEW t \in DrbgThread, SeedFails(t) PROVE FreshInv'
  BY <1>0, <1>12, StillFresh DEF SeedFails, FailTo, DrbgGoto
<1>13. ASSUME NEW t \in DrbgThread, Generated(t) PROVE FreshInv'
  <2> DEFINE n == Generates(t)
             fresh == Output(n, gen[n])
  <2>1. /\ n \in Drbg /\ gen' = [gen EXCEPT ![n] = gen[n] + 1]
        /\ UNCHANGED <<seedOf, epoch, sysDrawn, node>>
        /\ \/ /\ seed' = [seed EXCEPT ![t] = fresh] /\ UNCHANGED out
              /\ drbgPc' = [drbgPc EXCEPT ![t] = "nonce"]
           \/ /\ out' = [out EXCEPT ![t] = fresh] /\ UNCHANGED seed
              /\ drbgPc' = [drbgPc EXCEPT ![t] = "unlock"]
    BY <1>13 DEF Generated, DrbgGoto, MidInv, IInv, CallAtPc
  <2>2. /\ \A m \in Node : seedOf[m] # NoData => seedOf[m] # fresh
        /\ \A u \in DrbgThread : /\ seed[u] # NoData => seed[u] # fresh
                                 /\ out[u] # NoData => out[u] # fresh
    BY <1>0, <2>1, NextOutputNew DEF FreshInv, AllIssued
  <2>3. fresh # NoData /\ \A d : d = fresh => Issued(d)'
    BY <2>1, DataIsSome DEF Output, Issued, IInv, DrbgTypeOK, Node
  <2>4. \A d \in Data \ {NoData} : Issued(d) => Issued(d)'
    <3> SUFFICES ASSUME NEW d \in Data \ {NoData}, Issued(d) PROVE Issued(d)'
      OBVIOUS
    <3>1. d[2] \in Nat /\ d[3] \in Nat
      BY DEF Data
    <3>2. epoch \in [Node -> Nat] /\ gen \in [Node -> Nat] /\ Drbg \subseteq Node
      BY DEF IInv, DrbgTypeOK, Node
    <3>3. CASE d[1] = n
      BY <2>1, <3>1, <3>2, <3>3 DEF Issued
    <3>4. CASE d[1] # n
      BY <2>1, <3>1, <3>2, <3>4 DEF Issued
    <3>5. QED
      BY <3>3, <3>4
  <2>5. AllIssued'
    BY <1>0, <2>1, <2>3, <2>4 DEF FreshInv, AllIssued
  <2>6. seed[t] = NoData
    BY <1>13 DEF Generated, IInv, SeedHeld
  <2>7. Distinct'
    <3>1. CASE /\ seed' = [seed EXCEPT ![t] = fresh] /\ UNCHANGED out
               /\ drbgPc' = [drbgPc EXCEPT ![t] = "nonce"]
      BY <1>0, <2>1, <2>2, <2>3, <3>1 DEF FreshInv, Distinct
    <3>2. CASE /\ out' = [out EXCEPT ![t] = fresh] /\ UNCHANGED seed
               /\ drbgPc' = [drbgPc EXCEPT ![t] = "unlock"]
      BY <1>0, <2>1, <2>2, <2>3, <2>6, <3>2 DEF FreshInv, Distinct
    <3>3. QED
      BY <2>1, <3>1, <3>2
  <2>8. QED
    BY <2>5, <2>7 DEF FreshInv
<1>14. ASSUME NEW t \in DrbgThread, NonceFails(t) PROVE FreshInv'
  BY <1>0, <1>14, StillFresh DEF NonceFails, FailTo, DrbgGoto
<1>15. ASSUME NEW t \in DrbgThread, InitRngNonce(t) PROVE FreshInv'
  <2> DEFINE n == node[t]
  <2>1. /\ drbgPc[t] = "nonce" /\ n \in Node /\ seed[t] # NoData
        /\ seedOf' = [seedOf EXCEPT ![n] = seed[t]]
        /\ epoch' = [epoch EXCEPT ![n] = @ + 1] /\ gen' = [gen EXCEPT ![n] = 0]
        /\ drbgPc' = [drbgPc EXCEPT ![t] = "clear"] /\ UNCHANGED <<sysDrawn, node, seed, out>>
    BY <1>0, <1>15 DEF InitRngNonce, DrbgGoto, IInv, SeedHeld
  <2>2. \A d \in Data \ {NoData} : Issued(d) => Issued(d)'
    <3> SUFFICES ASSUME NEW d \in Data \ {NoData}, Issued(d) PROVE Issued(d)'
      OBVIOUS
    <3>1. d[2] \in Nat /\ d[3] \in Nat
      BY DEF Data
    <3>2. epoch \in [Node -> Nat] /\ gen \in [Node -> Nat] /\ Drbg \subseteq Node
      BY DEF IInv, DrbgTypeOK, Node
    <3>3. CASE d[1] = n
      BY <2>1, <3>1, <3>2, <3>3 DEF Issued
    <3>4. CASE d[1] # n
      BY <2>1, <3>1, <3>2, <3>4 DEF Issued
    <3>5. QED
      BY <3>3, <3>4
  <2>3. AllIssued'
    BY <1>0, <2>1, <2>2 DEF FreshInv, AllIssued
  <2>4. Distinct'
    BY <1>0, <2>1 DEF FreshInv, Distinct
  <2>5. QED
    BY <2>3, <2>4 DEF FreshInv
<1>16. ASSUME NEW t \in DrbgThread, ClearSeed(t) PROVE FreshInv'
  BY <1>0, <1>16, StillFresh DEF ClearSeed, DrbgGoto
<1>17. ASSUME NEW t \in DrbgThread, EnterGenerate(t) PROVE FreshInv'
  <2>1. CASE node[t] \in Drbg
    BY <1>0, <1>17, <2>1, StillFresh DEF EnterGenerate, DrbgGoto
  <2>2. CASE node[t] \notin Drbg
    <3> DEFINE fresh == SysSeed(sysDrawn + 1)
    <3>1. /\ out' = [out EXCEPT ![t] = fresh] /\ sysDrawn' = sysDrawn + 1
          /\ UNCHANGED <<seedOf, epoch, gen, seed, node>>
          /\ drbgPc' = [drbgPc EXCEPT ![t] = "unlock"] /\ drbgPc[t] = "gen"
      BY <1>17, <2>2 DEF EnterGenerate, DrbgGoto
    <3>2. \A d \in Data \ {NoData} : Issued(d) => d # fresh /\ Issued(d)'
      BY <3>1 DEF SysSeed, Issued, IInv, DrbgTypeOK, Node
    <3>3. fresh # NoData /\ \A d : d = fresh => Issued(d)'
      BY <3>1, DataIsSome DEF SysSeed, Issued, IInv, DrbgTypeOK
    <3>4. AllIssued'
      BY <1>0, <3>1, <3>2, <3>3 DEF FreshInv, AllIssued
    <3>5. seed[t] = NoData
      BY <3>1 DEF IInv, SeedHeld
    <3>6. Distinct'
      BY <1>0, <3>1, <3>2, <3>3, <3>5 DEF FreshInv, AllIssued, Distinct
    <3>7. QED
      BY <3>4, <3>6 DEF FreshInv
  <2>3. QED
    BY <2>1, <2>2
<1>18. ASSUME NEW t \in DrbgThread, GenerateFails(t) PROVE FreshInv'
  BY <1>0, <1>18, StillFresh DEF GenerateFails, FailTo, DrbgGoto
<1>19. ASSUME NEW t \in DrbgThread, UninstantiateCtx(t) PROVE FreshInv'
  BY <1>0, <1>19, StillFresh DEF UninstantiateCtx, DropRng, DrbgGoto
<1>20. ASSUME NEW t \in DrbgThread, FreeCtx(t) PROVE FreshInv'
  BY <1>0, <1>20, StillFresh DEF FreeCtx, DropRng, DrbgGoto
<1>21. ASSUME NEW t \in DrbgThread, Return(t) PROVE FreshInv'
  BY <1>0, <1>21, StillFresh DEF Return, DrbgGoto
<1>22. CASE UNCHANGED drbgVars
  BY <1>0, <1>22, StillFresh DEF drbgVars
<1>23. QED
  BY <1>1, <1>2, <1>3, <1>4, <1>5, <1>6, <1>7, <1>8, <1>9, <1>10, <1>11, <1>12,
     <1>13, <1>14, <1>15, <1>16, <1>17, <1>18, <1>19, <1>20, <1>21, <1>22 DEF DrbgNext

------------------------------------------------------------------------------
ConfinedInv == IInv /\ LockInv /\ MidInv /\ FreshInv

LEMMA SpecConfinedInv ==
  ASSUME ConfinedTrees
  PROVE  DrbgSpec => []ConfinedInv
<1>1. DrbgInit => ConfinedInv
  BY InitIInv, InitLockInv, InitMidInv, InitFreshInv DEF ConfinedInv
<1>2. ConfinedInv /\ [DrbgNext]_drbgVars => ConfinedInv'
  BY NextIInv, NextLockInv, NextMidInv, NextFreshInv DEF ConfinedInv
<1>3. QED
  BY <1>1, <1>2, PTL DEF DrbgSpec

(* One thread at a time is inside a generator, and it is not freed under the *)
(* thread, although wp_drbg_get_seed enters a parent without its lock.       *)
THEOREM SpecRngGuarded ==
  ASSUME ConfinedTrees
  PROVE  DrbgSpec => []RngGuarded
<1>1. ConfinedInv => OneUserPerRng
  BY UsersApart DEF ConfinedInv, MidInv, OneUserPerRng
<1>2. DrbgSpec => []ConfinedInv
  BY SpecConfinedInv
<1>3. QED
  BY <1>1, <1>2, SpecMutexUsable, PTL DEF RngGuarded

(* No two generators start from the same entropy and no two callers get the  *)
(* same, however the calls of the threads interleave.                        *)
THEOREM SpecNothingTwice ==
  ASSUME ConfinedTrees
  PROVE  DrbgSpec => []NothingTwice
<1>1. ConfinedInv => NothingTwice
  BY DEF ConfinedInv, FreshInv, Distinct, NothingTwice
<1>2. DrbgSpec => []ConfinedInv
  BY SpecConfinedInv
<1>3. QED
  BY <1>1, <1>2, PTL
==============================================================================
