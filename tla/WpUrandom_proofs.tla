-------------------------- MODULE WpUrandom_proofs --------------------------
(***************************************************************************)
(* What holds of the cached /dev/urandom stream for any threads and        *)
(* processes, any size of request and of the stdio buffer, and any number  *)
(* of calls: a request that succeeds has all its bytes and shares none of  *)
(* them inside its process; and, in a program with one library context     *)
(* whose unload can take the mutex, the globals tell the truth.            *)
(***************************************************************************)
EXTENDS WpUrandom, FiniteSetTheorems, TLAPS

(* The bytes that come first are no more than were asked for. *)
LEMMA FirstOfSize ==
  ASSUME NEW S \in SUBSET Nat, IsFiniteSet(S), NEW k \in Nat
  PROVE  /\ FirstOf(S, k) \subseteq S /\ IsFiniteSet(FirstOf(S, k))
         /\ Cardinality(FirstOf(S, k)) \in 0 .. k
<1> DEFINE F == FirstOf(S, k)
           Below(b) == {c \in S : c < b}
           rank == [b \in F |-> Cardinality(Below(b))]
<1>1. F \subseteq S /\ IsFiniteSet(F) /\ Cardinality(F) \in Nat
  <2>1. F \in SUBSET S
    BY DEF FirstOf
  <2>2. QED
    BY <2>1, FS_Subset, FS_CardinalityType
<1> HIDE DEF F
<1>2. ASSUME NEW b PROVE IsFiniteSet(Below(b)) /\ Cardinality(Below(b)) \in Nat
  <2>1. Below(b) \in SUBSET S
    OBVIOUS
  <2>2. QED
    BY <2>1, FS_Subset, FS_CardinalityType
<1>3. rank \in [F -> 0 .. k - 1]
  <2>1. ASSUME NEW b \in F PROVE Cardinality(Below(b)) \in 0 .. k - 1
    <3>1. Cardinality(Below(b)) < k
      BY DEF F, FirstOf
    <3>2. QED
      BY <1>2, <3>1
  <2>2. QED
    BY <2>1
<1>4. ASSUME NEW x \in F, NEW y \in F, x < y PROVE rank[x] # rank[y]
  <2>1. Below(x) \in SUBSET Below(y) /\ Below(x) # Below(y)
    <3>1. x \in S /\ y \in S /\ x \in Nat /\ y \in Nat /\ S \subseteq Nat
      BY <1>1
    <3>2. x \in Below(y) /\ x \notin Below(x)
      BY <1>4, <3>1
    <3>3. \A c \in S : c < x => c < y
      BY <1>4, <3>1
    <3>4. QED
      BY <3>2, <3>3
  <2>2. Cardinality(Below(x)) # Cardinality(Below(y))
    BY <1>2, <2>1, FS_Subset
  <2>3. QED
    BY <2>2
<1> HIDE DEF rank
<1>5. \A x, y \in F : rank[x] = rank[y] => x = y
  <2>1. \A x, y \in F : x = y \/ x < y \/ y < x
    BY <1>1
  <2>2. QED
    BY <1>4, <2>1
<1>6. IsFiniteSet(0 .. k - 1) /\ Cardinality(0 .. k - 1) = k
  BY FS_Interval
<1>7. ~ (k < Cardinality(F))
  <2>1. SUFFICES ASSUME k < Cardinality(F) PROVE FALSE
    OBVIOUS
  <2>2. \E x, y \in F : x # y /\ rank[x] = rank[y]
    BY <1>1, <1>3, <1>6, <2>1, FS_PigeonHole
  <2>3. QED
    BY <1>5, <2>2
<1>8. QED
  BY <1>1, <1>7 DEF F

(* What one turn of the reading loop takes, from what, and how much. *)
LEMMA Turn ==
  ASSUME TypeOK, NEW t \in Thread, Read(t)
  PROVE  \E supply, taken :
    /\ buf[P(t)] # {} => supply = buf[P(t)] /\ drawn' = drawn
    /\ buf[P(t)] = {} => supply = drawn + 1 .. drawn + BufSize /\ drawn' = drawn + BufSize
    /\ drawn' \in Nat /\ drawn <= drawn' /\ supply \subseteq 1 .. drawn'
    /\ taken \subseteq supply /\ IsFiniteSet(taken)
    /\ Cardinality(taken) \in 0 .. Want - Cardinality(got[t])
    /\ buf' = [buf EXCEPT ![P(t)] = supply \ taken]
    /\ got' = [got EXCEPT ![t] = got[t] \cup taken]
    /\ pc' = [pc EXCEPT ![t] = IF Cardinality(taken) < Want - Cardinality(got[t])
                               THEN "read" ELSE "unlock"]
<1> USE UrandomAssumption
<1> DEFINE fresh == buf[P(t)] = {}
           needed == Want - Cardinality(got[t])
           supply == IF fresh THEN drawn + 1 .. drawn + BufSize ELSE buf[P(t)]
           taken == FirstOf(supply, needed)
<1>1. P(t) \in Process /\ buf[P(t)] \subseteq 1 .. drawn /\ got[t] \subseteq 1 .. drawn
  BY DEF TypeOK, P
<1>2. drawn \in Nat /\ BufSize \in Nat
  BY DEF TypeOK
<1>3. IsFiniteSet(1 .. drawn) /\ IsFiniteSet(drawn + 1 .. drawn + BufSize)
  BY <1>2, FS_Interval
<1>4. supply \subseteq Nat /\ IsFiniteSet(supply)
  BY <1>1, <1>2, <1>3, FS_Subset
<1>5. needed \in Nat
  <2>1. Cardinality(got[t]) \in Nat
    BY <1>1, <1>3, FS_Subset, FS_CardinalityType
  <2>2. QED
    BY <2>1 DEF TypeOK
<1>6. taken \subseteq supply /\ IsFiniteSet(taken) /\ Cardinality(taken) \in 0 .. needed
  BY <1>4, <1>5, FirstOfSize
<1>7. /\ drawn' = IF fresh THEN drawn + BufSize ELSE drawn
      /\ buf' = [buf EXCEPT ![P(t)] = supply \ taken]
      /\ got' = [got EXCEPT ![t] = got[t] \cup taken]
      /\ pc' = [pc EXCEPT ![t] = IF Cardinality(taken) < needed THEN "read" ELSE "unlock"]
  BY DEF Read, ReadOnce, Goto, TypeOK
<1>8. drawn' \in Nat /\ drawn <= drawn' /\ supply \subseteq 1 .. drawn'
  BY <1>1, <1>2, <1>7
<1> HIDE DEF taken
<1>9. QED
  BY <1>6, <1>7, <1>8

(* A turn leaves the thread with what it had and what it took: no more than *)
(* it wants, and all of it when nothing of it was already there and the    *)
(* turn did not end short.                                                 *)
LEMMA ReadTotal ==
  ASSUME TypeOK, NEW t \in Thread, NEW taken, IsFiniteSet(taken),
         Cardinality(taken) \in 0 .. Want - Cardinality(got[t])
  PROVE  /\ Cardinality(got[t] \cup taken) <= Want
         /\ got[t] \cap taken = {} /\ ~(Cardinality(taken) < Want - Cardinality(got[t]))
              => Cardinality(got[t] \cup taken) = Want
<1>1. IsFiniteSet(got[t]) /\ Cardinality(got[t]) \in Nat
  <2>1. got[t] \in SUBSET (1 .. drawn) /\ IsFiniteSet(1 .. drawn)
    <3>1. drawn \in Int /\ got[t] \in SUBSET (1 .. drawn)
      BY DEF TypeOK
    <3>2. QED
      BY <3>1, FS_Interval
  <2>2. QED
    BY <2>1, FS_Subset, FS_CardinalityType
<1>2. /\ Cardinality(got[t] \cap taken) \in Nat
      /\ got[t] \cap taken = {} => Cardinality(got[t] \cap taken) = 0
      /\ Cardinality(got[t] \cup taken)
           = Cardinality(got[t]) + Cardinality(taken) - Cardinality(got[t] \cap taken)
  BY <1>1, FS_Union, FS_EmptySet, FS_Intersection, FS_CardinalityType
<1>3. QED
  BY <1>1, <1>2, UrandomAssumption

------------------------------------------------------------------------------
(* A stream that is remembered is open. *)
Backed == \A p \in Process : file[p] => opened[p] >= 1

LEMMA InitTypeOK == Init => TypeOK /\ Backed
<1> SUFFICES ASSUME Init PROVE TypeOK /\ Backed
  OBVIOUS
<1>1. Cardinality({}) = 0 /\ 0 <= Want
  BY FS_EmptySet, UrandomAssumption
<1>2. \A t \in Thread : Cardinality(got[t]) <= Want
  BY <1>1 DEF Init
<1>3. Backed
  BY DEF Init, Backed
<1>4. /\ inst \in [Process -> [Instance -> {"none", "busy", "loaded"}]]
      /\ buf \in [Process -> SUBSET (1 .. drawn)] /\ got \in [Thread -> SUBSET (1 .. drawn)]
      /\ calls \in 0 .. MaxCalls /\ drawn \in Nat
  BY UrandomAssumption DEF Init
<1>5. QED
  BY <1>2, <1>3, <1>4, UrandomAssumption DEF Init, TypeOK, LockUse

LEMMA NextTypeOK == TypeOK /\ Backed /\ [Next]_vars => TypeOK'
<1> SUFFICES ASSUME TypeOK, Backed, [Next]_vars PROVE TypeOK'
  OBVIOUS
<1> USE UrandomAssumption DEF TypeOK, P, LockUse, Goto, Fail, globals, locals
<1>1. ASSUME NEW t \in Thread, NEW i \in Instance,
             StartLoad(t, i) \/ StartUnload(t, i) \/ StartRead(t, i) \/ StartReseed(t, i)
      PROVE  TypeOK'
  <2>1. Cardinality({}) = 0
    BY FS_EmptySet
  <2>2. \E j \in {"load", "unload", "read", "reseed"},
           first \in LockUse \cup {"setcb", "seed"} : Start(t, j, i, first)
    BY <1>1 DEF StartLoad, StartUnload, StartRead, StartReseed
  <2>3. inst' \in [Process -> [Instance -> {"none", "busy", "loaded"}]]
    <3>1. inst[P(t)] \in [Instance -> {"none", "busy", "loaded"}]
      OBVIOUS
    <3>2. \/ UNCHANGED inst
          \/ inst' = [inst EXCEPT ![P(t)] = [inst[P(t)] EXCEPT ![i] = "busy"]]
      BY <1>1 DEF StartLoad, StartUnload, StartRead, StartReseed
    <3>3. [inst[P(t)] EXCEPT ![i] = "busy"] \in [Instance -> {"none", "busy", "loaded"}]
      BY <3>1
    <3>4. QED
      BY <3>2, <3>3
  <2>4. QED
    BY <2>1, <2>2, <2>3 DEF Start
<1>2. ASSUME NEW t \in Thread, Fork(t) PROVE TypeOK'
  BY <1>2 DEF Fork, Copied, Process
<1>3. ASSUME NEW t \in Thread, LockFails(t) PROVE TypeOK'
  BY <1>3 DEF LockFails
<1>4. ASSUME NEW t \in Thread, SetSeedCb(t) PROVE TypeOK'
  BY <1>4 DEF SetSeedCb
<1>5. ASSUME NEW t \in Thread, Seed(t) PROVE TypeOK'
  BY <1>5 DEF Seed
<1>6. ASSUME NEW t \in Thread, CtxNew(t) PROVE TypeOK'
  BY <1>6 DEF CtxNew
<1>7. ASSUME NEW t \in Thread, Lock(t) PROVE TypeOK'
  BY <1>7 DEF Lock
<1>8. ASSUME NEW t \in Thread, OpenFails(t) PROVE TypeOK'
  BY <1>8 DEF OpenFails
<1>9. ASSUME NEW t \in Thread, Open(t) PROVE TypeOK'
  <2>1. CASE file[P(t)]
    BY <1>9, <2>1 DEF Open
  <2>2. CASE ~ file[P(t)]
    <3>1. /\ file' = [file EXCEPT ![P(t)] = TRUE]
          /\ opened' = [opened EXCEPT ![P(t)] = opened[P(t)] + 1]
          /\ buf' = [buf EXCEPT ![P(t)] = {}]
      BY <1>9, <2>2 DEF Open
    <3>2. opened[P(t)] + 1 \in Nat
      OBVIOUS
    <3>3. opened' \in [Process -> Nat] /\ file' \in [Process -> BOOLEAN]
      BY <3>1, <3>2
    <3>4. buf' \in [Process -> SUBSET (1 .. drawn)]
      BY <3>1
    <3>5. QED
      BY <1>9, <3>3, <3>4 DEF Open
  <2>3. QED
    BY <2>1, <2>2
<1>10. ASSUME NEW t \in Thread, Read(t) PROVE TypeOK'
  <2>1. PICK supply, taken :
          /\ drawn' \in Nat /\ drawn <= drawn' /\ supply \subseteq 1 .. drawn'
          /\ taken \subseteq supply /\ IsFiniteSet(taken)
          /\ Cardinality(taken) \in 0 .. Want - Cardinality(got[t])
          /\ buf' = [buf EXCEPT ![P(t)] = supply \ taken]
          /\ got' = [got EXCEPT ![t] = got[t] \cup taken]
          /\ pc' \in {[pc EXCEPT ![t] = "read"], [pc EXCEPT ![t] = "unlock"]}
    BY <1>10, Turn
  <2>2. 1 .. drawn \subseteq 1 .. drawn'
    BY <2>1
  <2>3. Cardinality(got[t] \cup taken) <= Want
    BY <2>1, ReadTotal
  <2>4. buf' \in [Process -> SUBSET (1 .. drawn')]
    BY <2>1, <2>2
  <2>5. got' \in [Thread -> SUBSET (1 .. drawn')]
    BY <2>1, <2>2
  <2>6. \A u \in Thread : Cardinality(got'[u]) <= Want
    BY <2>1, <2>3
  <2>7. QED
    BY <1>10, <2>1, <2>4, <2>5, <2>6 DEF Read, ReadOnce
<1>11. ASSUME NEW t \in Thread, ReadFails(t) PROVE TypeOK'
  BY <1>11 DEF ReadFails
<1>12. ASSUME NEW t \in Thread, UrandomInit(t) PROVE TypeOK'
  BY <1>12 DEF UrandomInit
<1>13. ASSUME NEW t \in Thread, UrandomCleanup(t) PROVE TypeOK'
  <2>1. opened' \in [Process -> Nat]
    <3>1. (IF file[P(t)] THEN opened[P(t)] - 1 + 0 ELSE opened[P(t)]) \in Nat
      BY DEF Backed
    <3>2. QED
      BY <1>13, <3>1 DEF UrandomCleanup, Cleanup
  <2>2. seedCb' \in [Process -> {"null", "wc", "wp"}]
    BY <1>13 DEF UrandomCleanup, Cleanup
  <2>3. QED
    BY <1>13, <2>1, <2>2 DEF UrandomCleanup, Cleanup
<1>14. ASSUME NEW t \in Thread, Unlock(t) PROVE TypeOK'
  BY <1>14 DEF Unlock
<1>15. ASSUME NEW t \in Thread, Finish(t) PROVE TypeOK'
  BY <1>15 DEF Finish
<1>16. CASE UNCHANGED vars
  BY <1>16 DEF vars
<1>17. QED
  BY <1>1, <1>2, <1>3, <1>4, <1>5, <1>6, <1>7, <1>8, <1>9, <1>10, <1>11, <1>12, <1>13,
     <1>14, <1>15, <1>16 DEF Next, Proceed

LEMMA NextBacked == TypeOK /\ Backed /\ [Next]_vars => Backed'
<1> SUFFICES ASSUME TypeOK, Backed, [Next]_vars PROVE Backed'
  OBVIOUS
<1> USE UrandomAssumption DEF TypeOK, P, LockUse, Goto, Fail, globals, locals, Peers, Alive, Backed
<1>1. ASSUME NEW t \in Thread, NEW i \in Instance, StartLoad(t, i) PROVE Backed'
  BY <1>1 DEF StartLoad, Start
<1>2. ASSUME NEW t \in Thread, NEW i \in Instance, StartUnload(t, i) PROVE Backed'
  BY <1>2 DEF StartUnload, Start
<1>3. ASSUME NEW t \in Thread, NEW i \in Instance, StartRead(t, i) PROVE Backed'
  BY <1>3 DEF StartRead, Start
<1>4. ASSUME NEW t \in Thread, NEW i \in Instance, StartReseed(t, i) PROVE Backed'
  BY <1>4 DEF StartReseed, Start
<1>5. ASSUME NEW t \in Thread, Fork(t) PROVE Backed'
  BY <1>5 DEF Fork, Copied, Process
<1>6. ASSUME NEW t \in Thread, LockFails(t) PROVE Backed'
  BY <1>6 DEF LockFails
<1>7. ASSUME NEW t \in Thread, SetSeedCb(t) PROVE Backed'
  BY <1>7 DEF SetSeedCb
<1>8. ASSUME NEW t \in Thread, Seed(t) PROVE Backed'
  BY <1>8 DEF Seed
<1>9. ASSUME NEW t \in Thread, CtxNew(t) PROVE Backed'
  BY <1>9 DEF CtxNew
<1>10. ASSUME NEW t \in Thread, Lock(t) PROVE Backed'
  BY <1>10 DEF Lock
<1>11. ASSUME NEW t \in Thread, OpenFails(t) PROVE Backed'
  BY <1>11 DEF OpenFails
<1>12. ASSUME NEW t \in Thread, Open(t) PROVE Backed'
  <2>1. CASE file[P(t)]
    BY <1>12, <2>1 DEF Open
  <2>2. CASE ~ file[P(t)]
    <3>1. /\ file' = [file EXCEPT ![P(t)] = TRUE]
          /\ opened' = [opened EXCEPT ![P(t)] = opened[P(t)] + 1]
      BY <1>12, <2>2 DEF Open
    <3>2. opened[P(t)] + 1 >= 1
      OBVIOUS
    <3>3. QED
      BY <3>1, <3>2
  <2>3. QED
    BY <2>1, <2>2
<1>13. ASSUME NEW t \in Thread, Read(t) PROVE Backed'
  BY <1>13 DEF Read, ReadOnce
<1>14. ASSUME NEW t \in Thread, ReadFails(t) PROVE Backed'
  BY <1>14 DEF ReadFails
<1>15. ASSUME NEW t \in Thread, UrandomInit(t) PROVE Backed'
  BY <1>15 DEF UrandomInit
<1>16. ASSUME NEW t \in Thread, UrandomCleanup(t) PROVE Backed'
  BY <1>16 DEF UrandomCleanup, Cleanup
<1>17. ASSUME NEW t \in Thread, Unlock(t) PROVE Backed'
  BY <1>17 DEF Unlock
<1>18. ASSUME NEW t \in Thread, Finish(t) PROVE Backed'
  BY <1>18 DEF Finish
<1>19. CASE UNCHANGED vars
  BY <1>19 DEF vars
<1>20. QED
  BY <1>1, <1>2, <1>3, <1>4, <1>5, <1>6, <1>7, <1>8, <1>9, <1>10, <1>11, <1>12,
     <1>13, <1>14, <1>15, <1>16, <1>17, <1>18, <1>19 DEF Next, Proceed

(* The type invariant, for every instance. *)
THEOREM SpecTypeOK == Spec => []TypeOK
<1>1. Spec => [](TypeOK /\ Backed)
  <2>1. TypeOK /\ Backed /\ [Next]_vars => (TypeOK /\ Backed)'
    BY NextTypeOK, NextBacked
  <2>2. QED
    BY InitTypeOK, <2>1, PTL DEF Spec
<1>2. QED
  BY <1>1, PTL

------------------------------------------------------------------------------
(* Where the bytes are: each at most once in a process, in the buffer of the *)
(* stream or with one thread; and how far each request is.                   *)
Apart ==
  \A t \in Thread :
    /\ got[t] \cap buf[P(t)] = {}
    /\ \A u \in Peers(t) : got[t] \cap got[u] = {}

Asleep == \A t \in Thread : ~ Alive(t) => pc[t] = "idle" /\ got[t] = {}

Served ==
  \A t \in Thread : job[t] = "read" /\ ok[t] =>
    /\ pc[t] \in {"lock", "open", "read", "unlock", "finish"}
    /\ pc[t] \in {"unlock", "finish"} => Cardinality(got[t]) = Want

BytesInv == TypeOK /\ Backed /\ Apart /\ Asleep /\ Served

LEMMA InitBytesInv == Init => BytesInv
<1> SUFFICES ASSUME Init PROVE BytesInv
  OBVIOUS
<1>1. Apart /\ Asleep /\ Served
  BY DEF Init, Apart, Asleep, Served
<1>2. QED
  BY <1>1, InitTypeOK DEF BytesInv

LEMMA NextApart == BytesInv /\ [Next]_vars => Apart'
<1> SUFFICES ASSUME BytesInv, [Next]_vars PROVE Apart'
  OBVIOUS
<1>0. TypeOK /\ Apart /\ Asleep
  BY DEF BytesInv
<1> USE UrandomAssumption DEF TypeOK, P, LockUse, Goto, Fail, globals, locals, Peers, Alive, Apart, Asleep
<1>1. ASSUME NEW t \in Thread, NEW i \in Instance, StartLoad(t, i) PROVE Apart'
  BY <1>0, <1>1 DEF StartLoad, Start
<1>2. ASSUME NEW t \in Thread, NEW i \in Instance, StartUnload(t, i) PROVE Apart'
  BY <1>0, <1>2 DEF StartUnload, Start
<1>3. ASSUME NEW t \in Thread, NEW i \in Instance, StartRead(t, i) PROVE Apart'
  BY <1>0, <1>3 DEF StartRead, Start
<1>4. ASSUME NEW t \in Thread, NEW i \in Instance, StartReseed(t, i) PROVE Apart'
  BY <1>0, <1>4 DEF StartReseed, Start
<1>5. ASSUME NEW t \in Thread, Fork(t) PROVE Apart'
  BY <1>0, <1>5 DEF Fork, Copied, Process
<1>6. ASSUME NEW t \in Thread, LockFails(t) PROVE Apart'
  BY <1>0, <1>6 DEF LockFails
<1>7. ASSUME NEW t \in Thread, SetSeedCb(t) PROVE Apart'
  BY <1>0, <1>7 DEF SetSeedCb
<1>8. ASSUME NEW t \in Thread, Seed(t) PROVE Apart'
  BY <1>0, <1>8 DEF Seed
<1>9. ASSUME NEW t \in Thread, CtxNew(t) PROVE Apart'
  BY <1>0, <1>9 DEF CtxNew
<1>10. ASSUME NEW t \in Thread, Lock(t) PROVE Apart'
  BY <1>0, <1>10 DEF Lock
<1>11. ASSUME NEW t \in Thread, OpenFails(t) PROVE Apart'
  BY <1>0, <1>11 DEF OpenFails
<1>12. ASSUME NEW t \in Thread, Open(t) PROVE Apart'
  BY <1>0, <1>12 DEF Open
<1>13. ASSUME NEW t \in Thread, Read(t) PROVE Apart'
  <2>1. PICK supply, taken :
          /\ buf[P(t)] # {} => supply = buf[P(t)]
          /\ buf[P(t)] = {} => supply = drawn + 1 .. drawn + BufSize
          /\ taken \subseteq supply
          /\ buf' = [buf EXCEPT ![P(t)] = supply \ taken]
          /\ got' = [got EXCEPT ![t] = got[t] \cup taken]
    <3> HIDE DEF TypeOK, Apart, Asleep, P
    <3>1. QED
      BY <1>0, <1>13, Turn
  <2>2. ASSUME NEW u \in Thread, P(u) = P(t) PROVE got[u] \cap supply = {}
    <3>1. CASE buf[P(t)] # {}
      BY <1>0, <2>1, <2>2, <3>1
    <3>2. CASE buf[P(t)] = {}
      BY <1>0, <2>1, <3>2
    <3>3. QED
      BY <3>1, <3>2
  <2>3. QED
    BY <1>0, <2>1, <2>2
<1>14. ASSUME NEW t \in Thread, ReadFails(t) PROVE Apart'
  BY <1>0, <1>14 DEF ReadFails
<1>15. ASSUME NEW t \in Thread, UrandomInit(t) PROVE Apart'
  BY <1>0, <1>15 DEF UrandomInit
<1>16. ASSUME NEW t \in Thread, UrandomCleanup(t) PROVE Apart'
  BY <1>0, <1>16 DEF UrandomCleanup, Cleanup
<1>17. ASSUME NEW t \in Thread, Unlock(t) PROVE Apart'
  BY <1>0, <1>17 DEF Unlock
<1>18. ASSUME NEW t \in Thread, Finish(t) PROVE Apart'
  BY <1>0, <1>18 DEF Finish
<1>19. CASE UNCHANGED vars
  BY <1>0, <1>19 DEF vars
<1>20. QED
  BY <1>1, <1>2, <1>3, <1>4, <1>5, <1>6, <1>7, <1>8, <1>9, <1>10, <1>11, <1>12,
     <1>13, <1>14, <1>15, <1>16, <1>17, <1>18, <1>19 DEF Next, Proceed

LEMMA NextAsleep == BytesInv /\ [Next]_vars => Asleep'
<1> SUFFICES ASSUME BytesInv, [Next]_vars PROVE Asleep'
  OBVIOUS
<1>0. TypeOK /\ Asleep
  BY DEF BytesInv
<1> USE UrandomAssumption DEF TypeOK, P, LockUse, Goto, Fail, globals, locals, Peers, Alive, Asleep
<1>1. ASSUME NEW t \in Thread, NEW i \in Instance, StartLoad(t, i) PROVE Asleep'
  BY <1>0, <1>1 DEF StartLoad, Start
<1>2. ASSUME NEW t \in Thread, NEW i \in Instance, StartUnload(t, i) PROVE Asleep'
  BY <1>0, <1>2 DEF StartUnload, Start
<1>3. ASSUME NEW t \in Thread, NEW i \in Instance, StartRead(t, i) PROVE Asleep'
  BY <1>0, <1>3 DEF StartRead, Start
<1>4. ASSUME NEW t \in Thread, NEW i \in Instance, StartReseed(t, i) PROVE Asleep'
  BY <1>0, <1>4 DEF StartReseed, Start
<1>5. ASSUME NEW t \in Thread, Fork(t) PROVE Asleep'
  BY <1>0, <1>5 DEF Fork, Copied, Process
<1>6. ASSUME NEW t \in Thread, LockFails(t) PROVE Asleep'
  BY <1>0, <1>6 DEF LockFails
<1>7. ASSUME NEW t \in Thread, SetSeedCb(t) PROVE Asleep'
  BY <1>0, <1>7 DEF SetSeedCb
<1>8. ASSUME NEW t \in Thread, Seed(t) PROVE Asleep'
  BY <1>0, <1>8 DEF Seed
<1>9. ASSUME NEW t \in Thread, CtxNew(t) PROVE Asleep'
  BY <1>0, <1>9 DEF CtxNew
<1>10. ASSUME NEW t \in Thread, Lock(t) PROVE Asleep'
  BY <1>0, <1>10 DEF Lock
<1>11. ASSUME NEW t \in Thread, OpenFails(t) PROVE Asleep'
  BY <1>0, <1>11 DEF OpenFails
<1>12. ASSUME NEW t \in Thread, Open(t) PROVE Asleep'
  BY <1>0, <1>12 DEF Open
<1>13. ASSUME NEW t \in Thread, Read(t) PROVE Asleep'
  BY <1>0, <1>13 DEF Read, ReadOnce
<1>14. ASSUME NEW t \in Thread, ReadFails(t) PROVE Asleep'
  BY <1>0, <1>14 DEF ReadFails
<1>15. ASSUME NEW t \in Thread, UrandomInit(t) PROVE Asleep'
  BY <1>0, <1>15 DEF UrandomInit
<1>16. ASSUME NEW t \in Thread, UrandomCleanup(t) PROVE Asleep'
  BY <1>0, <1>16 DEF UrandomCleanup, Cleanup
<1>17. ASSUME NEW t \in Thread, Unlock(t) PROVE Asleep'
  BY <1>0, <1>17 DEF Unlock
<1>18. ASSUME NEW t \in Thread, Finish(t) PROVE Asleep'
  BY <1>0, <1>18 DEF Finish
<1>19. CASE UNCHANGED vars
  BY <1>0, <1>19 DEF vars
<1>20. QED
  BY <1>1, <1>2, <1>3, <1>4, <1>5, <1>6, <1>7, <1>8, <1>9, <1>10, <1>11, <1>12,
     <1>13, <1>14, <1>15, <1>16, <1>17, <1>18, <1>19 DEF Next, Proceed

LEMMA NextServed == BytesInv /\ [Next]_vars => Served'
<1> SUFFICES ASSUME BytesInv, [Next]_vars PROVE Served'
  OBVIOUS
<1>0. TypeOK /\ Apart /\ Served
  BY DEF BytesInv
<1> USE UrandomAssumption DEF TypeOK, P, LockUse, Goto, Fail, globals, locals, Peers, Alive, Apart, Served
<1>1. ASSUME NEW t \in Thread, NEW i \in Instance, StartLoad(t, i) PROVE Served'
  BY <1>0, <1>1 DEF StartLoad, Start
<1>2. ASSUME NEW t \in Thread, NEW i \in Instance, StartUnload(t, i) PROVE Served'
  BY <1>0, <1>2 DEF StartUnload, Start
<1>3. ASSUME NEW t \in Thread, NEW i \in Instance, StartRead(t, i) PROVE Served'
  BY <1>0, <1>3 DEF StartRead, Start
<1>4. ASSUME NEW t \in Thread, NEW i \in Instance, StartReseed(t, i) PROVE Served'
  BY <1>0, <1>4 DEF StartReseed, Start
<1>5. ASSUME NEW t \in Thread, Fork(t) PROVE Served'
  BY <1>0, <1>5 DEF Fork, Copied, Process
<1>6. ASSUME NEW t \in Thread, LockFails(t) PROVE Served'
  BY <1>0, <1>6 DEF LockFails
<1>7. ASSUME NEW t \in Thread, SetSeedCb(t) PROVE Served'
  BY <1>0, <1>7 DEF SetSeedCb
<1>8. ASSUME NEW t \in Thread, Seed(t) PROVE Served'
  BY <1>0, <1>8 DEF Seed
<1>9. ASSUME NEW t \in Thread, CtxNew(t) PROVE Served'
  BY <1>0, <1>9 DEF CtxNew
<1>10. ASSUME NEW t \in Thread, Lock(t) PROVE Served'
  BY <1>0, <1>10 DEF Lock
<1>11. ASSUME NEW t \in Thread, OpenFails(t) PROVE Served'
  BY <1>0, <1>11 DEF OpenFails
<1>12. ASSUME NEW t \in Thread, Open(t) PROVE Served'
  BY <1>0, <1>12 DEF Open
<1>13. ASSUME NEW t \in Thread, Read(t) PROVE Served'
  <2>1. PICK supply, taken :
          /\ buf[P(t)] # {} => supply = buf[P(t)]
          /\ buf[P(t)] = {} => supply = drawn + 1 .. drawn + BufSize
          /\ taken \subseteq supply /\ IsFiniteSet(taken)
          /\ Cardinality(taken) \in 0 .. Want - Cardinality(got[t])
          /\ got' = [got EXCEPT ![t] = got[t] \cup taken]
          /\ pc' = [pc EXCEPT ![t] = IF Cardinality(taken) < Want - Cardinality(got[t])
                                     THEN "read" ELSE "unlock"]
    BY <1>0, <1>13, Turn
  <2>2. got[t] \cap supply = {}
    <3>1. CASE buf[P(t)] # {}
      BY <1>0, <2>1, <3>1
    <3>2. CASE buf[P(t)] = {}
      BY <1>0, <2>1, <3>2
    <3>3. QED
      BY <3>1, <3>2
  <2>3. ~(Cardinality(taken) < Want - Cardinality(got[t]))
          => Cardinality(got[t] \cup taken) = Want
    BY <1>0, <2>1, <2>2, ReadTotal
  <2>4. UNCHANGED <<job, ok>> /\ pc[t] = "read"
    BY <1>13 DEF Read, ReadOnce
  <2>5. pc'[t] # "read" => Cardinality(got'[t]) = Want
    BY <1>0, <2>1, <2>3
  <2>6. QED
    BY <1>0, <2>1, <2>4, <2>5
<1>14. ASSUME NEW t \in Thread, ReadFails(t) PROVE Served'
  BY <1>0, <1>14 DEF ReadFails
<1>15. ASSUME NEW t \in Thread, UrandomInit(t) PROVE Served'
  BY <1>0, <1>15 DEF UrandomInit
<1>16. ASSUME NEW t \in Thread, UrandomCleanup(t) PROVE Served'
  BY <1>0, <1>16 DEF UrandomCleanup, Cleanup
<1>17. ASSUME NEW t \in Thread, Unlock(t) PROVE Served'
  BY <1>0, <1>17 DEF Unlock
<1>18. ASSUME NEW t \in Thread, Finish(t) PROVE Served'
  BY <1>0, <1>18 DEF Finish
<1>19. CASE UNCHANGED vars
  BY <1>0, <1>19 DEF vars
<1>20. QED
  BY <1>1, <1>2, <1>3, <1>4, <1>5, <1>6, <1>7, <1>8, <1>9, <1>10, <1>11, <1>12,
     <1>13, <1>14, <1>15, <1>16, <1>17, <1>18, <1>19 DEF Next, Proceed

(* A request that succeeds has all its bytes, and the requests of a process  *)
(* share none, whatever its threads do, fail or fork meanwhile.              *)
THEOREM SpecSeedsFullAndDistinct == Spec => []SeedsFullAndDistinct
<1>1. BytesInv /\ [Next]_vars => BytesInv'
  BY NextTypeOK, NextBacked, NextApart, NextAsleep, NextServed DEF BytesInv
<1>2. BytesInv => SeedsFullAndDistinct
  BY DEF BytesInv, Served, Apart, SeedsFullAndDistinct
<1>3. QED
  BY InitBytesInv, <1>1, <1>2, PTL DEF Spec

------------------------------------------------------------------------------
(* A program that loads the provider into one library context, on a platform *)
(* where an unload never fails to take the mutex.                            *)
OneContext ==
  /\ \E i : Instance = {i}
  /\ "lockClean" \notin LockErrors

(* Nothing is left of the provider in the process. *)
Blank(p) == ~ file[p] /\ ~ registered[p] /\ seedCb[p] # "wp"

(* A load or an unload is alone in its process, and what it does is as far   *)
(* as it has come.                                                           *)
Alone ==
  \A t \in Thread :
    /\ pc[t] = "idle" <=> job[t] = "none"
    /\ ~ Alive(t) => job[t] = "none"
    /\ job[t] \in {"load", "unload"} =>
         /\ inst[P(t)][arg[t]] = "busy"
         /\ \A u \in Peers(t) : job[u] = "none"
    /\ job[t] \in {"read", "reseed"} => inst[P(t)][arg[t]] = "loaded"

LoadAt ==
  \A t \in Thread : job[t] = "load" =>
    /\ pc[t] \in {"setcb", "seed", "rest", "lockInit", "init", "unlockEnd", "finish"}
    /\ pc[t] \in {"setcb", "seed", "rest", "lockInit", "init"} => Blank(P(t)) /\ ok[t]
    /\ pc[t] \in {"seed", "rest", "lockInit", "init"} => seedCb[P(t)] = "wc"
    /\ pc[t] = "unlockEnd" => ok[t]
    /\ pc[t] = "finish" => ok[t] \/ Blank(P(t))

UnloadAt ==
  \A t \in Thread : job[t] # "load" =>
    /\ pc[t] \notin {"setcb", "rest", "lockInit", "init"}
    /\ job[t] = "unload" => pc[t] \in {"lockClean", "clean", "unlockEnd", "finish"}
    /\ job[t] = "unload" /\ pc[t] \in {"unlockEnd", "finish"} => Blank(P(t))
    /\ job[t] # "unload" => pc[t] \notin {"lockClean", "clean", "unlockEnd"}

FlagTrue ==
  \A p \in Process :
    /\ registered[p] <=> seedCb[p] = "wp"
    /\ opened[p] = IF file[p] THEN 1 ELSE 0
    /\ \A i \in Instance : inst[p][i] = "none" => Blank(p)

GlobalsInv == TypeOK /\ Alone /\ LoadAt /\ UnloadAt /\ FlagTrue

LEMMA InitGlobalsInv == Init => GlobalsInv
<1> SUFFICES ASSUME Init PROVE GlobalsInv
  OBVIOUS
<1>1. Alone /\ LoadAt /\ UnloadAt /\ FlagTrue
  BY UrandomAssumption
     DEF Init, Alone, LoadAt, UnloadAt, FlagTrue, Blank, P, Peers, Alive, LockUse
<1>2. QED
  BY <1>1, InitTypeOK DEF GlobalsInv

LEMMA NextAlone ==
  ASSUME OneContext, GlobalsInv, [Next]_vars
  PROVE  Alone'
<1>0. TypeOK /\ Alone /\ LoadAt /\ UnloadAt /\ FlagTrue
  BY DEF GlobalsInv
<1> USE UrandomAssumption DEF TypeOK, P, LockUse, Goto, Fail, globals, locals,
         Peers, Alive, OneContext, Blank, Alone
<1>1. ASSUME NEW t \in Thread, NEW i \in Instance, StartLoad(t, i) PROVE Alone'
  BY <1>0, <1>1 DEF StartLoad, Start
<1>2. ASSUME NEW t \in Thread, NEW i \in Instance, StartUnload(t, i) PROVE Alone'
  BY <1>0, <1>2 DEF StartUnload, Start
<1>3. ASSUME NEW t \in Thread, NEW i \in Instance, StartRead(t, i) PROVE Alone'
  BY <1>0, <1>3 DEF StartRead, Start
<1>4. ASSUME NEW t \in Thread, NEW i \in Instance, StartReseed(t, i) PROVE Alone'
  BY <1>0, <1>4 DEF StartReseed, Start
<1>5. ASSUME NEW t \in Thread, Fork(t) PROVE Alone'
  BY <1>0, <1>5 DEF Fork, Copied, Process
<1>6. ASSUME NEW t \in Thread, LockFails(t) PROVE Alone'
  BY <1>0, <1>6 DEF LockFails
<1>7. ASSUME NEW t \in Thread, SetSeedCb(t) PROVE Alone'
  BY <1>0, <1>7 DEF SetSeedCb
<1>8. ASSUME NEW t \in Thread, Seed(t) PROVE Alone'
  BY <1>0, <1>8 DEF Seed
<1>9. ASSUME NEW t \in Thread, CtxNew(t) PROVE Alone'
  BY <1>0, <1>9 DEF CtxNew
<1>10. ASSUME NEW t \in Thread, Lock(t) PROVE Alone'
  BY <1>0, <1>10 DEF Lock
<1>11. ASSUME NEW t \in Thread, OpenFails(t) PROVE Alone'
  BY <1>0, <1>11 DEF OpenFails
<1>12. ASSUME NEW t \in Thread, Open(t) PROVE Alone'
  BY <1>0, <1>12 DEF Open
<1>13. ASSUME NEW t \in Thread, Read(t) PROVE Alone'
  BY <1>0, <1>13 DEF Read, ReadOnce
<1>14. ASSUME NEW t \in Thread, ReadFails(t) PROVE Alone'
  BY <1>0, <1>14 DEF ReadFails
<1>15. ASSUME NEW t \in Thread, UrandomInit(t) PROVE Alone'
  BY <1>0, <1>15 DEF UrandomInit
<1>16. ASSUME NEW t \in Thread, UrandomCleanup(t) PROVE Alone'
  BY <1>0, <1>16 DEF UrandomCleanup, Cleanup
<1>17. ASSUME NEW t \in Thread, Unlock(t) PROVE Alone'
  BY <1>0, <1>17 DEF Unlock
<1>18. ASSUME NEW t \in Thread, Finish(t) PROVE Alone'
  BY <1>0, <1>18 DEF Finish
<1>19. CASE UNCHANGED vars
  BY <1>0, <1>19 DEF vars
<1>20. QED
  BY <1>1, <1>2, <1>3, <1>4, <1>5, <1>6, <1>7, <1>8, <1>9, <1>10, <1>11, <1>12,
     <1>13, <1>14, <1>15, <1>16, <1>17, <1>18, <1>19 DEF Next, Proceed

LEMMA NextLoadAt ==
  ASSUME OneContext, GlobalsInv, [Next]_vars
  PROVE  LoadAt'
<1>0. TypeOK /\ Alone /\ LoadAt /\ UnloadAt /\ FlagTrue
  BY DEF GlobalsInv
<1> USE UrandomAssumption DEF TypeOK, P, LockUse, Goto, Fail, globals, locals,
         Peers, Alive, OneContext, Blank, LoadAt, Alone, FlagTrue
<1>1. ASSUME NEW t \in Thread, NEW i \in Instance, StartLoad(t, i) PROVE LoadAt'
  BY <1>0, <1>1 DEF StartLoad, Start
<1>2. ASSUME NEW t \in Thread, NEW i \in Instance, StartUnload(t, i) PROVE LoadAt'
  BY <1>0, <1>2 DEF StartUnload, Start
<1>3. ASSUME NEW t \in Thread, NEW i \in Instance, StartRead(t, i) PROVE LoadAt'
  BY <1>0, <1>3 DEF StartRead, Start
<1>4. ASSUME NEW t \in Thread, NEW i \in Instance, StartReseed(t, i) PROVE LoadAt'
  BY <1>0, <1>4 DEF StartReseed, Start
<1>5. ASSUME NEW t \in Thread, Fork(t) PROVE LoadAt'
  BY <1>0, <1>5 DEF Fork, Copied, Process
<1>6. ASSUME NEW t \in Thread, LockFails(t) PROVE LoadAt'
  BY <1>0, <1>6 DEF LockFails
<1>7. ASSUME NEW t \in Thread, SetSeedCb(t) PROVE LoadAt'
  BY <1>0, <1>7 DEF SetSeedCb
<1>8. ASSUME NEW t \in Thread, Seed(t) PROVE LoadAt'
  <2>1. UNCHANGED <<globals, job>> /\ pc[t] = "seed"
    BY <1>8 DEF Seed
  <2>2. \A u \in Thread \ {t} : pc'[u] = pc[u] /\ ok'[u] = ok[u]
    BY <1>0, <1>8 DEF Seed
  <2>3. job[t] = "load" => Blank(P(t)) /\ seedCb[P(t)] = "wc" /\ ok[t]
    BY <1>0, <2>1
  <2>4. job[t] = "load" => \/ pc'[t] = "finish"
                           \/ pc'[t] = "rest" /\ ok'[t]
    <3>1. CASE Goto(t, "finish")
      BY <1>0, <3>1
    <3>2. CASE job[t] = "load" /\ ~ Goto(t, "finish")
      <4>1. ok' = ok /\ Goto(t, "rest")
        BY <1>8, <2>3, <3>2 DEF Seed
      <4>2. QED
        BY <1>0, <2>3, <3>2, <4>1
    <3>3. QED
      BY <3>1, <3>2
  <2>5. QED
    BY <1>0, <2>1, <2>2, <2>3, <2>4
<1>9. ASSUME NEW t \in Thread, CtxNew(t) PROVE LoadAt'
  BY <1>0, <1>9 DEF CtxNew
<1>10. ASSUME NEW t \in Thread, Lock(t) PROVE LoadAt'
  BY <1>0, <1>10 DEF Lock
<1>11. ASSUME NEW t \in Thread, OpenFails(t) PROVE LoadAt'
  BY <1>0, <1>11 DEF OpenFails
<1>12. ASSUME NEW t \in Thread, Open(t) PROVE LoadAt'
  BY <1>0, <1>12 DEF Open
<1>13. ASSUME NEW t \in Thread, Read(t) PROVE LoadAt'
  BY <1>0, <1>13 DEF Read, ReadOnce
<1>14. ASSUME NEW t \in Thread, ReadFails(t) PROVE LoadAt'
  BY <1>0, <1>14 DEF ReadFails
<1>15. ASSUME NEW t \in Thread, UrandomInit(t) PROVE LoadAt'
  BY <1>0, <1>15 DEF UrandomInit
<1>16. ASSUME NEW t \in Thread, UrandomCleanup(t) PROVE LoadAt'
  BY <1>0, <1>16 DEF UrandomCleanup, Cleanup
<1>17. ASSUME NEW t \in Thread, Unlock(t) PROVE LoadAt'
  BY <1>0, <1>17 DEF Unlock
<1>18. ASSUME NEW t \in Thread, Finish(t) PROVE LoadAt'
  BY <1>0, <1>18 DEF Finish
<1>19. CASE UNCHANGED vars
  BY <1>0, <1>19 DEF vars
<1>20. QED
  BY <1>1, <1>2, <1>3, <1>4, <1>5, <1>6, <1>7, <1>8, <1>9, <1>10, <1>11, <1>12,
     <1>13, <1>14, <1>15, <1>16, <1>17, <1>18, <1>19 DEF Next, Proceed

LEMMA NextUnloadAt ==
  ASSUME OneContext, GlobalsInv, [Next]_vars
  PROVE  UnloadAt'
<1>0. TypeOK /\ Alone /\ LoadAt /\ UnloadAt /\ FlagTrue
  BY DEF GlobalsInv
<1> USE UrandomAssumption DEF TypeOK, P, LockUse, Goto, Fail, globals, locals,
         Peers, Alive, OneContext, Blank, UnloadAt, Alone, FlagTrue
<1>1. ASSUME NEW t \in Thread, NEW i \in Instance, StartLoad(t, i) PROVE UnloadAt'
  BY <1>0, <1>1 DEF StartLoad, Start
<1>2. ASSUME NEW t \in Thread, NEW i \in Instance, StartUnload(t, i) PROVE UnloadAt'
  BY <1>0, <1>2 DEF StartUnload, Start
<1>3. ASSUME NEW t \in Thread, NEW i \in Instance, StartRead(t, i) PROVE UnloadAt'
  BY <1>0, <1>3 DEF StartRead, Start
<1>4. ASSUME NEW t \in Thread, NEW i \in Instance, StartReseed(t, i) PROVE UnloadAt'
  BY <1>0, <1>4 DEF StartReseed, Start
<1>5. ASSUME NEW t \in Thread, Fork(t) PROVE UnloadAt'
  BY <1>0, <1>5 DEF Fork, Copied, Process
<1>6. ASSUME NEW t \in Thread, LockFails(t) PROVE UnloadAt'
  BY <1>0, <1>6 DEF LockFails
<1>7. ASSUME NEW t \in Thread, SetSeedCb(t) PROVE UnloadAt'
  BY <1>0, <1>7 DEF SetSeedCb
<1>8. ASSUME NEW t \in Thread, Seed(t) PROVE UnloadAt'
  BY <1>0, <1>8 DEF Seed
<1>9. ASSUME NEW t \in Thread, CtxNew(t) PROVE UnloadAt'
  BY <1>0, <1>9 DEF CtxNew
<1>10. ASSUME NEW t \in Thread, Lock(t) PROVE UnloadAt'
  BY <1>0, <1>10 DEF Lock
<1>11. ASSUME NEW t \in Thread, OpenFails(t) PROVE UnloadAt'
  BY <1>0, <1>11 DEF OpenFails
<1>12. ASSUME NEW t \in Thread, Open(t) PROVE UnloadAt'
  BY <1>0, <1>12 DEF Open
<1>13. ASSUME NEW t \in Thread, Read(t) PROVE UnloadAt'
  BY <1>0, <1>13 DEF Read, ReadOnce
<1>14. ASSUME NEW t \in Thread, ReadFails(t) PROVE UnloadAt'
  BY <1>0, <1>14 DEF ReadFails
<1>15. ASSUME NEW t \in Thread, UrandomInit(t) PROVE UnloadAt'
  BY <1>0, <1>15 DEF UrandomInit
<1>16. ASSUME NEW t \in Thread, UrandomCleanup(t) PROVE UnloadAt'
  BY <1>0, <1>16 DEF UrandomCleanup, Cleanup
<1>17. ASSUME NEW t \in Thread, Unlock(t) PROVE UnloadAt'
  BY <1>0, <1>17 DEF Unlock
<1>18. ASSUME NEW t \in Thread, Finish(t) PROVE UnloadAt'
  BY <1>0, <1>18 DEF Finish
<1>19. CASE UNCHANGED vars
  BY <1>0, <1>19 DEF vars
<1>20. QED
  BY <1>1, <1>2, <1>3, <1>4, <1>5, <1>6, <1>7, <1>8, <1>9, <1>10, <1>11, <1>12,
     <1>13, <1>14, <1>15, <1>16, <1>17, <1>18, <1>19 DEF Next, Proceed

LEMMA NextFlagTrue ==
  ASSUME OneContext, GlobalsInv, [Next]_vars
  PROVE  FlagTrue'
<1>0. TypeOK /\ Alone /\ LoadAt /\ UnloadAt /\ FlagTrue
  BY DEF GlobalsInv
<1> USE UrandomAssumption DEF TypeOK, P, LockUse, Goto, Fail, globals, locals,
         Peers, Alive, OneContext, Blank, FlagTrue, Alone, LoadAt, UnloadAt
<1>1. ASSUME NEW t \in Thread, NEW i \in Instance, StartLoad(t, i) PROVE FlagTrue'
  BY <1>0, <1>1 DEF StartLoad, Start
<1>2. ASSUME NEW t \in Thread, NEW i \in Instance, StartUnload(t, i) PROVE FlagTrue'
  BY <1>0, <1>2 DEF StartUnload, Start
<1>3. ASSUME NEW t \in Thread, NEW i \in Instance, StartRead(t, i) PROVE FlagTrue'
  BY <1>0, <1>3 DEF StartRead, Start
<1>4. ASSUME NEW t \in Thread, NEW i \in Instance, StartReseed(t, i) PROVE FlagTrue'
  BY <1>0, <1>4 DEF StartReseed, Start
<1>5. ASSUME NEW t \in Thread, Fork(t) PROVE FlagTrue'
  BY <1>0, <1>5 DEF Fork, Copied, Process
<1>6. ASSUME NEW t \in Thread, LockFails(t) PROVE FlagTrue'
  BY <1>0, <1>6 DEF LockFails
<1>7. ASSUME NEW t \in Thread, SetSeedCb(t) PROVE FlagTrue'
  BY <1>0, <1>7 DEF SetSeedCb
<1>8. ASSUME NEW t \in Thread, Seed(t) PROVE FlagTrue'
  BY <1>0, <1>8 DEF Seed
<1>9. ASSUME NEW t \in Thread, CtxNew(t) PROVE FlagTrue'
  BY <1>0, <1>9 DEF CtxNew
<1>10. ASSUME NEW t \in Thread, Lock(t) PROVE FlagTrue'
  BY <1>0, <1>10 DEF Lock
<1>11. ASSUME NEW t \in Thread, OpenFails(t) PROVE FlagTrue'
  BY <1>0, <1>11 DEF OpenFails
<1>12. ASSUME NEW t \in Thread, Open(t) PROVE FlagTrue'
  <2>1. CASE file[P(t)]
    BY <1>0, <1>12, <2>1 DEF Open
  <2>2. CASE ~ file[P(t)]
    <3>1. /\ file' = [file EXCEPT ![P(t)] = TRUE]
          /\ opened' = [opened EXCEPT ![P(t)] = opened[P(t)] + 1]
          /\ UNCHANGED <<registered, seedCb, inst>>
      BY <1>12, <2>2 DEF Open
    <3>2. opened[P(t)] + 1 = 1
      BY <1>0, <2>2
    <3>3. \A i \in Instance : inst[P(t)][i] # "none"
      <4>1. job[t] \in {"read", "reseed"} => inst[P(t)][arg[t]] = "loaded"
        BY <1>0
      <4>2. pc[t] = "open"
        BY <1>12 DEF Open
      <4>3. job[t] \in {"read", "reseed"} /\ arg[t] \in Instance
        <5>1. job[t] # "none" /\ job[t] # "load" /\ job[t] # "unload"
          BY <1>0, <4>2
        <5>2. job[t] \in {"none", "load", "unload", "read", "reseed"} /\ arg[t] \in Instance
          BY <1>0
        <5>3. QED
          BY ONLY <5>1, <5>2
      <4>4. QED
        BY <4>1, <4>3
    <3>4. QED
      BY <1>0, <3>1, <3>2, <3>3
  <2>3. QED
    BY <2>1, <2>2
<1>13. ASSUME NEW t \in Thread, Read(t) PROVE FlagTrue'
  BY <1>0, <1>13 DEF Read, ReadOnce
<1>14. ASSUME NEW t \in Thread, ReadFails(t) PROVE FlagTrue'
  BY <1>0, <1>14 DEF ReadFails
<1>15. ASSUME NEW t \in Thread, UrandomInit(t) PROVE FlagTrue'
  BY <1>0, <1>15 DEF UrandomInit
<1>16. ASSUME NEW t \in Thread, UrandomCleanup(t) PROVE FlagTrue'
  BY <1>0, <1>16 DEF UrandomCleanup, Cleanup
<1>17. ASSUME NEW t \in Thread, Unlock(t) PROVE FlagTrue'
  BY <1>0, <1>17 DEF Unlock
<1>18. ASSUME NEW t \in Thread, Finish(t) PROVE FlagTrue'
  BY <1>0, <1>18 DEF Finish
<1>19. CASE UNCHANGED vars
  BY <1>0, <1>19 DEF vars
<1>20. QED
  BY <1>1, <1>2, <1>3, <1>4, <1>5, <1>6, <1>7, <1>8, <1>9, <1>10, <1>11, <1>12,
     <1>13, <1>14, <1>15, <1>16, <1>17, <1>18, <1>19 DEF Next, Proceed

(* In such a program what the process remembers is what wolfCrypt and stdio  *)
(* hold: the callback is registered exactly when the flag says so, the open  *)
(* stream is the remembered one, and an unload leaves neither behind.        *)
THEOREM SpecGlobalsAreTrue ==
  ASSUME OneContext
  PROVE  Spec => []GlobalsAreTrue
<1>1. GlobalsInv /\ [Next]_vars => GlobalsInv'
  <2>1. GlobalsInv => TypeOK /\ Backed
    BY DEF GlobalsInv, FlagTrue, Backed, TypeOK
  <2>2. QED
    BY <2>1, OneContext, NextTypeOK, NextAlone, NextLoadAt, NextUnloadAt, NextFlagTrue
       DEF GlobalsInv
<1>2. ASSUME GlobalsInv PROVE GlobalsAreTrue
  <2>1. FlagMatchesCallback
    BY <1>2 DEF GlobalsInv, FlagTrue, FlagMatchesCallback
  <2>2. ASSUME NEW p \in Process
        PROVE  /\ opened[p] = IF file[p] THEN 1 ELSE 0
               /\ (\A i \in Instance : inst[p][i] = "none") => ~file[p] /\ seedCb[p] # "wp"
    <3>1. PICK i : i \in Instance
      BY OneContext DEF OneContext
    <3>2. QED
      BY <1>2, <3>1 DEF GlobalsInv, FlagTrue, Blank
  <2>3. QED
    BY <2>1, <2>2 DEF GlobalsAreTrue, HandleAccounted
<1>3. QED
  BY InitGlobalsInv, <1>1, <1>2, PTL DEF Spec
==============================================================================
