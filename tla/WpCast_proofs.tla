---------------------------- MODULE WpCast_proofs ----------------------------
(***************************************************************************)
(* What holds of wp_init_cast for any set of threads, any categories and   *)
(* any number of CASTs in each.                                            *)
(***************************************************************************)
EXTENDS WpCast, TLAPS

(* Only a category in range gets past the entry of wp_init_cast, and ok is *)
(* 1 until a lock or a CAST fails.                                          *)
InRange ==
  \A t \in CastThread :
    /\ castPc[t] \in {"check", "lock"} \/ Inside(t) => algo[t] \in Algo
    /\ castPc[t] \in {"check", "lock", "recheck", "cast", "set"} => castOk[t]

(* Between wp_lock and wp_unlock a thread owns the mutex of its category. *)
InsideOwns == \A t \in CastThread : Inside(t) => castOwner[algo[t]] = t

(* The CASTs before the thread's next one have passed, and the flag is 0. *)
Progress ==
  \A t \in CastThread :
    /\ castPc[t] \in {"check", "lock", "recheck"} => step[t] = 1
    /\ castPc[t] = "cast" => /\ init[algo[t]] = 0
                             /\ 1 .. (step[t] - 1) \subseteq casts[algo[t]]
    /\ castPc[t] = "set" => /\ init[algo[t]] = 0
                            /\ casts[algo[t]] = Tests(algo[t])
                            /\ Tests(algo[t]) # {}

FlagMeansPassed ==
  \A a \in Algo : init[a] = 1 => casts[a] = Tests(a) /\ Tests(a) # {}

OkMeansFlag ==
  \A t \in CastThread : castPc[t] \in {"unlock", "done"} /\ castOk[t] =>
    algo[t] \in Algo /\ init[algo[t]] = 1

IInv ==
  /\ CastTypeOK
  /\ InRange
  /\ InsideOwns
  /\ Progress
  /\ FlagMeansPassed
  /\ OkMeansFlag

------------------------------------------------------------------------------
(* The invariant holds when the library has been loaded. *)
LEMMA InitIInv == CastInit => IInv
BY CastAssumption
   DEF CastInit, IInv, CastTypeOK, InRange, InsideOwns, Progress, FlagMeansPassed,
       OkMeansFlag, Inside, Tests

(* One step per action; the mutex makes the thread that tests the only one. *)
LEMMA NextIInv == IInv /\ [CastNext]_castVars => IInv'
<1> SUFFICES ASSUME IInv, [CastNext]_castVars PROVE IInv'
  OBVIOUS
<1> USE CastAssumption
        DEF IInv, CastTypeOK, InRange, InsideOwns, Progress, FlagMeansPassed,
            OkMeansFlag, Inside, Tests
<1>1. ASSUME NEW t \in CastThread, NEW a \in Algo \cup BadAlgo, Call(t, a) PROVE IInv'
  <2>1. CastTypeOK'
    BY <1>1 DEF Call
  <2>2. InRange'
    BY <1>1 DEF Call
  <2>3. InsideOwns'
    BY <1>1 DEF Call
  <2>4. Progress'
    BY <1>1 DEF Call
  <2>5. FlagMeansPassed'
    BY <1>1 DEF Call
  <2>6. OkMeansFlag'
    BY <1>1 DEF Call
  <2>7. QED
    BY <2>1, <2>2, <2>3, <2>4, <2>5, <2>6
<1>2. ASSUME NEW t \in CastThread, CheckInit(t) PROVE IInv'
  <2>1. CastTypeOK'
    <3> DEFINE Places == {"idle", "check", "lock", "recheck", "cast", "set", "unlock", "done"}
    <3>1. castPc \in [CastThread -> Places]
      OBVIOUS
    <3>2. \/ castPc' = [castPc EXCEPT ![t] = "lock"]
          \/ castPc' = [castPc EXCEPT ![t] = "done"]
      BY <1>2 DEF CheckInit
    <3>3. castPc' \in [CastThread -> Places]
      <4> HIDE DEF IInv
      <4>1. QED
        BY <3>1, <3>2
    <3>4. UNCHANGED <<init, castOwner, casts, algo, step, castOk>>
      BY <1>2 DEF CheckInit
    <3>5. QED
      BY <3>3, <3>4
  <2>2. InRange'
    BY <1>2 DEF CheckInit
  <2>3. InsideOwns'
    BY <1>2 DEF CheckInit
  <2>4. Progress'
    <3>1. \A u \in CastThread :
            /\ castPc'[u] \in {"cast", "set"} => castPc[u] = castPc'[u]
            /\ castPc'[u] \in {"check", "lock", "recheck"} =>
                 castPc[u] \in {"check", "lock", "recheck"}
      BY <1>2 DEF CheckInit
    <3>2. QED
      BY <1>2, <3>1 DEF CheckInit
  <2>5. FlagMeansPassed'
    BY <1>2 DEF CheckInit
  <2>6. OkMeansFlag'
    BY <1>2 DEF CheckInit
  <2>7. QED
    BY <2>1, <2>2, <2>3, <2>4, <2>5, <2>6
<1>3. ASSUME NEW t \in CastThread, CastLock(t) PROVE IInv'
  BY <1>3 DEF CastLock
<1>4. ASSUME NEW t \in CastThread, CastLockFails(t) PROVE IInv'
  BY <1>4 DEF CastLockFails
<1>5. ASSUME NEW t \in CastThread, Recheck(t) PROVE IInv'
  <2>1. CastTypeOK'
    BY <1>5 DEF Recheck
  <2>2. InRange' /\ InsideOwns'
    BY <1>5 DEF Recheck
  <2>3. Progress'
    BY <1>5 DEF Recheck
  <2>4. FlagMeansPassed'
    BY <1>5 DEF Recheck
  <2>5. OkMeansFlag'
    BY <1>5 DEF Recheck
  <2>6. QED
    BY <2>1, <2>2, <2>3, <2>4, <2>5
<1>6. ASSUME NEW t \in CastThread, CastPasses(t) PROVE IInv'
  <2>1. CastTypeOK'
    BY <1>6 DEF CastPasses
  <2>2. InRange'
    BY <1>6 DEF CastPasses
  <2>3. InsideOwns'
    BY <1>6 DEF CastPasses
  <2>4. Progress'
    <3>1. \A u \in CastThread \ {t} :
            /\ castPc'[u] = castPc[u] /\ step'[u] = step[u]
            /\ castPc[u] \in {"cast", "set"} => algo[u] # algo[t]
            /\ casts[algo[u]] \subseteq casts'[algo[u]]
      BY <1>6 DEF CastPasses
    <3>2. \A u \in CastThread \ {t} : castPc'[u] = "cast" =>
            /\ init'[algo'[u]] = 0
            /\ 1 .. (step'[u] - 1) \subseteq casts'[algo'[u]]
      BY <1>6, <3>1 DEF CastPasses
    <3>3. \A u \in CastThread \ {t} : castPc'[u] = "set" =>
            /\ init'[algo'[u]] = 0
            /\ casts'[algo'[u]] = Tests(algo'[u])
            /\ Tests(algo'[u]) # {}
      BY <1>6, <3>1 DEF CastPasses
    <3>4. /\ init'[algo'[t]] = 0
          /\ 1 .. (step'[t] - 1) \subseteq casts'[algo'[t]]
          /\ casts'[algo'[t]] \subseteq Tests(algo'[t])
      BY <1>6 DEF CastPasses
    <3>5. ASSUME castPc'[t] = "set"
          PROVE  casts'[algo'[t]] = Tests(algo'[t]) /\ Tests(algo'[t]) # {}
      <4>1. step[t] = NumTests[algo[t]] /\ algo' = algo /\ step'[t] = step[t] + 1
        BY <1>6, <3>5 DEF CastPasses
      <4>2. step'[t] - 1 = NumTests[algo[t]] /\ NumTests[algo[t]] \in Nat \ {0}
        BY <1>6, <4>1 DEF CastPasses
      <4>3. casts'[algo'[t]] = 1 .. NumTests[algo[t]]
        BY <3>4, <4>1, <4>2
      <4>4. Tests(algo'[t]) = 1 .. NumTests[algo[t]] /\ 1 \in 1 .. NumTests[algo[t]]
        BY <4>1, <4>2
      <4> HIDE DEF Tests
      <4>5. QED
        BY <4>3, <4>4
    <3>6. \A u \in CastThread : castPc'[u] \in {"check", "lock", "recheck"} => step'[u] = 1
      BY <1>6, <3>1 DEF CastPasses
    <3>7. QED
      BY <3>2, <3>3, <3>4, <3>5, <3>6
  <2>5. FlagMeansPassed'
    BY <1>6 DEF CastPasses
  <2>6. OkMeansFlag'
    BY <1>6 DEF CastPasses
  <2>7. QED
    BY <2>1, <2>2, <2>3, <2>4, <2>5, <2>6
<1>7. ASSUME NEW t \in CastThread, CastFails(t) PROVE IInv'
  <2>1. CastTypeOK'
    BY <1>7 DEF CastFails
  <2>2. InRange'
    BY <1>7 DEF CastFails
  <2>3. InsideOwns'
    BY <1>7 DEF CastFails
  <2>4. Progress'
    BY <1>7 DEF CastFails
  <2>5. FlagMeansPassed'
    BY <1>7 DEF CastFails
  <2>6. OkMeansFlag'
    BY <1>7 DEF CastFails
  <2>7. QED
    BY <2>1, <2>2, <2>3, <2>4, <2>5, <2>6
<1>8. ASSUME NEW t \in CastThread, SetInit(t) PROVE IInv'
  BY <1>8 DEF SetInit
<1>9. ASSUME NEW t \in CastThread, CastUnlock(t) PROVE IInv'
  BY <1>9 DEF CastUnlock
<1>10. ASSUME NEW t \in CastThread, CastReturn(t) PROVE IInv'
  BY <1>10 DEF CastReturn
<1>11. CASE UNCHANGED castVars
  BY <1>11 DEF castVars
<1>12. QED
  BY <1>1, <1>2, <1>3, <1>4, <1>5, <1>6, <1>7, <1>8, <1>9, <1>10, <1>11
     DEF CastNext, CastProceed

(* The induction over the behaviour of all threads. *)
LEMMA SpecIInv == CastSpec => []IInv
BY InitIInv, NextIInv, PTL DEF CastSpec

------------------------------------------------------------------------------
(* Every variable of wp_init_cast keeps its type, in particular no more CASTs *)
(* are recorded for a category than its switch arm runs.                      *)
THEOREM SpecTypeOK == CastSpec => []CastTypeOK
BY SpecIInv, PTL DEF IInv

(* Mutual exclusion and the second read: the self-tests of a category run in  *)
(* one thread at a time, and only while its flag is 0.                        *)
THEOREM SpecTestedByOne == CastSpec => []TestedByOne
<1>1. IInv => TestedByOne
  BY CastAssumption DEF IInv, CastTypeOK, InRange, InsideOwns, Progress, TestedByOne,
                        Testing, Inside
<1>2. QED
  BY <1>1, SpecIInv, PTL

(* The check in the entry points is enough: an answer of 1 means that every   *)
(* CAST of the category has passed, although the flag may be read unlocked.   *)
THEOREM SpecOkMeansPassed == CastSpec => []OkMeansPassed
<1>1. IInv => OkMeansPassed
  BY DEF IInv, CastTypeOK, FlagMeansPassed, OkMeansFlag, OkMeansPassed
<1>2. QED
  BY <1>1, SpecIInv, PTL

------------------------------------------------------------------------------
(* A library just loaded is a service that has passed nothing.                *)
LEMMA InitService == CastInit => Service!Init
<1> SUFFICES ASSUME CastInit PROVE Service!Init
  OBVIOUS
<1>1. [a \in Algo |-> init[a] = 1] = [a \in Algo |-> FALSE]
  <2>1. \A a \in Algo : init[a] # 1
    BY DEF CastInit
  <2>2. QED
    BY <2>1, Zenon
<1>2. \A t \in CastThread : RequestOf(t) = [state |-> "none", algo |-> algo[t]]
  BY DEF CastInit, RequestOf
<1>3. [t \in CastThread |-> RequestOf(t)] \in [CastThread -> [state : {"none"}, algo : Algo]]
  BY <1>2 DEF CastInit
<1>4. QED
  BY <1>1, <1>3 DEF Service!Init

(* One case per action of wp_init_cast, named by what the service does. *)
LEMMA NextService == IInv /\ IInv' /\ [CastNext]_castVars => [Service!Next]_(Service!svars)
<1> SUFFICES ASSUME IInv, IInv', [CastNext]_castVars PROVE [Service!Next]_(Service!svars)
  OBVIOUS
<1> DEFINE passed == [a \in Algo |-> init[a] = 1]
           request == [t \in CastThread |-> RequestOf(t)]
<1> USE CastAssumption DEF IInv, CastTypeOK, RequestOf
<1>0. /\ UNCHANGED <<passed, request>> => UNCHANGED Service!svars
      /\ UNCHANGED init => UNCHANGED passed
  BY DEF Service!svars
<1>1. ASSUME NEW t \in CastThread, NEW a \in Algo \cup BadAlgo, Call(t, a)
      PROVE  Service!Next
  <2>1. CASE a \in Algo
    <3>1. Service!Ask(t, a)
      BY <1>1, <2>1 DEF Call, Service!Ask
    <3>2. QED
      BY <2>1, <3>1 DEF Service!Next
  <2>2. CASE a \in BadAlgo
    <3>1. Service!Refuse(t, a)
      BY <1>1, <2>2 DEF Call, Service!Refuse
    <3>2. QED
      BY <2>2, <3>1 DEF Service!Next
  <2>3. QED
    BY <2>1, <2>2
<1>2. ASSUME NEW t \in CastThread, CheckInit(t) PROVE Service!Grant(t) \/ UNCHANGED Service!svars
  <2>1. CASE castPc' = [castPc EXCEPT ![t] = "lock"]
    BY <1>2, <2>1 DEF CheckInit, Service!svars
  <2>2. CASE castPc' = [castPc EXCEPT ![t] = "done"] /\ init[algo[t]] = 1
    <3>1. algo[t] \in Algo /\ castOk[t] /\ UNCHANGED <<init, algo, castOk>>
      BY <1>2 DEF CheckInit, InRange
    <3>2. request' = [request EXCEPT ![t].state = "ok"]
      BY <1>2, <2>2, <3>1 DEF CheckInit
    <3>3. request[t] = [state |-> "asked", algo |-> algo[t]]
      BY <1>2 DEF CheckInit
    <3>4. passed[algo[t]]
      BY <2>2, <3>1, Zenon
    <3>5. QED
      BY <3>1, <3>2, <3>3, <3>4 DEF Service!Grant, Service!Asked
  <2>3. QED
    BY <1>2, <2>1, <2>2 DEF CheckInit
<1>3. ASSUME NEW t \in CastThread, CastLock(t) PROVE UNCHANGED Service!svars
  BY <1>3 DEF CastLock, Service!svars
<1>4. ASSUME NEW t \in CastThread, CastLockFails(t) PROVE Service!Fail(t)
  BY <1>4 DEF CastLockFails, Service!Fail, Service!Asked
<1>5. ASSUME NEW t \in CastThread, Recheck(t) PROVE UNCHANGED Service!svars
  BY <1>5 DEF Recheck, Service!svars
<1>6. ASSUME NEW t \in CastThread, CastPasses(t) PROVE UNCHANGED Service!svars
  BY <1>6 DEF CastPasses, Service!svars
<1>7. ASSUME NEW t \in CastThread, CastFails(t) PROVE UNCHANGED Service!svars
  BY <1>7 DEF CastFails, Service!svars
<1>8. ASSUME NEW t \in CastThread, SetInit(t) PROVE Service!Pass(t)
  <2>1. algo[t] \in Algo /\ init[algo[t]] = 0
    BY <1>8 DEF SetInit, Inside, InRange, Progress
  <2>2. passed' = [passed EXCEPT ![algo[t]] = TRUE]
    BY <1>8, <2>1 DEF SetInit
  <2>3. UNCHANGED request
    BY <1>8 DEF SetInit
  <2>4. request[t] = [state |-> "asked", algo |-> algo[t]]
    BY <1>8 DEF SetInit
  <2>5. init[algo[t]] # 1
    BY <2>1
  <2>6. ~ passed[request[t].algo]
    BY <2>1, <2>4, <2>5, Zenon
  <2>7. QED
    BY <2>2, <2>3, <2>4, <2>6 DEF Service!Pass, Service!Asked
<1>9. ASSUME NEW t \in CastThread, CastUnlock(t) PROVE Service!Grant(t) \/ Service!Fail(t)
  BY <1>9 DEF CastUnlock, OkMeansFlag, Service!Grant, Service!Fail, Service!Asked
<1>10. ASSUME NEW t \in CastThread, CastReturn(t) PROVE Service!Leave(t)
  BY <1>10 DEF CastReturn, Service!Leave
<1>11. CASE UNCHANGED castVars
  BY <1>11 DEF castVars, Service!svars
<1>12. QED
  BY <1>1, <1>2, <1>3, <1>4, <1>5, <1>6, <1>7, <1>8, <1>9, <1>10, <1>11
     DEF CastNext, CastProceed, Service!Next

(* Callers cannot tell wp_init_cast, its lock and its two reads of the flag,  *)
(* from a service that passes a category once, in one step.                   *)
THEOREM SpecImplementsService == CastSpec => ImplementsService
BY InitService, NextService, SpecIInv, PTL DEF CastSpec, ImplementsService, Service!Spec
==============================================================================
