------------------------------- MODULE WpCast -------------------------------
(***************************************************************************)
(* wp_init_cast of src/wp_internal.c: the FIPS conditional algorithm       *)
(* self-tests (CASTs), run the first time any thread enters an operation   *)
(* of a category, behind a flag that is read once without the mutex of the *)
(* category and once with it.                                              *)
(*                                                                         *)
(* A step of a thread is one access to what threads share: the flag        *)
(* castAlgos[a].init, the mutex castAlgos[a].mutex, or one call of         *)
(* wc_RunCast_fips (wolfCrypt, outside this repository).                   *)
(***************************************************************************)
EXTENDS Naturals

CONSTANTS
  CastThread,   \* the threads that enter provider functions
  Algo,         \* the WP_CAST_ALGO_* categories
  BadAlgo,      \* values refused by the range check
  NumTests,     \* NumTests[a]: the CASTs the switch runs for a; 0: not compiled in
  NoOwner       \* the owner of a free mutex

ASSUME CastAssumption ==
  /\ NoOwner \notin CastThread
  /\ Algo # {}
  /\ Algo \cap BadAlgo = {}
  /\ NumTests \in [Algo -> Nat]

VARIABLES
  init,         \* init[a]: castAlgos[a].init, 0 or 1
  castOwner,    \* castOwner[a]: who holds castAlgos[a].mutex
  casts,        \* casts[a]: the CASTs of a that wolfCrypt has run and passed
  castPc,       \* where each thread stands in wp_init_cast
  algo,         \* the argument of the thread's current call
  step,         \* the next CAST the thread runs
  castOk        \* the thread's local ok, its return value at "done"

castVars == <<init, castOwner, casts, castPc, algo, step, castOk>>

Tests(a) == 1 .. NumTests[a]

(* Between wp_lock and wp_unlock. *)
Inside(t) == castPc[t] \in {"recheck", "cast", "set", "unlock"}
(* Running the self-tests, or about to record that they passed. *)
Testing(t) == castPc[t] \in {"cast", "set"}

CastTypeOK ==
  /\ init \in [Algo -> {0, 1}]
  /\ castOwner \in [Algo -> CastThread \cup {NoOwner}]
  /\ casts \in [Algo -> SUBSET (Nat \ {0})]
  /\ \A a \in Algo : casts[a] \subseteq Tests(a)
  /\ castPc \in [CastThread -> {"idle", "check", "lock", "recheck", "cast", "set",
                                "unlock", "done"}]
  /\ algo \in [CastThread -> Algo \cup BadAlgo]
  /\ step \in [CastThread -> Nat \ {0}]
  /\ castOk \in [CastThread -> BOOLEAN]

(* wolfprov_init_cast_mutex runs as the library is loaded, before any call. *)
CastInit ==
  /\ init = [a \in Algo |-> 0]
  /\ castOwner = [a \in Algo |-> NoOwner]
  /\ casts = [a \in Algo |-> {}]
  /\ castPc = [t \in CastThread |-> "idle"]
  /\ algo \in [CastThread -> Algo]
  /\ step = [t \in CastThread |-> 1]
  /\ castOk = [t \in CastThread |-> TRUE]

------------------------------------------------------------------------------
(* Entry: the range check answers 0 at once for a bad category. *)
Call(t, a) ==
  /\ castPc[t] = "idle"
  /\ algo' = [algo EXCEPT ![t] = a]
  /\ step' = [step EXCEPT ![t] = 1]
  /\ castOk' = [castOk EXCEPT ![t] = a \in Algo]
  /\ castPc' = [castPc EXCEPT ![t] = IF a \in Algo THEN "check" ELSE "done"]
  /\ UNCHANGED <<init, castOwner, casts>>

CheckUnread(t) ==
  /\ castPc[t] = "check"
  /\ castPc' = [castPc EXCEPT ![t] = "done"]
  /\ UNCHANGED <<init, castOwner, casts, algo, step, castOk>>

(* The first read of the flag, without the mutex: a data race with SetInit, *)
(* so that a 0 may be read where a 1 was written already.                   *)
CheckInit(t) ==
  /\ castPc[t] = "check"
  /\ \/ castPc' = [castPc EXCEPT ![t] = "lock"]
     \/ init[algo[t]] = 1 /\ castPc' = [castPc EXCEPT ![t] = "done"]
  /\ UNCHANGED <<init, castOwner, casts, algo, step, castOk>>

CastLock(t) ==
  /\ castPc[t] = "lock"
  /\ castOwner[algo[t]] = NoOwner
  /\ castOwner' = [castOwner EXCEPT ![algo[t]] = t]
  /\ castPc' = [castPc EXCEPT ![t] = "recheck"]
  /\ UNCHANGED <<init, casts, algo, step, castOk>>

(* wp_lock answers 0: return 0 without the mutex. *)
CastLockFails(t) ==
  /\ castPc[t] = "lock"
  /\ castOk' = [castOk EXCEPT ![t] = FALSE]
  /\ castPc' = [castPc EXCEPT ![t] = "done"]
  /\ UNCHANGED <<init, castOwner, casts, algo, step>>

RecheckSkipped(t) ==
  /\ castPc[t] = "recheck"
  /\ castPc' = [castPc EXCEPT ![t] = "cast"]
  /\ UNCHANGED <<init, castOwner, casts, algo, step, castOk>>

(* The second read, with the mutex: another thread may have finished. *)
Recheck(t) ==
  /\ castPc[t] = "recheck"
  /\ castPc' = [castPc EXCEPT ![t] = IF init[algo[t]] = 0 THEN "cast" ELSE "unlock"]
  /\ UNCHANGED <<init, castOwner, casts, algo, step, castOk>>

CastPassesLate(t) ==
  /\ castPc[t] = "cast"
  /\ algo[t] \in Algo /\ NumTests[algo[t]] > 0
  /\ casts' = [casts EXCEPT ![algo[t]] = @ \cup {step[t]}]
  /\ step' = [step EXCEPT ![t] = @ + 1]
  /\ castPc' = [castPc EXCEPT ![t] = IF step[t] > NumTests[algo[t]] THEN "set" ELSE "cast"]
  /\ UNCHANGED <<init, castOwner, algo, castOk>>

(* One wc_RunCast_fips of the chain passes; after the last, record it. *)
CastPasses(t) ==
  /\ castPc[t] = "cast"
  /\ step[t] \in Tests(algo[t])
  /\ casts' = [casts EXCEPT ![algo[t]] = @ \cup {step[t]}]
  /\ step' = [step EXCEPT ![t] = @ + 1]
  /\ castPc' = [castPc EXCEPT ![t] = IF step[t] = NumTests[algo[t]] THEN "set" ELSE "cast"]
  /\ UNCHANGED <<init, castOwner, algo, castOk>>

CastFailsStillSets(t) ==
  /\ castPc[t] = "cast"
  /\ castPc' = [castPc EXCEPT ![t] = "set"]
  /\ UNCHANGED <<init, castOwner, casts, algo, step, castOk>>

CastFailsKeepsMutex(t) ==
  /\ castPc[t] = "cast"
  /\ castOk' = [castOk EXCEPT ![t] = FALSE]
  /\ castPc' = [castPc EXCEPT ![t] = "done"]
  /\ UNCHANGED <<init, castOwner, casts, algo, step>>

(* One fails, or the switch has no case for the category: the chain stops,  *)
(* the flag stays 0 and a later call tries again.                           *)
CastFails(t) ==
  /\ castPc[t] = "cast"
  /\ castOk' = [castOk EXCEPT ![t] = FALSE]
  /\ castPc' = [castPc EXCEPT ![t] = "unlock"]
  /\ UNCHANGED <<init, castOwner, casts, algo, step>>

SetInit(t) ==
  /\ castPc[t] = "set"
  /\ init' = [init EXCEPT ![algo[t]] = 1]
  /\ castPc' = [castPc EXCEPT ![t] = "unlock"]
  /\ UNCHANGED <<castOwner, casts, algo, step, castOk>>

(* An error of wp_unlock fails the call; its mutex is taken to be free.     *)
CastUnlock(t) ==
  /\ castPc[t] = "unlock"
  /\ castOwner' = [castOwner EXCEPT ![algo[t]] = NoOwner]
  /\ \E unlocked \in BOOLEAN : castOk' = [castOk EXCEPT ![t] = @ /\ unlocked]
  /\ castPc' = [castPc EXCEPT ![t] = "done"]
  /\ UNCHANGED <<init, casts, algo, step>>

CastReturn(t) ==
  /\ castPc[t] = "done"
  /\ castPc' = [castPc EXCEPT ![t] = "idle"]
  /\ UNCHANGED <<init, castOwner, casts, algo, step, castOk>>

(* A call once begun runs on; whether another begins is the program's own. *)
CastProceed(t) ==
  \/ CheckInit(t) \/ CastLock(t) \/ Recheck(t)
  \/ CastPasses(t) \/ CastFails(t) \/ SetInit(t) \/ CastUnlock(t) \/ CastReturn(t)

CastNext ==
  \E t \in CastThread :
    (\E a \in Algo \cup BadAlgo : Call(t, a)) \/ CastLockFails(t) \/ CastProceed(t)

CastSpec == CastInit /\ [][CastNext]_castVars

(* The operating system runs every thread that is not waiting for a mutex;  *)
(* that a lock fails is possible and never relied on.                       *)
CastFairness == \A t \in CastThread : WF_castVars(CastProceed(t))
CastFairSpec == CastSpec /\ CastFairness

------------------------------------------------------------------------------
(* The self-tests of a category never run in two threads at once, and never *)
(* again once they have passed: the mutex and the second read of the flag   *)
(* do what the comment in wp_init_cast says of them.                        *)
TestedByOne ==
  \A t \in CastThread : Testing(t) =>
    /\ init[algo[t]] = 0
    /\ \A u \in CastThread : Testing(u) /\ algo[u] = algo[t] => u = t

(* No entry point goes on (wp_init_cast answered 1) before every CAST of    *)
(* its category has been run and passed, by whichever thread that was; and  *)
(* none ever goes on in a category this build has no CAST for.              *)
OkMeansPassed ==
  \A t \in CastThread : castPc[t] = "done" /\ castOk[t] =>
    /\ casts[algo[t]] = Tests(algo[t])
    /\ Tests(algo[t]) # {}

(* Who takes a category's mutex gives it back, on every path out, failed    *)
(* self-tests included: nobody else would ever pass wp_lock.                *)
MutexReleased ==
  \A t \in CastThread, a \in Algo : castOwner[a] = t ~> castOwner[a] # t

(* The refinement mapping: a call is "asked" until its result is fixed, and *)
(* a category is passed once its flag is set.                               *)
RequestOf(t) ==
  [state |-> CASE castPc[t] = "idle" -> "none"
               [] castPc[t] = "done" -> IF castOk[t] THEN "ok" ELSE "failed"
               [] OTHER -> "asked",
   algo  |-> algo[t]]

Service == INSTANCE CastService WITH
  Thread <- CastThread,
  passed <- [a \in Algo |-> init[a] = 1],
  request <- [t \in CastThread |-> RequestOf(t)]

(* Callers of wp_init_cast cannot tell it from the one-step service.        *)
ImplementsService == Service!Spec
==============================================================================
