------------------------------ MODULE WpUrandom ------------------------------
(***************************************************************************)
(* The entropy source of the provider: the cached /dev/urandom stream and  *)
(* the seed callback of src/wp_seed_src.c, driven by the provider's load   *)
(* and unload (wolfssl_provider_init, wolfssl_prov_ctx_new and             *)
(* wolfssl_prov_ctx_free of src/wp_wolfprov.c), by SEED-SRC requests and   *)
(* by wolfCrypt's own reseeding.                                           *)
(*                                                                         *)
(* The globals are those of a process; a fork copies them, the stdio       *)
(* buffer and the state of the mutex included, into the child, where only  *)
(* the forking thread goes on.  A step of a thread is one locked access,   *)
(* one call into stdio or one call into wolfCrypt.                         *)
(***************************************************************************)
EXTENDS Naturals, FiniteSets

CONSTANTS
  Thread,       \* the threads of both processes
  ProcOf,       \* ProcOf[t]: the process thread t belongs to
  NoThread,     \* the owner of a free mutex
  Instance,     \* the library contexts that may load the provider
  Want,         \* bytes of one request
  BufSize,      \* bytes stdio reads ahead into an empty buffer
  ForkMode,     \* "never", "quiet" (other threads are outside), or "any"
  LockErrors,   \* the uses of the mutex whose wc_LockMutex may fail
  MaxCalls      \* bound: the calls the program makes in all

Process == {"parent", "child"}
LockUse == {"lock", "lockInit", "lockClean"}

ASSUME UrandomAssumption ==
  /\ NoThread \notin Thread
  /\ ProcOf \in [Thread -> Process]
  /\ Want \in Nat \ {0} /\ BufSize \in Nat \ {0} /\ MaxCalls \in Nat
  /\ ForkMode \in {"never", "quiet", "any"}
  /\ LockErrors \subseteq LockUse

VARIABLES
  file,         \* file[p]: g_urandom_file # XBADFILE
  opened,       \* opened[p]: FILE objects on /dev/urandom not closed yet
  buf,          \* buf[p]: device bytes waiting in the buffer of the stream
  seedCb,       \* seedCb[p]: what wc_SetSeed_Cb was given last
  registered,   \* registered[p]: g_seed_cb_registered
  mutex,        \* mutex[p]: the owner of urandomMutex
  inst,         \* inst[p][i]: "none", "busy" (in load or unload), "loaded"
  forked,       \* the parent has forked
  drawn,        \* the device bytes handed to any process, numbered from 1
  calls,        \* the calls begun
  pc, job,      \* where each thread stands, and in which call
  arg,          \* the instance the call is for
  got,          \* the device bytes of the thread's last request
  ok            \* its call has not failed

globals == <<file, opened, buf, seedCb, registered, mutex, inst>>
locals == <<pc, job, arg, got, ok>>
vars == <<globals, forked, drawn, calls, locals>>

P(t) == ProcOf[t]
Peers(t) == {u \in Thread \ {t} : P(u) = P(t)}
Alive(t) == P(t) = "parent" \/ forked

TypeOK ==
  /\ file \in [Process -> BOOLEAN]
  /\ opened \in [Process -> Nat]
  /\ buf \in [Process -> SUBSET (1 .. drawn)]
  /\ seedCb \in [Process -> {"null", "wc", "wp"}]
  /\ registered \in [Process -> BOOLEAN]
  /\ mutex \in [Process -> Thread \cup {NoThread}]
  /\ inst \in [Process -> [Instance -> {"none", "busy", "loaded"}]]
  /\ forked \in BOOLEAN /\ drawn \in Nat /\ calls \in 0 .. MaxCalls
  /\ pc \in [Thread -> LockUse \cup {"idle", "setcb", "seed", "rest", "open",
                  "read", "unlock", "init", "clean", "unlockEnd", "finish"}]
  /\ job \in [Thread -> {"none", "load", "unload", "read", "reseed"}]
  /\ arg \in [Thread -> Instance]
  /\ got \in [Thread -> SUBSET (1 .. drawn)]
  /\ \A t \in Thread : Cardinality(got[t]) <= Want
  /\ ok \in [Thread -> BOOLEAN]

Init ==
  /\ file = [p \in Process |-> FALSE]
  /\ opened = [p \in Process |-> 0]
  /\ buf = [p \in Process |-> {}]
  /\ seedCb = [p \in Process |-> "null"]
  /\ registered = [p \in Process |-> FALSE]
  /\ mutex = [p \in Process |-> NoThread]
  /\ inst = [p \in Process |-> [i \in Instance |-> "none"]]
  /\ forked = FALSE /\ drawn = 0 /\ calls = 0
  /\ pc = [t \in Thread |-> "idle"]
  /\ job = [t \in Thread |-> "none"]
  /\ arg \in [Thread -> Instance]
  /\ got = [t \in Thread |-> {}]
  /\ ok = [t \in Thread |-> TRUE]

Goto(t, where) == pc' = [pc EXCEPT ![t] = where]
Fail(t) == ok' = [ok EXCEPT ![t] = FALSE]

------------------------------------------------------------------------------
(* The program's calls.  libcrypto loads an instance once, and unloads it   *)
(* when nobody is inside it any more.                                       *)
Start(t, j, i, first) ==
  /\ pc[t] = "idle" /\ Alive(t) /\ calls < MaxCalls
  /\ calls' = calls + 1
  /\ job' = [job EXCEPT ![t] = j]
  /\ arg' = [arg EXCEPT ![t] = i]
  /\ got' = [got EXCEPT ![t] = {}]
  /\ ok' = [ok EXCEPT ![t] = TRUE]
  /\ Goto(t, first)
  /\ UNCHANGED <<file, opened, buf, seedCb, registered, mutex, forked, drawn>>

StartLoad(t, i) ==
  /\ inst[P(t)][i] = "none"
  /\ Start(t, "load", i, "setcb")
  /\ inst' = [inst EXCEPT ![P(t)][i] = "busy"]

StartUnload(t, i) ==
  /\ inst[P(t)][i] = "loaded"
  /\ \A u \in Peers(t) : job[u] # "none" => arg[u] # i
  /\ Start(t, "unload", i, "lockClean")
  /\ inst' = [inst EXCEPT ![P(t)][i] = "busy"]

(* wp_urandom_read, from wp_seed_src_generate or wp_seed_src_get_seed. *)
StartRead(t, i) ==
  inst[P(t)][i] = "loaded" /\ Start(t, "read", i, "lock") /\ UNCHANGED inst

(* A WC_RNG of the instance needs entropy: wolfCrypt calls its seedCb. *)
StartReseed(t, i) ==
  inst[P(t)][i] = "loaded" /\ Start(t, "reseed", i, "seed") /\ UNCHANGED inst

Copied(f) == [f EXCEPT !["child"] = f["parent"]]

(* fork(): the child's memory is the parent's at that moment. *)
Fork(t) ==
  /\ ForkMode # "never" /\ ~forked
  /\ P(t) = "parent" /\ pc[t] = "idle"
  /\ ForkMode = "quiet" => \A u \in Peers(t) : pc[u] = "idle"
  /\ forked' = TRUE
  /\ file' = Copied(file) /\ opened' = Copied(opened) /\ buf' = Copied(buf)
  /\ seedCb' = Copied(seedCb) /\ registered' = Copied(registered)
  /\ mutex' = Copied(mutex) /\ inst' = Copied(inst)
  /\ UNCHANGED <<drawn, calls, locals>>

------------------------------------------------------------------------------
(* wolfssl_provider_init hands wolfCrypt its own generator, unlocked. *)
SetSeedCb(t) ==
  /\ pc[t] = "setcb"
  /\ seedCb' = [seedCb EXCEPT ![P(t)] = "wc"]
  /\ Goto(t, "seed")
  /\ UNCHANGED <<file, opened, buf, registered, mutex, inst, forked, drawn, calls,
                 job, arg, got, ok>>

(* wc_InitRng in wolfssl_prov_ctx_new, or a reseed: wolfCrypt fails without *)
(* a callback, and a failed load leaves no context behind.                  *)
Seed(t) ==
  /\ pc[t] = "seed"
  /\ \/ seedCb[P(t)] # "wp" /\ Fail(t) /\ Goto(t, "finish")
     \/ /\ seedCb[P(t)] = "wc"
        /\ Goto(t, IF job[t] = "load" THEN "rest" ELSE "finish")
        /\ UNCHANGED ok
     \/ seedCb[P(t)] = "wp" /\ Goto(t, "lock") /\ UNCHANGED ok
  /\ UNCHANGED <<globals, forked, drawn, calls, job, arg, got>>

(* wc_InitMutex and the BIO method of wolfssl_prov_ctx_new; on failure what *)
(* was made is freed again.                                                 *)
CtxNew(t) ==
  /\ pc[t] = "rest"
  /\ \/ Goto(t, "lockInit") /\ UNCHANGED ok
     \/ Fail(t) /\ Goto(t, "finish")
  /\ UNCHANGED <<globals, forked, drawn, calls, job, arg, got>>

Lock(t) ==
  /\ pc[t] \in LockUse
  /\ mutex[P(t)] = NoThread
  /\ mutex' = [mutex EXCEPT ![P(t)] = t]
  /\ Goto(t, CASE pc[t] = "lock" -> "open"
               [] pc[t] = "lockInit" -> "init"
               [] pc[t] = "lockClean" -> "clean")
  /\ UNCHANGED <<file, opened, buf, seedCb, registered, inst, forked, drawn, calls,
                 job, arg, got, ok>>

(* WP_URANDOM_LOCK() != 0: a request fails, a load does not care, and an    *)
(* unload leaves the stream and the callback as they are.                   *)
LockFails(t) ==
  /\ pc[t] \in LockErrors
  /\ IF pc[t] = "lock" THEN Fail(t) ELSE UNCHANGED ok
  /\ Goto(t, "finish")
  /\ UNCHANGED <<globals, forked, drawn, calls, job, arg, got>>

OpenFailsKeepsMutex(t) ==
  /\ pc[t] = "open"
  /\ Fail(t) /\ Goto(t, "finish")
  /\ UNCHANGED <<globals, forked, drawn, calls, job, arg, got>>

(* The lazy XFOPEN of wp_urandom_read and wp_wolfssl_seed_cb fails. *)
OpenFails(t) ==
  /\ pc[t] = "open" /\ ~file[P(t)]
  /\ Fail(t) /\ Goto(t, "unlock")
  /\ UNCHANGED <<globals, forked, drawn, calls, job, arg, got>>

Open(t) ==
  /\ pc[t] = "open"
  /\ IF file[P(t)] THEN UNCHANGED <<file, opened, buf>>
     ELSE /\ file' = [file EXCEPT ![P(t)] = TRUE]
          /\ opened' = [opened EXCEPT ![P(t)] = @ + 1]
          /\ buf' = [buf EXCEPT ![P(t)] = {}]
  /\ Goto(t, "read")
  /\ UNCHANGED <<seedCb, registered, mutex, inst, forked, drawn, calls, job, arg,
                 got, ok>>

(* The k bytes of the buffer S that come first. *)
FirstOf(S, k) == {b \in S : Cardinality({c \in S : c < b}) < k}

ReadOnce(t, needed, more) ==
  LET fresh == buf[P(t)] = {}
      supply == IF fresh THEN drawn + 1 .. drawn + BufSize ELSE buf[P(t)]
      taken == FirstOf(supply, needed)
  IN  /\ pc[t] = "read"
      /\ drawn' = IF fresh THEN drawn + BufSize ELSE drawn
      /\ buf' = [buf EXCEPT ![P(t)] = supply \ taken]
      /\ got' = [got EXCEPT ![t] = @ \cup taken]
      /\ Goto(t, IF more /\ Cardinality(taken) < needed THEN "read" ELSE "unlock")
      /\ UNCHANGED <<file, opened, seedCb, registered, mutex, inst, forked, calls,
                     job, arg, ok>>

ReadShort(t) == ReadOnce(t, Want - Cardinality(got[t]), FALSE)

(* One turn of the loop: XFREAD empties the buffer, or fills it first, and  *)
(* the loop asks again for what is missing.                                 *)
Read(t) == ReadOnce(t, Want - Cardinality(got[t]), TRUE)

(* XFREAD answers 0. *)
ReadFails(t) ==
  /\ pc[t] = "read"
  /\ Fail(t) /\ Goto(t, "unlock")
  /\ UNCHANGED <<globals, forked, drawn, calls, job, arg, got>>

(* wp_urandom_init: forget the stream, register the callback once; an error *)
(* of wc_SetSeed_Cb is not fatal.                                           *)
UrandomInit(t) ==
  /\ pc[t] = "init"
  /\ file' = [file EXCEPT ![P(t)] = FALSE]
  /\ \/ UNCHANGED <<seedCb, registered>>
     \/ /\ ~registered[P(t)]
        /\ seedCb' = [seedCb EXCEPT ![P(t)] = "wp"]
        /\ registered' = [registered EXCEPT ![P(t)] = TRUE]
  /\ Goto(t, "unlockEnd")
  /\ UNCHANGED <<opened, buf, mutex, inst, forked, drawn, calls, job, arg, got, ok>>

Cleanup(t, flag, left) ==
  /\ pc[t] = "clean"
  /\ seedCb' = [seedCb EXCEPT ![P(t)] = IF registered[P(t)] THEN "null" ELSE @]
  /\ registered' = [registered EXCEPT ![P(t)] = flag]
  /\ file' = [file EXCEPT ![P(t)] = FALSE]
  /\ opened' = [opened EXCEPT ![P(t)] = IF file[P(t)] THEN @ - 1 + left ELSE @]
  /\ buf' = [buf EXCEPT ![P(t)] = {}]
  /\ Goto(t, "unlockEnd")
  /\ UNCHANGED <<mutex, inst, forked, drawn, calls, job, arg, got, ok>>

CleanupKeepsFlag(t) == Cleanup(t, registered[P(t)], 0)

(* wp_urandom_cleanup, the first thing wolfssl_prov_ctx_free does. *)
UrandomCleanup(t) == Cleanup(t, FALSE, 0)

Unlock(t) ==
  /\ pc[t] \in {"unlock", "unlockEnd"}
  /\ mutex' = [mutex EXCEPT ![P(t)] = NoThread]
  /\ Goto(t, IF pc[t] = "unlock" /\ job[t] = "load" /\ ok[t] THEN "rest" ELSE "finish")
  /\ UNCHANGED <<file, opened, buf, seedCb, registered, inst, forked, drawn, calls,
                 job, arg, got, ok>>

(* The call returns; a load or an unload has changed the instance. *)
Finish(t) ==
  /\ pc[t] = "finish"
  /\ inst' = [inst EXCEPT ![P(t)][arg[t]] =
                CASE job[t] = "load" -> IF ok[t] THEN "loaded" ELSE "none"
                  [] job[t] = "unload" -> "none"
                  [] OTHER -> @]
  /\ job' = [job EXCEPT ![t] = "none"]
  /\ Goto(t, "idle")
  /\ UNCHANGED <<file, opened, buf, seedCb, registered, mutex, forked, drawn, calls,
                 arg, got, ok>>

Proceed(t) ==
  \/ SetSeedCb(t) \/ Seed(t) \/ CtxNew(t) \/ Lock(t)
  \/ OpenFails(t) \/ Open(t) \/ Read(t) \/ ReadFails(t)
  \/ UrandomInit(t) \/ UrandomCleanup(t) \/ Unlock(t) \/ Finish(t)

Next ==
  \E t \in Thread :
    \/ \E i \in Instance :
         StartLoad(t, i) \/ StartUnload(t, i) \/ StartRead(t, i) \/ StartReseed(t, i)
    \/ Fork(t)
    \/ LockFails(t)
    \/ Proceed(t)

Spec == Init /\ [][Next]_vars

(* The operating system runs every thread that is not waiting for a mutex;  *)
(* that a lock fails is possible and never relied on.                       *)
Fairness == \A t \in Thread : WF_vars(Proceed(t))
FairSpec == Spec /\ Fairness

------------------------------------------------------------------------------
(* g_seed_cb_registered says whether wolfCrypt holds the provider's callback *)
(* ("Flag indicating whether the seed callback has been registered"): else   *)
(* wp_urandom_init registers it twice, or never again.                       *)
FlagMatchesCallback ==
  \A p \in Process : mutex[p] = NoThread => (registered[p] <=> seedCb[p] = "wp")

(* Every FILE that was opened can still be reached and closed, and when the  *)
(* last instance of a process is gone there is none, nor a callback into     *)
(* code that libcrypto is about to unmap.                                    *)
HandleAccounted ==
  \A p \in Process :
    /\ opened[p] = IF file[p] THEN 1 ELSE 0
    /\ (\A i \in Instance : inst[p][i] = "none") => ~file[p] /\ seedCb[p] # "wp"

(* What the process remembers is what wolfCrypt and stdio hold.              *)
GlobalsAreTrue == FlagMatchesCallback /\ HandleAccounted

(* A request that succeeds has all its bytes, and no other thread of the     *)
(* process has been given one of them.                                       *)
SeedsFullAndDistinct ==
  \A t \in Thread :
    /\ job[t] = "read" /\ pc[t] = "finish" /\ ok[t] => Cardinality(got[t]) = Want
    /\ \A u \in Peers(t) : got[t] \cap got[u] = {}

(* A call into the entropy source returns, whatever fails on the way.        *)
Answered == \A t \in Thread : job[t] # "none" ~> job[t] = "none"
==============================================================================
