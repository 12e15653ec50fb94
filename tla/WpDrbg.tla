------------------------------- MODULE WpDrbg -------------------------------
(***************************************************************************)
(* The DRBG contexts of src/wp_drbg.c and the SEED-SRC contexts of         *)
(* src/wp_seed_src.c, as libcrypto's EVP_RAND layer drives them: a tree in *)
(* which a context takes the entropy it is instantiated with from its      *)
(* parent, or from the system when it has none.                            *)
(*                                                                         *)
(* A wolfCrypt generator is split into the read of its state and the write *)
(* of the next one, so that two threads inside one generator at once get   *)
(* the same output.                                                        *)
(***************************************************************************)
EXTENDS Naturals

CONSTANTS
  DrbgThread,    \* the threads of the application
  Drbg,          \* the DRBG contexts
  SeedSrc,       \* the SEED-SRC contexts
  ParentOf,      \* ParentOf[n]: the context n is created with, or NoParent
  NoParent,
  Users,         \* Users[n]: the threads that call n
  Shared,        \* contexts made with EVP_RAND_enable_locking
  NoUser,
  MaxDrbgCalls   \* bound: the calls the program makes in all

Node == Drbg \cup SeedSrc

ASSUME DrbgAssumption ==
  /\ Node # {} /\ Drbg \cap SeedSrc = {}
  /\ NoParent \notin Node /\ NoUser \notin DrbgThread
  /\ ParentOf \in [Node -> Node \cup {NoParent}]
  /\ \A n \in SeedSrc : ParentOf[n] = NoParent
  /\ Users \in [Node -> SUBSET DrbgThread]
  /\ Shared \subseteq Drbg
  /\ MaxDrbgCalls \in Nat

VARIABLES
  made,          \* the contexts that exist
  ready,         \* a DRBG with ctx->rng # NULL, a SEED-SRC in state READY
  ctxMutex,      \* ctxMutex[n]: ctx->mutex is "none", "ready", or "freed"
  owner,         \* owner[n]: the thread that holds it
  epoch,         \* epoch[n]: the generators n has had
  gen,           \* gen[n]: the outputs its generator has produced
  seedOf,        \* seedOf[n]: the entropy its generator was made from
  sysDrawn,      \* seeds taken from the system, numbered from 1
  drbgCalls,     \* the calls begun
  drbgPc, call,  \* where each thread stands, in which call
  node,          \* on which context
  seen,          \* the generator state a thread has read
  seed,          \* the seed buffer it holds
  out,           \* the output its last generate returned
  drbgOk

ctxVars == <<made, ready, ctxMutex, owner, epoch, gen, seedOf>>
drbgVars == <<ctxVars, sysDrawn, drbgCalls, drbgPc, call, node, seen, seed, out, drbgOk>>

NoData == <<>>
SysSeed(k) == <<NoParent, 0, k>>
Output(n, k) == <<n, epoch[n], k>>
Parent(t) == ParentOf[node[t]]
Children(n) == {m \in Node : ParentOf[m] = n}

Data == {NoData} \cup ((Node \cup {NoParent}) \X Nat \X Nat)

DrbgTypeOK ==
  /\ made \subseteq Node /\ ready \subseteq made
  /\ ctxMutex \in [Node -> {"none", "ready", "freed"}]
  /\ owner \in [Node -> DrbgThread \cup {NoUser}]
  /\ epoch \in [Node -> Nat] /\ gen \in [Node -> Nat]
  /\ seedOf \in [Node -> Data]
  /\ \A n \in Node : seedOf[n] # NoData <=> n \in ready \cap Drbg
  /\ sysDrawn \in Nat /\ drbgCalls \in 0 .. MaxDrbgCalls
  /\ drbgPc \in [DrbgThread -> {"idle", "enable", "lock", "seed", "mid", "nonce",
                             "clear", "gen", "uninit", "free", "unlock"}]
  /\ call \in [DrbgThread -> {"none", "new", "instantiate", "generate",
                              "uninstantiate", "free"}]
  /\ node \in [DrbgThread -> Node]
  /\ seen \in [DrbgThread -> Nat]
  /\ seed \in [DrbgThread -> Data] /\ out \in [DrbgThread -> Data]
  /\ drbgOk \in [DrbgThread -> BOOLEAN]

DrbgInit ==
  /\ made = {} /\ ready = {}
  /\ ctxMutex = [n \in Node |-> "none"]
  /\ owner = [n \in Node |-> NoUser]
  /\ epoch = [n \in Node |-> 0] /\ gen = [n \in Node |-> 0]
  /\ seedOf = [n \in Node |-> NoData]
  /\ sysDrawn = 0 /\ drbgCalls = 0
  /\ drbgPc = [t \in DrbgThread |-> "idle"] /\ call = [t \in DrbgThread |-> "none"]
  /\ node \in [DrbgThread -> {CHOOSE n \in Node : TRUE}]
  /\ seen = [t \in DrbgThread |-> 0]
  /\ seed = [t \in DrbgThread |-> NoData] /\ out = [t \in DrbgThread |-> NoData]
  /\ drbgOk = [t \in DrbgThread |-> TRUE]

DrbgGoto(t, where) == drbgPc' = [drbgPc EXCEPT ![t] = where]
FailTo(t, where) == DrbgGoto(t, where) /\ drbgOk' = [drbgOk EXCEPT ![t] = FALSE]
Busy(n) == \E t \in DrbgThread : call[t] # "none" /\ node[t] = n

------------------------------------------------------------------------------
(* The calls of libcrypto: it takes the lock of the context around each,    *)
(* keeps a parent alive as long as its children, instantiates a context     *)
(* that has no generator, and frees one that nobody uses.                   *)
Begin(t, c, n, first) ==
  /\ drbgPc[t] = "idle" /\ t \in Users[n] /\ drbgCalls < MaxDrbgCalls
  /\ drbgCalls' = drbgCalls + 1
  /\ call' = [call EXCEPT ![t] = c]
  /\ node' = [node EXCEPT ![t] = n]
  /\ out' = [out EXCEPT ![t] = NoData]
  /\ drbgOk' = [drbgOk EXCEPT ![t] = TRUE]
  /\ DrbgGoto(t, first)

(* wp_drbg_new and wp_seed_src_new. *)
New(t, n) ==
  /\ n \notin made /\ (ParentOf[n] # NoParent => ParentOf[n] \in made)
  /\ Begin(t, "new", n, IF n \in Shared THEN "enable" ELSE "unlock")
  /\ made' = made \cup {n}
  /\ UNCHANGED <<ready, ctxMutex, owner, epoch, gen, seedOf, sysDrawn, seen, seed>>

Enter(t, c, n) ==
  /\ n \in made /\ \A u \in DrbgThread : call[u] \in {"new", "free"} => node[u] # n
  /\ Begin(t, c, n, "lock")
  /\ UNCHANGED <<ctxVars, sysDrawn, seen, seed>>

Instantiate(t, n) == n \notin ready /\ ~Busy(n) /\ Enter(t, "instantiate", n)
Generate(t, n) == Enter(t, "generate", n)
Uninstantiate(t, n) == Enter(t, "uninstantiate", n)

Free(t, n) ==
  /\ n \in made /\ ~Busy(n) /\ Children(n) \cap made = {}
  /\ Begin(t, "free", n, "free")
  /\ UNCHANGED <<ctxVars, sysDrawn, seen, seed>>

------------------------------------------------------------------------------
(* wp_drbg_enable_locking: the memory of a mutex that wc_InitMutex refused  *)
(* is freed, and ctx->mutex goes on pointing to it.  libcrypto answers a    *)
(* failure by freeing the context.                                          *)
EnableLocking(t) ==
  /\ drbgPc[t] = "enable"
  /\ \/ /\ ctxMutex' = [ctxMutex EXCEPT ![node[t]] = "ready"]
        /\ DrbgGoto(t, "unlock") /\ UNCHANGED drbgOk
     \/ ctxMutex' = [ctxMutex EXCEPT ![node[t]] = "freed"] /\ FailTo(t, "free")
     \/ UNCHANGED ctxMutex /\ FailTo(t, "free")
  /\ UNCHANGED <<made, ready, owner, epoch, gen, seedOf, sysDrawn, drbgCalls, call, node,
                 seen, seed, out>>

FirstStep(t) ==
  CASE call[t] = "instantiate" -> "seed"
    [] call[t] = "generate" -> "gen"
    [] call[t] = "uninstantiate" -> "uninit"

LockWithoutWait(t) ==
  /\ drbgPc[t] = "lock"
  /\ owner' = [owner EXCEPT ![node[t]] = t]
  /\ DrbgGoto(t, FirstStep(t))
  /\ UNCHANGED <<made, ready, ctxMutex, epoch, gen, seedOf, sysDrawn, drbgCalls, call, node,
                 seen, seed, out, drbgOk>>

(* wp_drbg_lock; wp_seed_src_lock, and a context without a mutex, answer 1. *)
DrbgLock(t) ==
  /\ drbgPc[t] = "lock"
  /\ IF ctxMutex[node[t]] = "none" THEN UNCHANGED owner
     ELSE /\ owner[node[t]] = NoUser
          /\ owner' = [owner EXCEPT ![node[t]] = t]
  /\ DrbgGoto(t, FirstStep(t))
  /\ UNCHANGED <<made, ready, ctxMutex, epoch, gen, seedOf, sysDrawn, drbgCalls, call, node,
                 seen, seed, out, drbgOk>>

DrbgLockFails(t) ==
  /\ drbgPc[t] = "lock" /\ ctxMutex[node[t]] # "none"
  /\ FailTo(t, "idle")
  /\ call' = [call EXCEPT ![t] = "none"]
  /\ UNCHANGED <<ctxVars, sysDrawn, drbgCalls, node, seen, seed, out>>

(* wp_seed_src_instantiate reads nothing: the context is READY. *)
SeedSrcReady(t) ==
  /\ drbgPc[t] = "seed" /\ node[t] \in SeedSrc
  /\ ready' = ready \cup {node[t]}
  /\ DrbgGoto(t, "unlock")
  /\ UNCHANGED <<made, ctxMutex, owner, epoch, gen, seedOf, sysDrawn, drbgCalls, call, node,
                 seen, seed, out, drbgOk>>

(* A DRBG with no parent, or whose parent is a SEED-SRC, starts from bytes  *)
(* of the system; a SEED-SRC that is not READY has none to give.            *)
SeedFromSystem(t) ==
  /\ drbgPc[t] = "seed" /\ node[t] \in Drbg
  /\ Parent(t) = NoParent \/ Parent(t) \in SeedSrc \cap ready
  /\ sysDrawn' = sysDrawn + 1
  /\ seed' = [seed EXCEPT ![t] = SysSeed(sysDrawn + 1)]
  /\ DrbgGoto(t, "nonce")
  /\ UNCHANGED <<ctxVars, drbgCalls, call, node, seen, out, drbgOk>>

(* wp_drbg_get_seed enters the generator of the parent, without its lock. *)
SeedFromParent(t) ==
  /\ drbgPc[t] = "seed" /\ Parent(t) \in Drbg \cap ready
  /\ seen' = [seen EXCEPT ![t] = gen[Parent(t)]]
  /\ DrbgGoto(t, "mid")
  /\ UNCHANGED <<ctxVars, sysDrawn, drbgCalls, call, node, seed, out, drbgOk>>

(* The parent has no generator, or the system or wolfCrypt fails. *)
SeedFails(t) ==
  /\ drbgPc[t] = "seed" /\ node[t] \in Drbg
  /\ FailTo(t, "unlock")
  /\ UNCHANGED <<ctxVars, sysDrawn, drbgCalls, call, node, seen, seed, out>>

Generates(t) == IF call[t] = "instantiate" THEN Parent(t) ELSE node[t]

(* wc_RNG_GenerateBlock is done: the output is a function of the state that *)
(* was read, and the next state replaces it.                                *)
Generated(t) ==
  LET n == Generates(t)
      fresh == Output(n, seen[t])
  IN  /\ drbgPc[t] = "mid"
      /\ gen' = [gen EXCEPT ![n] = seen[t] + 1]
      /\ IF call[t] = "instantiate"
         THEN seed' = [seed EXCEPT ![t] = fresh] /\ DrbgGoto(t, "nonce") /\ UNCHANGED out
         ELSE out' = [out EXCEPT ![t] = fresh] /\ DrbgGoto(t, "unlock") /\ UNCHANGED seed
      /\ UNCHANGED <<made, ready, ctxMutex, owner, epoch, seedOf, sysDrawn, drbgCalls, call,
                     node, seen, drbgOk>>

NonceForgets(t) ==
  /\ drbgPc[t] = "nonce"
  /\ FailTo(t, "unlock")
  /\ UNCHANGED <<ctxVars, sysDrawn, drbgCalls, call, node, seen, seed, out>>

(* The allocation or wc_InitRngNonce fails: no generator, and on to clear. *)
NonceFails(t) ==
  /\ drbgPc[t] = "nonce"
  /\ FailTo(t, "clear")
  /\ UNCHANGED <<ctxVars, sysDrawn, drbgCalls, call, node, seen, seed, out>>

(* wc_InitRngNonce (wc_rng_new for a root) makes the generator. *)
InitRngNonce(t) ==
  LET n == node[t] IN
  /\ drbgPc[t] = "nonce"
  /\ ready' = ready \cup {n}
  /\ seedOf' = [seedOf EXCEPT ![n] = seed[t]]
  /\ epoch' = [epoch EXCEPT ![n] = @ + 1]
  /\ gen' = [gen EXCEPT ![n] = 0]
  /\ DrbgGoto(t, "clear")
  /\ UNCHANGED <<made, ctxMutex, owner, sysDrawn, drbgCalls, call, node, seen, seed, out, drbgOk>>

(* parentClearSeed zeroes and frees the seed on the way out; the seed of a  *)
(* root never left wolfCrypt.                                               *)
ClearSeed(t) ==
  /\ drbgPc[t] = "clear"
  /\ seed' = [seed EXCEPT ![t] = NoData]
  /\ DrbgGoto(t, "unlock")
  /\ UNCHANGED <<ctxVars, sysDrawn, drbgCalls, call, node, seen, out, drbgOk>>

(* wp_drbg_generate enters the generator; wp_seed_src_generate reads the    *)
(* device.                                                                  *)
EnterGenerate(t) ==
  /\ drbgPc[t] = "gen" /\ node[t] \in ready
  /\ IF node[t] \in Drbg
     THEN /\ seen' = [seen EXCEPT ![t] = gen[node[t]]]
          /\ DrbgGoto(t, "mid")
          /\ UNCHANGED <<sysDrawn, out>>
     ELSE /\ sysDrawn' = sysDrawn + 1
          /\ out' = [out EXCEPT ![t] = SysSeed(sysDrawn + 1)]
          /\ DrbgGoto(t, "unlock")
          /\ UNCHANGED seen
  /\ UNCHANGED <<ctxVars, drbgCalls, call, node, seed, drbgOk>>

(* No generator, a request too strong or too long, or wolfCrypt fails. *)
GenerateFails(t) ==
  /\ drbgPc[t] = "gen"
  /\ FailTo(t, "unlock")
  /\ UNCHANGED <<ctxVars, sysDrawn, drbgCalls, call, node, seen, seed, out>>

(* wc_rng_free, and ctx->rng = NULL or state = UNINITIALISED. *)
DropRng(n) ==
  /\ ready' = ready \ {n}
  /\ seedOf' = [seedOf EXCEPT ![n] = NoData]

UninstantiateCtx(t) ==
  /\ drbgPc[t] = "uninit"
  /\ DropRng(node[t])
  /\ DrbgGoto(t, "unlock")
  /\ UNCHANGED <<made, ctxMutex, owner, epoch, gen, sysDrawn, drbgCalls, call, node, seen,
                 seed, out, drbgOk>>

FreeKeepsMutex(t) ==
  /\ drbgPc[t] = "free"
  /\ DropRng(node[t])
  /\ made' = made \ {node[t]}
  /\ DrbgGoto(t, "unlock")
  /\ UNCHANGED <<ctxMutex, owner, epoch, gen, sysDrawn, drbgCalls, call, node, seen, seed,
                 out, drbgOk>>

(* wp_drbg_free and wp_seed_src_free. *)
FreeCtx(t) ==
  /\ drbgPc[t] = "free"
  /\ DropRng(node[t])
  /\ made' = made \ {node[t]}
  /\ ctxMutex' = [ctxMutex EXCEPT ![node[t]] = "none"]
  /\ DrbgGoto(t, "unlock")
  /\ UNCHANGED <<owner, epoch, gen, sysDrawn, drbgCalls, call, node, seen, seed, out, drbgOk>>

(* wp_drbg_unlock, and the call returns. *)
Return(t) ==
  /\ drbgPc[t] = "unlock"
  /\ owner' = [n \in Node |-> IF owner[n] = t THEN NoUser ELSE owner[n]]
  /\ call' = [call EXCEPT ![t] = "none"]
  /\ DrbgGoto(t, "idle")
  /\ UNCHANGED <<made, ready, ctxMutex, epoch, gen, seedOf, sysDrawn, drbgCalls, node, seen,
                 seed, out, drbgOk>>

DrbgNext ==
  \E t \in DrbgThread :
    \/ \E n \in Node : \/ New(t, n) \/ Instantiate(t, n) \/ Generate(t, n)
                       \/ Uninstantiate(t, n) \/ Free(t, n)
    \/ EnableLocking(t) \/ DrbgLock(t) \/ DrbgLockFails(t)
    \/ SeedSrcReady(t) \/ SeedFromSystem(t) \/ SeedFromParent(t) \/ SeedFails(t)
    \/ Generated(t) \/ NonceFails(t) \/ InitRngNonce(t) \/ ClearSeed(t)
    \/ EnterGenerate(t) \/ GenerateFails(t) \/ UninstantiateCtx(t)
    \/ FreeCtx(t) \/ Return(t)

DrbgSpec == DrbgInit /\ [][DrbgNext]_drbgVars

------------------------------------------------------------------------------
(* The thread a context belongs to, or that reaches it through a child. *)
Touches(t, n) == t \in Users[n] \/ \E m \in Children(n) : t \in Users[m]

(* The trees an application may build: a generator is guarded by the mutex  *)
(* of its context and is nobody's parent, or one thread alone reaches it.   *)
(* libcrypto's own tree, a shared primary above one context per thread, is  *)
(* not one of them, and has two threads in the primary.                     *)
ConfinedTrees ==
  \A n \in Drbg :
    \/ n \in Shared /\ Children(n) = {}
    \/ \A t, u \in DrbgThread : Touches(t, n) /\ Touches(u, n) => t = u

(* The generator a thread is about to read or write, or has half used. *)
Uses(t) ==
  CASE drbgPc[t] \in {"gen", "uninit", "free", "nonce"} -> node[t]
    [] drbgPc[t] = "mid" -> Generates(t)
    [] drbgPc[t] = "seed" /\ Parent(t) \in Drbg -> Parent(t)
    [] OTHER -> NoParent

(* One thread at a time is inside the WC_RNG of a context, and the           *)
(* generator it is inside of is not freed under it.                          *)
OneUserPerRng ==
  \A t \in DrbgThread :
    /\ drbgPc[t] = "mid" => Generates(t) \in ready
    /\ Uses(t) \in Drbg => \A u \in DrbgThread \ {t} : Uses(u) # Uses(t)

(* Entropy is used once: no two generators start from the same seed, none    *)
(* starts from bytes handed to a caller, and no two callers get the same.    *)
NothingTwice ==
  /\ \A m, n \in Node : m # n /\ seedOf[m] # NoData => seedOf[m] # seedOf[n]
  /\ \A t, u \in DrbgThread : t # u /\ out[t] # NoData => out[t] \notin {out[u], seed[u]}
  /\ \A t \in DrbgThread, n \in Node : out[t] # NoData => out[t] # seedOf[n]

(* No seed outlives the instantiation it was fetched for, on any path out.   *)
SeedCleared == \A t \in DrbgThread : drbgPc[t] \in {"unlock", "idle"} => seed[t] = NoData

(* A context that is gone, or that was never to be shared, has no mutex, and *)
(* nobody ever locks memory that was freed.                                  *)
MutexUsable ==
  /\ \A n \in Node : n \notin made \cap Shared => ctxMutex[n] = "none"
  /\ \A t \in DrbgThread : drbgPc[t] = "lock" => ctxMutex[node[t]] # "freed"

(* The mutexes do what they are there for.                                   *)
RngGuarded == OneUserPerRng /\ MutexUsable
==============================================================================
