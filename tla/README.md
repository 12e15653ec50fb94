# Verification of wolfProvider

wolfProvider is an OpenSSL 3 provider: a shared library whose dispatch tables
libcrypto calls, and which does the cryptography with wolfCrypt.  Its own logic
is what lies between the two: contexts that live through a protocol of calls
(new, init, update, final, dup, free), objects that several threads share
(keys, generators, the entropy source, the self-test flags), and the state of a
process that loads, unloads and forks.  This directory models that logic in
TLA+, checks it with TLC on small instances and proves much of it, for instances
of any size, with TLAPS.

## Inventory

| Part | Source (`src/src/`) | State | Operations | What makes it hard |
|---|---|---|---|---|
| Lazy FIPS self-tests | `wp_internal.c` | `castAlgos[]`: a flag and a mutex per category | `wp_init_cast`, entered by every operation | double-checked flag, any number of threads, partial failure of a chain |
| Load and unload | `wp_wolfprov.c` | provider context, seed callback of wolfCrypt | `wolfssl_provider_init`, `wolfssl_prov_ctx_new/free` | several library contexts in a process; failures half way |
| Entropy source | `wp_seed_src.c`, `wp_internal.c` | `g_urandom_file`, `g_seed_cb_registered`, `urandomMutex` | `wp_urandom_init/cleanup/read`, `wp_wolfssl_seed_cb`, SEED-SRC contexts | fork, two readers of one stdio stream, lazy open |
| DRBG | `wp_drbg.c` | `WC_RNG`, mutex, parent | new, free, instantiate, uninstantiate, generate, get_seed, locking | a child enters its parent; seeds must be cleared on every path |
| Block ciphers | `wp_aes_block.c`, `wp_des.c` | key, IVs, block buffer, TLS MAC | init, update, final, cipher, dup, free | buffering across calls of any size, last block held back, re-initialisation, ownership on copy |
| AES stream, CTS | `wp_aes_stream.c` | two IVs, wolfCrypt's register, what is left of a block | the same | position across calls and inits; CTS wants all in one call and chains from the register |
| AES AEAD | `wp_aes_aead.c` | IV state, AAD, tag, TLS record | the same, and parameters | order of IV, AAD, data and tag; nonce reuse; TLS records |
| Key wrap | `wp_aes_wrap.c` | key, IV | init, update | what an init without key or IV keeps |
| Digests | `wp_digests.c` | one hash or two, output length | init, update, final, dup | copy of a running hash; one half of MD5-SHA1 failing; chunks |
| MACs | `wp_hmac.c`, `wp_cmac.c`, `wp_gmac.c`, `wp_mac_sig.c`, `wp_mac_kmgmt.c` | key, running MAC, collected data of GMAC | init, update, final, parameters; generation and comparison of keys | init without a key, copies in the middle, which algorithm a key is for |
| KDFs | `wp_hkdf.c` ... `wp_kdf_exch.c` | parameters | set, derive, reset, dup | what replaces and what adds up; what a refused value leaves; the n-fold of KRB5KDF |
| Keys | `wp_rsa_kmgmt.c`, `wp_ecc_kmgmt.c`, `wp_ecx_kmgmt.c`, `wp_dh_kmgmt.c` | wolfCrypt key, reference count, mutex | new, up_ref, free, dup, import, export, generate, match, encode, decode | shared by threads; partial import; which decoder takes what an encoder wrote |
| Operations on keys | `wp_rsa_sig.c`, `wp_rsa_asym.c`, `wp_rsa_kem.c`, `wp_ecdsa_sig.c`, `wp_ecx_sig.c`, `wp_*_exch.c` | reference to a key, hash, padding, KDF | init, parameters, sign, verify, encrypt, derive, dup | order of parameters; use after a copy or a second init; operations that change the shared key |
| Decoders, store | `wp_dec_*.c`, `wp_file_store.c` | file, decoder chain | open, load, eof, close | order of the decoders; what a load consumes |
| Parameters, TLS, logging | `wp_params.c`, `wp_tls_capa.c`, `wp_logging.c` | logging masks | conversions | - |

The parts meet in four ways.  libcrypto calls every operation; operations enter
`wp_init_cast` first; wolfCrypt calls back into `wp_wolfssl_seed_cb` when one of
its generators needs entropy; and a child DRBG calls its parent's `get_seed`.

Hazards are listed with their lines in `PROJECT.json`; each names the properties
that would fail, or says why there is none.

## Modules

| Module | Models | State and code |
|---|---|---|
| `WpCast` | `wp_init_cast` with any number of threads | `init`, `castOwner` are `castAlgos[].init/.mutex`; `castPc`, `algo`, `step`, `castOk` are the position and the locals of each thread; `casts` is what wolfCrypt has run |
| `CastService` | what callers of `wp_init_cast` rely on: a category passes once, in one step | abstract; implemented by `WpCast` |
| `WpUrandom` | the cached device stream, the seed callback, load, unload and fork | `file`, `registered`, `mutex` are the globals of a process, `buf` and `opened` are stdio's, `seedCb` wolfCrypt's, `inst` libcrypto's |
| `WpDrbg` | trees of DRBG and SEED-SRC contexts used by several threads | `ready`, `ctxMutex`, `owner` are the fields of `wp_DrbgCtx`; `gen`, `seedOf` name a generator's outputs and its seed |
| `WpBlockCipher` | AES-CBC, AES-ECB and DES3-CBC contexts | `ctx[c]` is `wp_AesBlockCtx` or `wp_Des3BlockCtx` field by field; bytes are their positions in the message; `macs` is the heap of TLS MAC buffers |
| `WpKeyRef` | reference counts of RSA, EC, ECX and DH keys, and the contexts of signature, asymmetric cipher, KEM and exchange that hold the references | `refCnt`, `mutex` are fields of the key; `holds` says which key each pointer (a context's key and peer, an EVP_PKEY, a thread's local) refers to; `keyRng` is wolfCrypt's `RsaKey.rng`; `ready` the contexts whose init answered 1 |
| `WpKeyMgmt` | what RSA, RSA-PSS, EC, X25519/X448, Ed25519/Ed448 and DH keys hold: import, export, generation, copies, comparison | `keys[s]` is the key object with the fields of its family, a number of a key being the material it belongs to; `said[s]` the parts the program put in |
| `WpAead` | AES-GCM, in both its builds, and AES-CCM contexts, one message or TLS record after another | `ctx` is `wp_AeadCtx` field by field, `aes` wolfCrypt's object; an IV is its fixed and its invocation part, a tag the record of all it covers; `said` and `phase` are the message as the program gave it |
| `WpStream` | AES-CTR, CFB, CTS and key wrap contexts | `sctx` is `wp_AesStreamCtx` or `wp_AesWrapCtx` with wolfCrypt's register and remainder; a unit of key stream is named by key, IV and place, a block of CTS by key and input |
| `WpDigest` | digests, MD5-SHA1, SHAKE-256 | a wolfCrypt hash is the pieces it was fed; `fed` is the message the program means; each call of wolfCrypt may fail |
| `WpMac` | HMAC, CMAC, GMAC, MAC keys and signing with them | `mctx`, `mkeys`, `gen` are the contexts, keys and the generation context; `macSaid`, `madeOf` what the program asked for |
| `WpKdf` | all KDFs, and HKDF and TLS1-PRF as exchanges | `kctx` is the fields of the context, `wish` what the program has set since the reset; `NFold` works on bytes |
| `WpSignature` | RSA (PKCS #1, PSS, X9.31, none), ECDSA, Ed25519/Ed448 signatures of one key | `ctx` is the fields of the context, `told` the operation as asked for, `sigs` the signatures made |
| `WpAsym` | RSA encryption and RSASVE between two holders of a key | `party` is the context of each side, `wants` what each asked for |
| `WpExchange` | ECDH, DH, X25519 and X448 with their KDFs, two contexts | `agree` is the contexts, `cdh` the cofactor flags of the shared keys; a curve secret is also digits |
| `WpCodec` | encoders and decoders of all keys, PEM and PKCS #8 decoders, the file store | `file` is its pieces (form, key, header, encryption), `load` the piece libcrypto's chain is at, `store` `wp_FileCtx` |
| `WpCast_proofs`, `WpDrbg_proofs`, `WpUrandom_proofs`, `WpKeyRef_proofs`, `WpSignature_proofs` | the theorems about the module of that name and their proofs | the invariants, below under Proofs |
| `WpKeyMgmt_proofs` | the theorems about `WpKeyMgmt` and `WpCodec` | the same |
| `WpCiphers_proofs` | the theorems about `WpBlockCipher`, `WpAead` and `WpStream` | the same |
| `WpOperations_proofs` | the theorems about `WpDigest`, `WpMac`, `WpKdf`, `WpAsym` and `WpExchange` | the same, and lemmas on induction and loops |
| `MC*` | values of the constants; `MCWpProcess`, `MCWpCiphers`, `MCWpKdfMac`, `MCWpKeys` and `MCWpPkey` put components side by side | |

In `WpCast`, `WpUrandom`, `WpDrbg` and `WpKeyRef` a step is one access to shared state or
one call into wolfCrypt or stdio, and threads interleave between steps.  In the
others a call is a step, for libcrypto never lets two threads into one context,
and keys that are shared are only read (the exceptions, a cofactor flag and the
public half of an Ed25519 key, are named below).

`MCWpProcess`, `MCWpCiphers`, `MCWpKeys` and `MCWpPkey` check components that share
no state in one run: a behaviour picks one of them, with its own initial states
and actions, and the variables of the others stay as their `Idle` predicate has
them (`AeadIdle`, `StreamIdle`...; in `MCWpProcess`, as their `Init` does).  Their
invariants are those of the components.

What a model leaves to its environment is written at the actions: libcrypto
loads an instance once and unloads it when nobody is inside; it takes the lock
of a DRBG around each call and keeps a parent alive as long as its children; a
program feeds a context only after an init has succeeded; it frees or
re-initialises a context that no thread is inside of; an EVP_PKEY is not dropped
while a call that was given it runs, and a context whose first init failed is
only freed.

Three conventions.  A definition ending a family of actions with a telling
name (`RecheckSkipped`, `CleanupKeepsFlag`, `FinalDecUnchecked`...) that no
other definition uses is a plausible bug of the action that follows it: put in
its place it makes one of the properties fail, which shows that the property
looks at that code.  `Max...` constants bound counters and appear in guards
only (`MaxPieces` of `WpKdf` is a limit of the code itself).  A lock that fails is a step of its own that no fairness speaks of.

## Runs

| Run | Expect | Question |
|---|---|---|
| `WpProcess.cfg` | pass | self-tests: do the two reads of the flag and the mutex give callers the one-step service, and does the mutex always come free; entropy: do flag, stream and callback agree through load, unload, failure and a quiet fork, are requests whole and distinct, does every call return; DRBG: is each generator entered by one thread at a time, its entropy used once, each seed cleared |
| `WpUrandomTwice.cfg` | violation | do flag, stream and callback agree when two library contexts load the provider |
| `WpDrbgParent.cfg` | violation | is each generator entered by one thread at a time when two threads instantiate children of one primary |
| `WpCiphers.cfg` | pass | block ciphers: do updates of any size keep the bytes in order, is the right block held back and the message whole at its end, who owns the MAC; AEAD: is a tag that of its message and an answer the true one, does output come from its place in the key stream, do generated IVs differ, does a record carry the IV it has; streams: is every call what the mode defines at that place |
| `WpDes3Iv.cfg` | violation | is the reported IV of DES3 the one in use after an init without an IV |
| `WpKeyRef.cfg` | pass | do counts stay equal to references through calls that overlap and fail, is a key disposed of once and only then, does a lent generator come back |
| `WpKeys.cfg` | pass | does a key have, compare and export as what the program put in; does a saved key load again through any decoder that takes it and through the store; are derived keys, digests and MACs those of what was set and fed |
| `WpPkey.cfg` | pass | are signatures, ciphertexts and secrets those of the parameters asked for, in any order and through copies; are verifications true; do PSS restrictions and FIPS hold |
| `WpEpki.cfg` | violation | does a key saved with an EncryptedPrivateKeyInfo encoder load with its password |
| `WpEpki2Pki.cfg` | violation | does a key another tool has encrypted, in PKCS #8 and DER, load with its password |
| `WpKrb5Constant.cfg` | violation | does a constant that KRB5KDF derives with fit in its block |
| `WpAeadTls.cfg` | violation | do the TLS records of one GCM context have different IVs |

The seven violations are findings: the code does not do what one of its comments
says, or (the DRBG, DES3 and the records of GCM) does what can hardly be meant.
`PROJECT.json` quotes the comment of each.

Some invariants are conjunctions of two that belong together:
`GlobalsAreTrue` of `FlagMatchesCallback` and `HandleAccounted`, `RngGuarded` of
`OneUserPerRng` and `MutexUsable`, `LastBlockInFinal` of `HoldsLastBlock` and
`FinalIsWhole`, `MessageWhole` of `OutputInOrder` and `TagOfMessage`.  `CastTypeOK`
is an invariant of `WpProcess.cfg`; the type invariants of the others are
theorems, and hold in the instances of their configurations too.

Bounds.  Two threads suffice for the races (every mutex protects against one
other), three categories give a chain of two CASTs, a chain of one and a
category that is compiled out.  In `WpUrandom` a request wants two bytes and
stdio reads three ahead: requests leave bytes behind, start in a buffer that
does not suffice, and take a second turn of the loop; four calls are a load, two
requests and an unload or a reseed.  In `WpDrbg` seven calls make and use a
three-level chain, or free and make a context again.  In `WpBlockCipher` blocks
have three bytes, so that an empty, a partly filled and a full buffer differ on
both sides of every boundary; seven bytes are two blocks and one byte more.
In `WpKeyRef` two threads, two keys and two contexts of one family (`Casts` lists
the families and the pairs of operations) meet in every way: contexts of
different families hold different keys and do not.  Four calls make a context
with a key and a peer, copy or re-initialise it, and free it or drop the key
beside another thread.
In `WpAead` one context goes through two messages or records, the fewest where
one can disturb the next, with two pieces of AAD and of data each, two keys and
three invocation parts, so that the carry of a generated IV happens.

In `WpKeyMgmt` three keys of one family suffice for a key, one made from it and
one compared with both; two materials and two named groups for what differs.
`AutoPublic` is the build for OpenSSL 4, which has one step more.

In `WpStream` a block has two units and wolfCrypt takes one block at a time, so
that lengths of one, two, four and five units are a part of a block, a block,
two, and more than two with a rest, in CTR and CFB also in several chunks; two
contexts, one of which may be a copy; a chain of two messages of CTS.  In
`WpDigest` and `WpMac` a message has up to three pieces, fed at once or one by
one, and a chunk two of them: one update can take two turns; one call of
wolfCrypt fails.  In `WpKdf` three calls set parameters, one or two at a time,
so that a parameter can be given, given again and left out; `NFold` is computed
for every constant of up to three bytes out of 0, 1, 200 and 255 for a block of
four, whose lengths divide the block, do not, and fill it, and compared with the
definition of RFC 3961; a whole block is its own, and a derivation with no
constant is refused.  A constant of five bytes is there for the habit
`long_constant`, in the run `WpKrb5Constant.cfg`.  In `WpSignature` two parameters are set in the life of
a context and one signature is made, which is verified in another; the keys are
an RSA and an EC key of proper size and one of each too small for FIPS (a small
modulus, P-192), four PSS keys (free,
generated, imported with restrictions, decoded without) and Ed.  In `WpAsym`
three parameters on each side are a digest, a mask and a label, or a padding and
two versions; a receiver decrypts as often as it likes, and the OAEP defaults a
use has written stay in its context.  In `WpExchange` four settings, two contexts; the order of the
curve is three digits to the base four, 29, and the secrets are the numbers up
to 31: below, at and above it, with every borrow and with equal leading digits.  In `WpCodec` a file has two pieces, of ten keys and eight
pieces of other tools.

What a program does.  Each module of the second kind says what a plain program
does, and names in a constant (`Habits`, `StreamHabits`, `CodecHabits`...) what
programs do beyond that.  The passing runs have every habit the code stands;
each of the others, added to the constant, breaks the property named, and is a
fact about the code worth knowing.

`WpAead` begins a message with an init or a generated IV
when the one before has ended; the program gives one tag per message, one update
with the data to CCM, and uses a CCM context for records or for messages, with
its tag length set.  `Habits`, per mode:
*abandon* a message for a new init, *leave* the *tag* of an encryption, *reuse*
a context after a message that failed, end an *empty* message.  What the code
does not stand breaks `AnswerIsTrue`, or `MessageWhole` for an abandoned GCM
message:

| | abandon | leave_tag | reuse | empty |
|---|---|---|---|---|
| GCM, keeping the message | no: what is kept begins the next | no: `tagAvail` stays, final neither computes nor checks | no: `authErr` stays | yes |
| GCM, streaming | yes | yes | yes | no: when key and IV came in two inits the cipher has not started |
| CCM | no | no: `tagAvail` refuses updates | no | no: final answers 1 with an old tag |

`Uses` of `WpKeyMgmt` does the same for keys.  `WpKeys.cfg` has none, and
every pair below, added to it, breaks the property in the last column (TLC
finds each with two keys; the pairs not listed change nothing):

| Use | Families | What the code does | Breaks |
|---|---|---|---|
| `bare_private`: a private key alone, not built for OpenSSL 4 | EC | two such keys compare equal: their public points are both zero | `MatchIsTrue` |
| `bare_pair`: a key pair imported without its private part | RSA, PSS | `hasPriv` is set by the selection | `HasIsTrue` |
| `dup_public`: `EVP_PKEY_dup` of a public key | RSA, PSS | the same (DH refuses the copy) | `HasIsTrue` |
| `dup_private`: `EVP_PKEY_dup` of an imported private key | X | the bits that were there before clamping are lost | `ExportIsTrue` |
| `copy_parameters`: `EVP_PKEY_copy_parameters` of a key that has more | X, Ed | everything is copied, the private key too | `HasIsTrue` |
| `template`: key generation from a key with a named group | DH | the prime comes without the name | `MatchIsTrue` |
| `explicit`: the prime of a named group without the name | DH | the same | `MatchIsTrue` |
| `named_params`: parameter generation with a name | DH | new parameters, the name is ignored | `ExportIsTrue` |
| `generate`: key generation | PSS | restrictions are stored but not marked as set | `ExportIsTrue` |
| `unrestricted`: an import without restrictions | PSS | the defaults become restrictions | `ExportIsTrue` |

The other constants are empty in the passing runs.  (`epki`, `encrypted_der` and
`long_constant` are in the runs that show the findings about them.)

| Habit | What the code does | Breaks |
|---|---|---|
| `StreamHabits` `one_block`: CTS of one block | both directions take two blocks together (`wp_aes_stream.c:590`) | `ResultAsDefined` |
| `apart`: key and IV of CTS in two inits | a message of up to two blocks chains from the register, which the key has cleared, and not from `ctx->iv` | `ResultAsDefined` |
| `turn`: the other direction of CTS or wrap without a key | the key schedule stays the one of the old direction | `ResultAsDefined` |
| `cfb_again`: init of CFB without an IV | goes on from the last block (`ctx->oiv` is not restored) | `ResultAsDefined` |
| `wrap_iv`: a wrap with an IV | `ivSet` is never set, the IV is ignored (`wp_aes_wrap.c:42`) | `ResultAsDefined` |
| `CodecHabits` `pss_odd`: restrictions with SHA-1 and the like, or a salt of 256 or more | the encoder leaves out the digest, or cuts the salt to a byte | `LoadedIsSaved` |
| `unrestricted`: a PSS key without restrictions saved | the default restrictions are written | `LoadedIsSaved` |
| `small_pss`: the public half of a PSS key of 1024 bits or less | the length bytes of the longer form are overwritten (`wp_rsa_kmgmt.c:2881`) | `LoadedIsSaved` |
| `cipher_ignored`: PrivateKeyInfo of EC, DH, ECX with a cipher set | the cipher is ignored, the key is written in the clear | `LoadedIsSaved` |
| `unread`: PEM of an RSA public key, an EC point, a DH private key | no decoder takes them | `LoadedIsSaved` |
| `encrypted_der`: an EncryptedPrivateKeyInfo in DER of a key other than RSA | passed by: what `wp_epki2pki_decode` looks for first is the version of a PrivateKeyInfo (`wp_dec_epki2pki.c:210`), and no other decoder but RSA's decrypts | `EpkiDecoded`, `LoadedIsSaved` |
| `any_selection`: a decoder asked for anything | type-specific EC and DH keys load as their parameters | `LoadedIsSaved` |
| `KdfHabits` `set_after_info`: HKDF parameters after the info, without it | the info is cleared by every call (`wp_hkdf.c:435`) | `KeyAsSet` |
| `no_mode`: TLS13-KDF derived from before a mode was set | 1, and nothing written | `KeyAsSet` |
| `prf_other_md`: TLS1-PRF with another digest than MD5-SHA1, SHA-256 and SHA-384 | SHA-384 (`wp_tls1_prf.c:188`) | `KeyAsSet` |
| `kex_copy`: copy of a KDF exchange context | the copy has no parameters (`wp_kdf_exch.c:120`) | `KeyAsSet` |
| `on_refusal`: go on after a refused parameter | a refused mode stays, a refused digest takes the old one away | `KeyAsSet` |
| `long_constant`: a constant of KRB5KDF longer than the block of the cipher | copied into the block whole (`wp_krb5kdf.c:321`): the setter takes any length, the derivation refuses only none | `ConstantFits` |
| `DigestHabits` `after_failure`: go on after a failed call | one half of MD5-SHA1 has taken the piece | `DigestOfMessage` |
| `xof_default`: SHAKE-256 without a length | no bytes, or the length of the message before | `DigestOfMessage` |
| `MacHabits` `reinit`: init without a key on a used HMAC or CMAC context | the data so far stays, or CMAC has no key any more | `TagAsAsked` |
| `alg_without_key`: another digest or cipher for a key that is in | the reported size changes only | `TagAsAsked` |
| `gmac_reuse`: a GMAC context used twice | what it has collected is never dropped | `TagAsAsked` |
| `key_size`: a key of another size than the cipher's name | the size of the key wins | `TagAsAsked` |
| `long_gmac`: 2^32 bytes through GMAC | the length is cut to 32 bits (`wp_gmac.c:289`) | `TagAsAsked` |
| `cipher_prefix`: a CMAC key without a cipher | the empty name is the beginning of AES-128-CBC | `TagAsAsked` |
| `gen_twice`: two keys from one generation context | the second is empty | `KeysAreTold` |
| `keyless_match`: comparison with an object that has no key | equal, when it is the first one | `KeysAreTold` |
| `Habits` (signatures) `reinit`: init again in the middle of a message, with the same digest | the hash goes on (`wp_rsa_sig.c:1550`, `wp_ecdsa_sig.c:555`) | `AnswerIsTrue`, `SignedAsAsked` |
| `init_params`: padding or salt with the init | the init overwrites them (`wp_rsa_sig.c:505`); a digest given there evades the restriction of a generated PSS key | `SignedAsAsked` |
| `after_dup`: a salt set in a copy | the copy has forgotten `minSaltLen` | `RestrictionKept` |
| `raw_pss`: no padding with a PSS key | accepted | `RestrictionKept` |
| `raw_to_digest`: a PKCS #1 signature without a DigestInfo, verified with a digest | compared with the bare digest, equal when it is one | `AnswerIsTrue` |
| `on_refusal`: go on after a refused parameter | a refused salt, digest or mask is in the context | `RestrictionKept` |
| `AsymHabits` `mgf_without_digest`: a mask without a digest for OAEP | the default digest overwrites the mask (`wp_rsa_asym.c:448`) | `EncryptedAsAsked` |
| `tls_copy`: copy of a context for TLS padding | the copy has no versions | `DecryptionTrue` |
| `ExHabits` `ask_copy`: ask a copied ECDH or DH context for its KDF digest | the copy has no name of it | `SecretAsAsked` |
| `on_refusal`: go on after a refused digest | its name stays, the digest is none | `SecretAsAsked` |

`Cofactors` of `WpExchange` is the set of groups with a cofactor other than 1:
none of the provider's curves has one.  With one in it `SecretAsAsked` fails,
for `WC_ECC_FLAG_COFACTOR`, once set in a shared key, is never cleared
(`wp_ecdh_exch.c:280`).

Fairness.  `CastFairness` of `WpCast` and `Fairness` of `WpUrandom` are weak fairness
of each thread's steps inside a call, and `WpProcess.cfg` assumes both: of the two, the
part a behaviour is not about has no thread in a call.  The operating system runs a thread that is not waiting.  It is not assumed that a thread calls again, nor that a lock fails.
Mutexes are not assumed to be fair: the leads-to properties checked hold without
it because the number of calls is bounded or the property speaks of the holder
only.

The call bounds end behaviours, and `CHECK_DEADLOCK FALSE` says so.  That no thread is
stuck in a call is what the leads-to properties say.

## Proofs

A run shows a property in one small instance; the theorems below hold for every
value of the constants: any number of threads, contexts, keys, processes and
calls, any block size, any number of messages.  They rest on the assumptions each
module names for its constants (`CastAssumption`, `DrbgAssumption`...), which TLC
evaluates in every run, and on nothing else but what the table says.  None of
the properties is inductive by itself, and each proof states the invariant that
is, shows that it holds at first, that each action keeps it (one step per
action), and that it implies the property.

| Theorem | States | Assuming |
|---|---|---|
| `WpCast_proofs` `SpecTypeOK`, `SpecTestedByOne`, `SpecOkMeansPassed`, `SpecImplementsService` | `CastTypeOK`, `TestedByOne`, `OkMeansPassed`, `ImplementsService` (refinement of `CastService`) | |
| `WpDrbg_proofs` `SpecTypeOK`, `SpecSeedCleared`, `SpecMutexUsable` | `TypeOK`, `SeedCleared`, `MutexUsable` | |
| `WpDrbg_proofs` `SpecRngGuarded`, `SpecNothingTwice` | `RngGuarded`, `NothingTwice` | `ConfinedTrees` |
| `WpUrandom_proofs` `SpecTypeOK`, `SpecSeedsFullAndDistinct` | `TypeOK`, `SeedsFullAndDistinct` | |
| `WpUrandom_proofs` `SpecGlobalsAreTrue` | `GlobalsAreTrue` | `OneContext` |
| `WpKeyRef_proofs` `SpecTypeOK`, `SpecCountExact`, `SpecLifeTime`, `SpecKeyRngInUse` | `TypeOK`, `CountExact`, `LifeTime`, `KeyRngInUse` | |
| `WpCiphers_proofs` `SpecBlockTypeOK`, `SpecBytesInOrder`, `SpecLastBlockInFinal`, `SpecAesIvInUse`, `SpecMacOwned` | `TypeOK`, `BytesInOrder`, `LastBlockInFinal`, `AesIvInUse`, `MacOwned` | |
| `WpCiphers_proofs` `SpecRecordWhole` | `RecordWhole` | |
| `WpCiphers_proofs` `SpecGeneratedIvFresh` | `GeneratedIvFresh` | `MaxMessages <= MaxIv` |
| `WpCiphers_proofs` `SpecAeadTypeOK`, `SpecMessageWhole`, `SpecAnswerIsTrue` | `AeadTypeOK`, `MessageWhole`, `AnswerIsTrue` | `Stood` |
| `WpCiphers_proofs` `SpecResultAsDefined` | `ResultAsDefined` | `StreamHabits = {}` |
| `WpKeyMgmt_proofs` `SpecTypeOK` | `TypeOK` | |
| `WpKeyMgmt_proofs` `SpecHasIsTrue`, `SpecMatchIsTrue`, `SpecExportIsTrue`, `SpecRoundTrip` | `HasIsTrue`, `MatchIsTrue`, `ExportIsTrue`, `RoundTrip` | `Uses = {}` |
| `WpKeyMgmt_proofs` `SpecStoreInOrder` | `StoreInOrder` | |
| `WpKeyMgmt_proofs` `SpecLoadedIsSaved` | `LoadedIsSaved` | `CodecHabits = {}` |
| `WpSignature_proofs` `SpecFipsSignatures` | `FipsSignatures` | `Sha1NotHeld`, no `on_refusal` in `Habits` |
| `WpSignature_proofs` `SpecRestrictionKept` | `RestrictionKept` | `RestrictionsFit`, `PlainUse` |
| `WpSignature_proofs` `SpecAnswerIsTrue` | `AnswerIsTrue` | `Habits = {}` |
| `WpSignature_proofs` `SpecSignedAsAsked` | `SignedAsAsked` | `Habits = {}`, `Sha1Apart` |
| `WpOperations_proofs` `SpecDigestOfMessage` | `DigestOfMessage` | `DigestHabits = {}` |
| `WpOperations_proofs` `SpecTagAsAsked`, `SpecKeysAreTold` | `TagAsAsked`, `KeysAreTold` | `MacHabits = {}` |
| `WpOperations_proofs` `SpecKeyAsSet` | `KeyAsSet` | `KdfHabits = {}` |
| `WpOperations_proofs` `NFoldIs` | `NFold(s) = NFoldOf(s)` for every constant of one byte up to a block | |
| `WpOperations_proofs` `SpecEncryptedAsAsked`, `SpecDecryptionTrue` | `EncryptedAsAsked`, `DecryptionTrue` | `AsymHabits = {}` |
| `WpOperations_proofs` `SpecSecretAsAsked` | `SecretAsAsked` | `ExHabits = {}`, `Cofactors = {}` |

Each assumption on the right is what the code needs, and not more:

- `ConfinedTrees` (in `WpDrbg`): a generator has a lock and no children, or one
  thread alone reaches it.  `wp_drbg_get_seed` enters a parent without its lock,
  and the run `WpDrbgParent.cfg` has a tree that is not confined, where two
  threads are in the primary.
- `OneContext`: one library context loads the provider, and the lock of
  `wp_urandom_cleanup` does not fail.  `WpUrandomTwice.cfg` has two; a failed lock
  leaves the stream open, as said below.
- `MaxMessages <= MaxIv`: a context generates no more IVs than the counter of
  `wp_aesgcm_get_rand_iv` has values, which are 2^64.
- `Stood`: `Habits` is a part of the "yes" cells of the table of AEAD habits above.
- `Uses = {}`: the uses of the table of keys above are left out, since each breaks
  one of the four.
- `Habits`: those of the table of habits that break the property, and those that
  change what was asked for.  `PlainUse` is `reinit` and `raw_to_digest`, which the
  restrictions of a PSS key survive.
- `CodecHabits`, `DigestHabits`, `MacHabits`, `KdfHabits`, `AsymHabits`, `ExHabits`: each habit of
  the tables above breaks the property it stands beside, as TLC shows.  `SpecLoadedIsSaved`
  claims nothing of encrypted keys in DER but RSA's, and `SpecKeyAsSet` nothing of HKDF
  parameters after the info nor of Kerberos constants longer than the block; the runs
  `WpEpki2Pki.cfg` and `WpKrb5Constant.cfg` show what becomes of these.  What other tools
  have written is standard (`Standard`, `ForeignAssumption` in `WpCodec`): TLC evaluates
  it for the pieces of the runs, and that what the encoders write is standard is a lemma.
- `Cofactors = {}`: so are the curves of the provider.
- `Sha1NotHeld`: no PSS key comes with restrictions to SHA-1.  One that does has its
  digest set up by the init as for a verification (`wp_rsa_sig.c:544`), and a digest
  already named is not set up again (`:1549`): the FIPS build signs with it.
- `RestrictionsFit`: the least salt of a restricted PSS key is no longer than its
  digest and than an RSA signature has room for, and a key that came with a digest
  came with a mask.  With a longer one the default salt (`wp_rsa_sig.c:532`, `:403`)
  and the special lengths, which are not held against the least salt, sign with the
  length of the digest.
- `Sha1Apart`: `Sha1NotHeld`, and a build with FIPS or a program without SHA-1.
  Without FIPS the algorithm identifier of a SHA-1 PSS signature takes its hash to
  have no bytes, and says a wrong length of the longest salt.

The invariants, and why they are needed:

- `WpCast_proofs`: a thread between `wp_lock` and `wp_unlock` owns the mutex of its
  category (`InsideOwns`), the CASTs before its next one have passed and the flag
  is 0 while it tests (`Progress`), a set flag means a completed chain
  (`FlagMeansPassed`), and a thread about to answer 1 has seen the flag set
  (`OkMeansFlag`).  The racy first read needs nothing of its own: a stale 0 only
  sends the thread to the mutex.
- `WpDrbg_proofs`: which calls stand where and hold a seed there (`CallAtPc`,
  `SeedHeld`), that contexts worked on exist (`OnMade`), that a creation or a free
  is alone with its context (`Alone`), and when a mutex pointer is set or dangles
  (`MutexState`).  With `ConfinedTrees`: the worker on a shared context owns its
  mutex (`LockInv`), so that between the read of a generator's state and the write
  of the next nobody moves it (`MidInv`); and every output, seed and half-used
  value was given out once and is told from the next by epoch and number
  (`FreshInv`).
- `WpUrandom_proofs`: bytes in the buffers of stdio and in the hands of threads
  are apart in each process, forks included (`Apart`, `Asleep`), and a request is
  served when its count is (`Served`); that a read finds as many new bytes as it
  takes is a pigeonhole argument over finite sets.  For the globals: load and
  unload are alone in their process (`Alone`), at each of their steps flag, stream
  and callback are as far as it has come (`LoadAt`, `UnloadAt`), and between them
  they agree (`FlagTrue`).
- `WpKeyRef_proofs`: the count is the number of holders (`CountExact`), which needs
  that the mutex is held by the one who is at the key (`MutexHeld`), that the count
  a thread has read stays true until it writes (`CountRead`), who vouches for the
  key a thread works on before it has a reference of its own (`Vouched`), where
  the reference of a local variable is between `up_ref` and its assignment
  (`Locals`), and that whoever counts to zero is alone with the key (`Disposal`).
- `WpCiphers_proofs`, of block ciphers: the bytes done, buffered and fed add up and are in order,
  with a record apart (`Ordered`), what may wait in the buffer in each direction
  (`HoldsLast`), and what a final leaves (`IsWhole`).  The arithmetic is for every
  block size.
- `WpCiphers_proofs`, of AEAD: what holds whatever the program does (`Base`: key, fixed part
  and record are those told; generated IVs are consecutive modulo the counter) and
  what holds of one message (`Message`: AAD and data in the context and in
  wolfCrypt's object are those of the message at each phase, `Told`; a tag in the
  buffer is of this message or an earlier one, `ClaimTold`).
- `WpCiphers_proofs`, of streams (`StreamInv`: context and program `Agrees`).  In CTR
  and CFB the blocks wolfCrypt has made end at the place of the message, with the
  units left to spare (`Made`, `StandsAt`), also when an input goes through in chunks.
  In CTS the context has the IV the next message starts from, and the object of a
  context that encrypts has it, too.  The blocks of a message form one chain
  (`CbcChain`, which is unique: `ChainOnce`); encryption swaps the last two of it and
  cuts the end off (`Stolen`), and decryption gets that end back from the block after
  it (`TwoStolen`, `LastUnits`, `BlockBefore`), for any block size and a last block of
  any length.  A wrap has no IV, and the key schedule of its direction.  The rows of
  units are for any message; nothing is said of what a unit is.
- `WpKeyMgmt_proofs`: each key holds, in the fields of its family, what is said of it
  (`Held`); the four properties follow from it alone, without looking at the
  actions.  The lemmas are about the functions: what an import, a generation, a
  copy or a new public key makes holds what is said of the result.  The proof
  found that the name of generated DH parameters had been written as a `CASE` with
  two arms that were true together; the code decides in order, and so does the
  model now.
- `WpKeyMgmt_proofs`, of the file store (`StoreInv`): the store stands in the file at a
  place that its calls have not outrun, with all behind that place left to read
  (`ReadTo`) and one answer for each object before it (`SeenTo`); or the set-up of its
  decoders has failed and nothing is left.  Needs no assumption.
- Of encoders and decoders (`LoadInv`): all in a file is standard, what the encoders
  write too (`WrittenStandard`), and a load is at a piece of the file or at the DER of
  the key due, with a type and a structure that are true of it (`LoadOk`).  Then no
  decoder makes another key of it, whichever order libcrypto tries them in
  (`PlainRead`), and one takes it (`PlainDecodes`), so that a load in which all pass
  is of what has no key or no password.  The store tries its decoders in a fixed
  order, and that matters: the decoder of DH parameters would take those of a DH
  private key, and does not get to, for the decoder of the private key stands
  behind it in the table and is tried first (`StoreStep`).
- `WpSignature_proofs`: a context works with what its program has told it, and with
  the defaults of its key where it has said nothing (`AsTold`: digest, mask, padding
  and salt each on its own), what was fed is what was told, and the PSS signatures
  known have a digest and a salt (`ToldInv`).  A signature is then the one asked for
  by what signing makes of a context (`SignedOf`), and a verification true by cases
  of the padding.  The restrictions need less of the program: a context of a
  restricted key keeps to its padding, digest and mask, and its salt is a special
  one or long enough, while the least salt is the key's until the context is copied
  (`Within`).  FIPS needs that a context set up to sign has no SHA-1 (`Clean`).  The
  proof found two places where what is due had been stated too narrowly (the
  digest of a verification with a PSS key that names SHA-256, and the salt due of
  it), and two of the assumptions above.

- `WpOperations_proofs`, of digests (`DigestInv`): a context that no call has failed
  since its message began holds that message, in both halves of MD5-SHA1.  What the
  loop of chunks leaves in an object is shown by induction over its turns.
- Of MACs (`MacInv`): the object is keyed with the key said under the algorithm said
  (`KeyAsSaid`), but for a CMAC context that has given its tag; it has been fed what
  the program gave (`MsgAsSaid`); keys are what the program made them of (`KeyInv`).
- Of KDFs (`KdfHolds`, for the batches `KdfHabits = {}` leaves): each field is the newest value set of it, or what the
  provider makes of several (info and seed add up, as far as they do in the code),
  whatever batches the parameters came in.  The parameters of a call are walked as
  the code does, and each step of the walk has set the fields it has passed.
- Of n-fold (`NFoldIs`, for a block of any size and a constant of any bytes that fit
  in it): a block is a number (`Val`), and two numbers are the `Same` when they
  differ by a multiple of 256^`FoldSize` - 1 and both or neither are zero.  One turn
  of the loop of `wp_krb5kdf_n_fold` puts a byte and its carry in place (`PutIs`), so
  after all of them the block and the carry are the same as the sum of the copies
  (`SumKeeps`); a carry left goes round over bytes that become 0 and stops within one
  round (`RoundIs`, `RoundKeeps`).  Adding the blocks of the copies in one's
  complement, as RFC 3961 does, is the same as their sum, too (`RoundAddIs`,
  `FoldOfIs`); the byte the code cuts from two bytes of the constant has the bits of
  the turned copy (`CopiesAre`, `ByteCut`); and blocks that are the same are equal
  (`SameWhole`, `ValOnce`), which is where it matters that no sum but that of zeros
  is the zero block.
- Of RSA encryption (`AsymInv`): what a side has is what it asked for, or the default
  (`CipherSays`, `KemSays`), and what was sent is what the sender asked for.
- Of exchanges (`ExInv`): keys, flags and KDF are those told; a DH peer is of the
  group of the key.  A curve secret is reduced by comparing and subtracting digit by
  digit: the borrow of each digit says whether the rest below is less (`NoBorrow`),
  so that the difference has the value of the difference (`Difference`), for an
  order of any number of digits to any base, and a secret below twice the order
  (`CurveAssumption`, in `WpExchange`) is then reduced (`CurveReduced`).  The proof
  found that the secret of a model had been written as a `CASE` with arms that
  overlap; the code decides in order, and so does the model now.

Induction.  A loop of the code is a recursive function of its model, and what it
computes is shown by induction over its turns.  The library's induction theorems
cannot be used here, so `AllNumbers` gets it from the well-foundedness of `<` on
the naturals: a set that has 0 and with each number the next has them all; and
`LoopIs` gets from it that a function defined by such a recursion exists and
satisfies its definition.

Only model-checked.  Liveness (`MutexReleased`, `Answered`), for the prover does
not do fairness.  Every safety property of a run that passes has a theorem.

## Not modelled

Per component, with the reason, in `PROJECT.json`.  Inside the modelled parts:
logging, parameter queries that read one field, additional input mixed into
SEED-SRC output, the bytes of padding and MACs and their constant-time
selection, `wp_drbg_reseed` (it does nothing), and builds with
`WP_SINGLE_THREADED`.  Two facts of `wp_drbg.c` that no property states:
`wp_drbg_enable_locking` leaves `ctx->mutex` pointing to freed memory when
`wc_InitMutex` fails and `wp_drbg_free` then frees it again (the model's
`"freed"`), and a second instantiate would lose the first generator.  A child's
`wc_InitRngNonce` has entropy of wolfCrypt's own beside the seed of the parent; the
model names the seed alone, so that what it keeps apart the code keeps apart all the
more.  A read of stdio may come back short at any byte in `WpUrandom`, where `fread`
of a device that does not fail would not.  Two of
`wp_seed_src.c`: a child forked while another thread reads waits for ever for
`urandomMutex` (`ForkMode` "any" of `WpUrandom` contains it; POSIX leaves the
code nothing but an atfork handler), and `wp_urandom_cleanup` goes home with the
callback registered when its lock fails.  Each library context that loads the
provider forgets the stream (`wp_seed_src.c:154`), and one that was open is never
closed: the model has the step, and `HandleAccounted` fails with two contexts as
`FlagMatchesCallback` does, but no run asks for it there.  One more: `wp_seed_src.c:40` speaks of
"file caching for fork-safe entropy", but bytes that wait in the buffer of the
stream at a fork are given to parent and child alike (`got` of both, in the
model; `SeedsFullAndDistinct` speaks of one process).  In
`WpKeyRef`: a lock that fails in a free (the code counts down all the same), the
key material (`WpKeyMgmt`), the refusal of a DH peer from another group, and creations that
fail for want of memory, which leave nothing behind.  Two decryptions of two
threads with one RSA key do use each other's generator in the model, as a
`TODO` in the code says; no property forbids it.  `wp_rsakem_init` forgets that
`up_ref` failed and answers 1 with no key in the context; the operation that
follows fails.

In `WpKeyMgmt`: sizes, primes and the arithmetic, `wp_*_validate` (it only
computes), `includePublic`, `key.type`, allocation failures, the retries of RSA
generation, and generation contexts used twice (the code keeps nothing between
two generations).  Facts of the code no property speaks of: DH export hands out
the key pair whatever is selected, and `wp_dh_gen_init` puts `bits` and
`generator` back to their defaults after its parameters have set them; RSA
import reads a private exponent also when only the public key is selected; a
first export of an Ed25519 public key writes it into the key.

In `WpAead`: lengths of IVs and tags, and allocation failures; AEAD
contexts have no `dup`.  Facts of the code no property speaks of: `tlsEncRecords` is 0
again after every `wp_aead_tls_init`, so its limit is never met;
`wp_aead_set_param_tag` copies a tag into `buf` before it refuses one for an
encryption; a CCM record with no tag length set computes with
`UNINITIALISED_SIZET`; `wp_aes_gcm_freectx` does not free AAD and data that an
abandoned message left.

In `WpStream`: the `NUM` parameter (kept, and read by no operation), failures of
wolfCrypt, and the length checks of wrapped data.  In `WpDigest`: sizes and flags,
which are constant.  In `WpMac` and `WpKdf`: allocation failures and failures of
wolfCrypt; `wp_mac_sig.c:210` ignores what `set_params` answers, which the model
has.  The KBKDF of the provider knows the feedback mode only; KRB5KDF wants a key
of the length of its cipher, and both are so in the model.  In `WpSignature`,
`WpAsym` and `WpExchange`: lengths of output buffers, signatures as bytes, and
the arithmetic of wolfCrypt but for the reduction of a curve secret.  A first
signature with an Ed25519 private key writes its public half into the shared key
before it takes the mutex (`wp_ecx_sig.c:389`): a race that, here, a signature in
one step does not have.  A DH derivation without a peer reads through a null
pointer, and is not called.

In `WpCodec`: the text encoders (they print), ASN.1 as bytes,
the parameters of the store, certificates and CRLs (passed
on to libcrypto), and allocation failures but for the set-up of the store's
decoders.  The trial with the empty password in
`wp_epki2pki_decode` (`wp_dec_epki2pki.c:222`) is not reached: the only input that
passes the test before it is a PrivateKeyInfo, which is not encrypted.  Facts of the code no
property speaks of: `wp_ecx_encode` never frees its `BIO`, the RSA encoder not its `cipherInfo`; the DH encoders
write sizes into the shared key (`wp_dh_kmgmt.c:2450`, `:2523`); an encoder of
EncryptedPrivateKeyInfo without a cipher passes a null name on
(`wp_internal.c:929`).

No module: `wp_tls_capa.c` (constant tables), `wp_logging.c` (output, and masks
that only it reads), `wp_kdf_kmgmt.c` (a bare reference count), the remaining
conversions of `wp_params.c`.

## Plan

Done: all modules above, and a theorem for every safety property of the runs that
pass.
