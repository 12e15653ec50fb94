---------------------------- MODULE WpBlockCipher ----------------------------
(***************************************************************************)
(* The block cipher contexts of the provider, AES-CBC and AES-ECB of       *)
(* src/wp_aes_block.c and DES3-CBC of src/wp_des.c: how update calls of    *)
(* any size are cut into blocks, what is held back for final, which IV a   *)
(* re-initialised context chains from, and who owns the MAC of a TLS       *)
(* record.                                                                 *)
(*                                                                         *)
(* The bytes of a message are numbered from 1 in the order the caller      *)
(* feeds them; a call is one step, for a context belongs to one thread.    *)
(***************************************************************************)
EXTENDS Naturals, FiniteSets

CONSTANTS
  Ctx,         \* context objects
  Alg,         \* the ciphers in use: some of "AES-CBC", "AES-ECB", "DES3-CBC"
  Iv,          \* IVs a caller passes
  B,           \* AES_BLOCK_SIZE or DES_BLOCK_SIZE
  MaxFed,      \* bound: bytes fed to a context after an init
  MaxCalls     \* bound: the calls the program makes in all

NoIv == "none"
NoMac == 0
Macs == 1 .. Cardinality(Ctx) + 1

ASSUME BlockCipherAssumption ==
  /\ B \in Nat \ {0} /\ MaxFed \in Nat /\ MaxCalls \in Nat
  /\ Alg \subseteq {"AES-CBC", "AES-ECB", "DES3-CBC"} /\ Alg # {}
  /\ IsFiniteSet(Ctx)
  /\ Iv \cap {NoIv, "zero", "chained"} = {}

VARIABLES
  alg,         \* the cipher of the contexts
  ctx,         \* ctx[c]: the fields of wp_AesBlockCtx or wp_Des3BlockCtx
  macs,        \* the MAC buffers allocated and not freed
  calls        \* the calls made

vars == <<alg, ctx, macs, calls>>

(* iv, oiv and reg (the chaining register of wolfCrypt) are an IV, "zero",  *)
(* or "chained": the last block of ciphertext.  fed and done count the      *)
(* bytes of the message that the caller has fed and that have gone through  *)
(* the cipher, wrong remembers that they once went in another order.        *)
Context ==
  [status : {"absent", "new", "ready", "done", "failed"},
   enc : BOOLEAN, pad : BOOLEAN, tls : {"no", "etm", "mac"},
   keyed : BOOLEAN, ivSet : BOOLEAN,
   iv : Iv \cup {"zero", "chained"}, oiv : Iv \cup {"zero"},
   reg : Iv \cup {"zero", "chained"},
   bufSz : 0 .. B, buf : [1 .. B -> Nat],
   mac : Macs \cup {NoMac},
   fed : Nat, done : Nat, wrong : BOOLEAN]

Fresh ==
  [status |-> "absent", enc |-> FALSE, pad |-> TRUE, tls |-> "no",
   keyed |-> FALSE, ivSet |-> FALSE,
   iv |-> "zero", oiv |-> "zero", reg |-> "zero",
   bufSz |-> 0, buf |-> [j \in 1 .. B |-> 0],
   mac |-> NoMac, fed |-> 0, done |-> 0, wrong |-> FALSE]

TypeOK ==
  /\ alg \in Alg /\ ctx \in [Ctx -> Context]
  /\ macs \subseteq Macs /\ calls \in 0 .. MaxCalls

Init ==
  /\ alg \in Alg
  /\ ctx = [c \in Ctx |-> Fresh]
  /\ macs = {} /\ calls = 0

(* A program that uses none of these ciphers. *)
BlockIdle ==
  alg = "none" /\ ctx = [c \in Ctx |-> Fresh] /\ macs = {} /\ calls = 0

Cbc == alg # "AES-ECB"
Streaming(c) == ctx[c].status = "ready" /\ ctx[c].tls = "no"

(* A call that leaves context c as the record d. *)
Becomes(c, d) ==
  /\ calls < MaxCalls /\ calls' = calls + 1
  /\ ctx' = [ctx EXCEPT ![c] = d]
  /\ UNCHANGED alg

------------------------------------------------------------------------------
(* IMPLEMENT_AES_BLOCK_NEWCTX: zeroed memory with padding on. *)
NewCtx(c) ==
  /\ ctx[c].status = "absent" /\ \A d \in Ctx : ctx[d].status = "absent"
  /\ Becomes(c, [Fresh EXCEPT !.status = "new"])
  /\ UNCHANGED macs

FreeCtx(c) ==
  /\ ctx[c].status # "absent"
  /\ Becomes(c, Fresh)
  /\ macs' = macs \ {ctx[c].mac}

DupShallow(c, d) ==
  /\ ctx[c].status # "absent" /\ ctx[d].status = "absent"
  /\ Becomes(d, ctx[c])
  /\ UNCHANGED macs

(* dupctx copies the structure and gives the copy a MAC buffer of its own;  *)
(* without memory for that there is no copy.                                *)
DupCtx(c, d) ==
  /\ ctx[c].status # "absent" /\ ctx[d].status = "absent"
  /\ IF ctx[c].mac = NoMac THEN Becomes(d, ctx[c]) /\ UNCHANGED macs
     ELSE \E m \in Macs \ macs :
            Becomes(d, [ctx[c] EXCEPT !.mac = m]) /\ macs' = macs \cup {m}

(* wp_aes_init_iv, wp_des3_init_iv. *)
SetIv(x, iv) ==
  [x EXCEPT !.ivSet = TRUE, !.iv = iv, !.oiv = iv, !.reg = iv]

RestoreReported(x) == [x EXCEPT !.iv = x.oiv]

(* An init without an IV goes back to the original one: in AES through      *)
(* wp_aes_init_iv, in DES3 by copying ctx->oiv to ctx->iv only.             *)
Restore(x) == IF alg = "DES3-CBC" THEN [x EXCEPT !.iv = x.oiv] ELSE SetIv(x, x.oiv)

WithIv(x, iv) ==
  IF iv # NoIv /\ Cbc THEN SetIv(x, iv)
  ELSE IF Cbc /\ x.ivSet THEN Restore(x) ELSE x

(* wc_AesSetKey is given ctx->iv, wc_Des3_SetKey the caller's IV: without   *)
(* one it zeroes the register.                                              *)
WithKey(x, iv) ==
  [x EXCEPT !.keyed = TRUE,
            !.reg = IF alg # "DES3-CBC" THEN x.iv
                    ELSE IF iv # NoIv THEN iv ELSE "zero"]

Restarted(c, e) ==
  [ctx[c] EXCEPT !.bufSz = 0, !.enc = e, !.fed = 0, !.done = 0, !.wrong = FALSE]

(* wp_aes_block_init, wp_des3_block_init, through einit or dinit. *)
InitCtx(c, key, iv, e) ==
  LET x == WithIv(Restarted(c, e), iv)
      y == IF key THEN WithKey(x, iv) ELSE x
  IN  /\ ctx[c].status # "absent"
      /\ Becomes(c, [y EXCEPT !.status = IF y.keyed THEN "ready" ELSE "new"])
      /\ UNCHANGED macs

(* A wrong IV length, or a wrong key length after the IV has been set. *)
InitFails(c, iv, e) ==
  /\ ctx[c].status # "absent"
  /\ \E x \in {Restarted(c, e), WithIv(Restarted(c, e), iv)} :
       Becomes(c, [x EXCEPT !.status = "failed"])
  /\ UNCHANGED macs

(* set_ctx_params, before any data as EVP asks for. *)
SetCtxParams(c, pad, tls) ==
  /\ ctx[c].status \in {"new", "ready"} /\ ctx[c].fed = 0
  /\ tls # "no" => Cbc
  /\ Becomes(c, [ctx[c] EXCEPT !.pad = pad, !.tls = tls])
  /\ UNCHANGED macs

------------------------------------------------------------------------------
Chain(x) == [x EXCEPT !.iv = IF Cbc THEN "chained" ELSE @,
                      !.reg = IF Cbc THEN "chained" ELSE @]

InOrder(x, n) == \A j \in 1 .. n : x.buf[j] = x.done + j

(* wp_aes_block_doit on the buffer, and on n bytes from position first on. *)
DoBuffer(x) ==
  [Chain(x) EXCEPT !.wrong = @ \/ ~InOrder(x, B), !.done = @ + B, !.bufSz = 0]
DoInput(x, first, n) ==
  IF n = 0 THEN x
  ELSE [Chain(x) EXCEPT !.wrong = @ \/ first # x.done + 1, !.done = @ + n]

CopyToStart(x, at, first, n) ==
  [x EXCEPT !.bufSz = at + n,
            !.buf = [j \in 1 .. B |-> IF j <= n THEN first + j - 1 ELSE x.buf[j]]]

(* XMEMCPY of the n bytes from position first on into buf, at offset at. *)
CopyIn(x, at, first, n) ==
  [x EXCEPT !.bufSz = at + n,
            !.buf = [j \in 1 .. B |-> IF j \in (at + 1) .. (at + n)
                                      THEN first + (j - at) - 1 ELSE x.buf[j]]]

WholeBlocks(n) == n - (n % B)

(* How many of n bytes top up a buffer that is in use. *)
Fill(x, n) == IF x.bufSz = 0 THEN 0 ELSE IF n < B - x.bufSz THEN n ELSE B - x.bufSz

(* TLS encryption pads the record to a whole number of blocks, always. *)
RecordLength(x, n) == IF x.tls # "no" /\ x.enc THEN n + (B - (n % B)) ELSE n

(* Feeding n0 bytes: top up the buffer; put it through when it is full,     *)
(* unless it is the last block (holds) and nothing follows; put the whole   *)
(* blocks that follow through, but not one that may be the last; keep the   *)
(* rest.                                                                    *)
Cut(x, n0, holds) ==
  LET n == RecordLength(x, n0)
      fill == Fill(x, n)
      rest == n - fill
      filled == IF fill = 0 THEN x ELSE CopyIn(x, x.bufSz, x.fed + 1, fill)
      flushed == IF filled.bufSz = B /\ ~(holds /\ rest = 0) THEN DoBuffer(filled) ELSE filled
      whole == WholeBlocks(rest)
      direct == IF holds /\ x.tls = "no" /\ whole > 0 /\ whole = rest THEN whole - B ELSE whole
      through == DoInput(flushed, x.fed + fill + 1, direct)
      tail == rest - direct
      kept == IF tail = 0 THEN through
              ELSE CopyIn(through, 0, x.fed + fill + direct + 1, tail)
  IN  [kept EXCEPT !.fed = @ + n]

(* wp_aes_block_update, wp_des3_block_update: only a decryption that will   *)
(* remove padding holds the last block back for final.                      *)
Updated(x, n) == Cut(x, n, ~x.enc /\ x.pad)

Update(c, n) ==
  /\ Streaming(c) /\ ctx[c].fed + n <= MaxFed
  /\ Becomes(c, Updated(ctx[c], n))
  /\ UNCHANGED macs

(* wolfCrypt fails: the caller has nothing to go on with but a new init. *)
UpdateFails(c) ==
  /\ ctx[c].status = "ready"
  /\ Becomes(c, [ctx[c] EXCEPT !.status = "failed"])
  /\ UNCHANGED macs

(* A TLS record is one update of whole blocks (of any length to encrypt). *)
TlsEncrypt(c, n) ==
  /\ ctx[c].status = "ready" /\ ctx[c].tls # "no" /\ ctx[c].enc
  /\ ctx[c].fed + n + B <= MaxFed
  /\ Becomes(c, Updated(ctx[c], n))
  /\ UNCHANGED macs

(* wp_aes_block_tls_dec_record on what update has decrypted: the MAC of the *)
(* last record is freed, and with a MAC to extract another is allocated,    *)
(* whatever the padding was.                                                *)
TlsMac(c, x, m) ==
  /\ macs' = (macs \ {ctx[c].mac}) \cup {m}
  /\ Becomes(c, [x EXCEPT !.mac = m])

TlsDecrypt(c, n) ==
  LET x == [Updated(ctx[c], n) EXCEPT !.mac = NoMac] IN
  /\ ctx[c].status = "ready" /\ ctx[c].tls # "no" /\ ~ctx[c].enc
  /\ n > 0 /\ n % B = 0 /\ ctx[c].fed + n <= MaxFed
  /\ \/ /\ alg = "AES-CBC" /\ x.tls = "mac"
        /\ \E m \in Macs \ macs, s \in {"ready", "failed"} : TlsMac(c, [x EXCEPT !.status = s], m)
     \/ /\ \E s \in {"ready", "failed"} : Becomes(c, [x EXCEPT !.status = s])
        /\ macs' = macs \ {ctx[c].mac}

FinalOk(c, x) == Becomes(c, [x EXCEPT !.status = "done"]) /\ UNCHANGED macs
FinalRefused(c) == Becomes(c, ctx[c]) /\ UNCHANGED macs

(* wp_aes_block_final_enc: a padded block always follows; without padding   *)
(* an incomplete block is an error, and the context can still be fed.       *)
FinalEnc(c) ==
  LET x == ctx[c] IN
  /\ Streaming(c) /\ x.enc
  /\ IF x.pad THEN FinalOk(c, [Chain(x) EXCEPT !.wrong = @ \/ ~InOrder(x, x.bufSz),
                                               !.done = @ + B, !.bufSz = 0])
     ELSE IF x.bufSz = 0 THEN FinalOk(c, x) ELSE FinalRefused(c)

FinalDecUnchecked(c) ==
  LET x == ctx[c] IN
  /\ Streaming(c) /\ ~x.enc
  /\ FinalOk(c, IF x.bufSz = 0 THEN x ELSE DoBuffer(x))

(* wp_aes_block_final_dec: with padding there must be exactly one block, and *)
(* it must end in valid padding; without, nothing may be left.               *)
FinalDec(c) ==
  LET x == ctx[c] IN
  /\ Streaming(c) /\ ~x.enc
  /\ IF x.bufSz # (IF x.pad THEN B ELSE 0) THEN FinalRefused(c)
     ELSE IF ~x.pad THEN FinalOk(c, x)
     ELSE \/ FinalOk(c, DoBuffer(x))
          \/ /\ Becomes(c, [DoBuffer(x) EXCEPT !.status = "failed", !.bufSz = B])
             /\ UNCHANGED macs

(* wp_aes_block_cipher, EVP_Cipher: whole blocks past the buffer, on a      *)
(* context that is not used for updates that pad.                           *)
Cipher(c, n) ==
  LET x == ctx[c] IN
  /\ Streaming(c) /\ x.bufSz = 0 /\ (x.enc \/ ~x.pad)
  /\ n % B = 0 /\ x.fed + n <= MaxFed
  /\ Becomes(c, [DoInput(x, x.fed + 1, n) EXCEPT !.fed = @ + n])
  /\ UNCHANGED macs

Next ==
  \E c \in Ctx :
    \/ NewCtx(c) \/ FreeCtx(c) \/ \E d \in Ctx : DupCtx(c, d)
    \/ \E iv \in Iv \cup {NoIv}, e \in BOOLEAN :
         InitFails(c, iv, e) \/ \E key \in BOOLEAN : InitCtx(c, key, iv, e)
    \/ \E pad \in BOOLEAN, tls \in {"no", "etm", "mac"} : SetCtxParams(c, pad, tls)
    \/ \E n \in 0 .. MaxFed :
         Update(c, n) \/ TlsEncrypt(c, n) \/ TlsDecrypt(c, n) \/ Cipher(c, n)
    \/ UpdateFails(c) \/ FinalEnc(c) \/ FinalDec(c)

Spec == Init /\ [][Next]_vars

------------------------------------------------------------------------------
(* However the caller cuts a message into updates, its bytes go through the  *)
(* cipher once each and in order, and the buffer holds those that follow.    *)
BytesInOrder ==
  \A c \in Ctx : ctx[c].status = "ready" =>
    /\ ~ctx[c].wrong
    /\ ctx[c].done + ctx[c].bufSz = ctx[c].fed
    /\ InOrder(ctx[c], ctx[c].bufSz)

(* A decryption that will remove padding always has the last block left for  *)
(* final; every other context has given out every block it can.              *)
HoldsLastBlock ==
  \A c \in Ctx : Streaming(c) =>
    IF ~ctx[c].enc /\ ctx[c].pad THEN ctx[c].fed > 0 => ctx[c].bufSz > 0
    ELSE ctx[c].bufSz < B

(* When final succeeds the message is whole: nothing is left in the buffer,  *)
(* and only a padded encryption puts out more than was fed, by 1 to B bytes. *)
FinalIsWhole ==
  \A c \in Ctx : LET x == ctx[c] IN
    x.status = "done" =>
      /\ ~x.wrong /\ x.bufSz = 0 /\ x.done % B = 0
      /\ IF x.enc /\ x.pad THEN x.done - x.fed \in 1 .. B ELSE x.done = x.fed
      /\ ~x.enc /\ x.pad => x.done > 0

(* The last block of a message goes through in final and nowhere else.       *)
LastBlockInFinal == HoldsLastBlock /\ FinalIsWhole

(* The IV a context reports (ctx->iv, "Current IV") is the one the next      *)
(* block is chained with: after an init without an IV, the original one.     *)
IvInUse == \A c \in Ctx : ctx[c].status = "ready" /\ Cbc => ctx[c].iv = ctx[c].reg
AesIvInUse == alg # "DES3-CBC" => IvInUse

(* Every context owns its MAC buffer alone, and no buffer is left without an *)
(* owner: none is freed twice, whichever contexts are copied and freed.      *)
MacOwned ==
  /\ macs = {ctx[c].mac : c \in Ctx} \ {NoMac}
  /\ \A c, d \in Ctx : c # d /\ ctx[c].mac # NoMac => ctx[c].mac # ctx[d].mac
==============================================================================
