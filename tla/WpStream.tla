------------------------------ MODULE WpStream ------------------------------
(***************************************************************************)
(* AES-CTR, AES-CFB and AES-CTS contexts (wp_aes_stream.c) and AES key     *)
(* wrap (wp_aes_wrap.c).                                                   *)
(*                                                                         *)
(* Data is a sequence of units, Block of them in a cipher block.  In CTR   *)
(* and CFB what the cipher adds to a unit is named by the key, the IV and  *)
(* the place of the unit after it.  In CTS a unit is the set of what has   *)
(* been added up in it (so adding twice takes away), and the cipher turns  *)
(* a block into units that name the key and the block.                     *)
(***************************************************************************)
EXTENDS Integers, Sequences

CONSTANTS
  Streams,       \* modes looked at
  StreamCtxs,    \* contexts of one program
  Block,         \* units of a cipher block
  ChunkBlocks,   \* blocks in the longest input of wolfCrypt, 0xFFFFFFF0 bytes
  Lengths,       \* units of one call
  MaxPlace,      \* bound: units of a message of CTR and CFB
  MaxChain,      \* bound: messages of CTS from one IV
  StreamHabits   \* what programs do beyond the plain protocol

StreamHabit == {"one_block", "apart", "turn", "cfb_again", "wrap_iv"}
ASSUME StreamAssumption ==
  /\ Streams \subseteq {"ctr", "cfb", "cts", "wrap"} /\ Block \in Nat \ {0, 1}
  /\ ChunkBlocks \in Nat \ {0} /\ Lengths \subseteq Nat /\ MaxPlace \in Nat /\ MaxChain \in Nat
  /\ StreamHabits \subseteq StreamHabit

VARIABLES
  stream,   \* the mode
  sctx,     \* [StreamCtxs -> wp_AesStreamCtx or wp_AesWrapCtx]
  want,     \* [StreamCtxs -> what the program means]
  outcome   \* what the last call gave, and was to give

streamVars == <<stream, sctx, want, outcome>>

(* The cipher on blocks.  An object keyed for one direction does the other   *)
(* one wrong.                                                                *)
Zero == [j \in 1 .. Block |-> {}]
XorUnit(a, b) == (a \ b) \cup (b \ a)
Xor(x, y) == [j \in 1 .. Block |-> XorUnit(x[j], y[j])]
Through(how, key, x) == [j \in 1 .. Block |-> {<<how, key, x, j>>}]
Encrypt(k, x) == Through(IF k.dir = "enc" THEN "E" ELSE "wrong", k.key, x)
MadeFrom(key, y) == Through("E", key, y)
Source(x) == (CHOOSE a \in x[1] : TRUE)[3]
Decrypt(k, x) ==
  IF k.dir # "dec" THEN Through("wrong", k.key, x)
  ELSE IF x[1] # {} /\ x = MadeFrom(k.key, Source(x)) THEN Source(x)
  ELSE Through("D", k.key, x)

(* CBC over whole blocks from reg: [out, reg]. *)
BlockOf(s, i) == SubSeq(s, ((i - 1) * Block) + 1, i * Block)
CbcEncrypt(k, reg, s) ==
  LET n == Len(s) \div Block
      at[i \in 0 .. n] ==
        IF i = 0 THEN [out |-> <<>>, reg |-> reg]
        ELSE LET c == Encrypt(k, Xor(BlockOf(s, i), at[i - 1].reg))
             IN [out |-> at[i - 1].out \o c, reg |-> c]
  IN at[n]
CbcDecrypt(k, reg, s) ==
  LET n == Len(s) \div Block
      at[i \in 0 .. n] ==
        IF i = 0 THEN [out |-> <<>>, reg |-> reg]
        ELSE [out |-> at[i - 1].out \o Xor(Decrypt(k, BlockOf(s, i)), at[i - 1].reg),
              reg |-> BlockOf(s, i)]
  IN at[n]

------------------------------------------------------------------------------
(* An IV: in CTR and CFB where one is, with the blocks made from it.         *)
IvOf(name) ==
  CASE stream = "cts" -> IF name = "" THEN Zero ELSE Through("iv", name, <<>>)
    [] stream = "wrap" -> name
    [] OTHER -> [name |-> name, n |-> 0]
Aes0 == [key |-> "", dir |-> "", reg |-> IvOf(""), left |-> 0]
CtxOf0 == [made |-> FALSE, enc |-> TRUE, iv |-> IvOf(""), oiv |-> IvOf(""), ivSet |-> FALSE,
           aes |-> Aes0, updated |-> FALSE]
Want0 == [key |-> "", enc |-> TRUE, iv |-> IvOf(""), oiv |-> IvOf(""), place |-> 0, done |-> FALSE,
          chain |-> 0]
NoResult == [got |-> <<>>, due |-> <<>>]

StreamInit ==
  /\ stream \in Streams
  /\ sctx = [s \in StreamCtxs |-> CtxOf0] /\ want = [s \in StreamCtxs |-> Want0]
  /\ outcome = NoResult
StreamIdle == stream = "none" /\ sctx = <<>> /\ want = <<>> /\ outcome = NoResult

------------------------------------------------------------------------------
(* Initialization: what is given is set.  A key sets the IV of the AES       *)
(* object, too, or clears it; without a key what is left of a block goes.    *)
InitIv(c, iv) == IF iv = "" THEN c ELSE [c EXCEPT !.iv = IvOf(iv), !.oiv = IvOf(iv)]
InitKeepsLeft(c, key, iv, enc) ==
  LET c1 == InitIv([c EXCEPT !.enc = enc], iv)
      dir == IF stream = "cts" /\ ~enc THEN "dec" ELSE "enc"
  IN [c1 EXCEPT !.aes = IF key = "" THEN @
                        ELSE [key |-> key, dir |-> dir, reg |-> IvOf(iv), left |-> 0],
                !.updated = FALSE]
InitStream(c, key, iv, enc) ==
  LET c1 == InitIv([c EXCEPT !.enc = enc], iv)
      dir == IF stream = "cts" /\ ~enc THEN "dec" ELSE "enc"
  IN [c1 EXCEPT !.aes = IF key = "" THEN [@ EXCEPT !.left = 0]
                        ELSE [key |-> key, dir |-> dir, reg |-> IvOf(iv), left |-> 0],
                !.updated = FALSE]

(* The IV of a wrap is kept; that it is set is not. *)
InitWrap(c, key, iv, enc) ==
  LET c1 == IF iv = "" THEN c ELSE [c EXCEPT !.iv = iv]
  IN [c1 EXCEPT !.enc = enc,
                !.aes = IF key = "" THEN @
                        ELSE [key |-> key, dir |-> IF enc THEN "enc" ELSE "dec",
                              reg |-> iv, left |-> 0]]

(* The CTS mode can be set to the one there is, once the rest has been. *)
StreamParams(c, params) == ~(stream = "cts" /\ params = "CS1")

------------------------------------------------------------------------------
(* CTR and CFB: the object works on from its register and what is left of    *)
(* the last block, in chunks of whole blocks.                                *)
KeyUnit(k, reg, place) == <<k, reg.name, place>>
Keystream(obj, n) ==
  LET start == (obj.reg.n * Block) - obj.left
      end == start + n
      blocks == (end + Block - 1) \div Block
  IN [out |-> [i \in 1 .. n |-> KeyUnit(obj.key, obj.reg, start + i - 1)],
      aes |-> [obj EXCEPT !.reg.n = blocks, !.left = (blocks * Block) - end]]

ByChunks(obj, n) ==
  LET most == ChunkBlocks * Block
      at[k \in 0 .. (n + most - 1) \div most] ==
        IF k = 0 THEN [out |-> <<>>, aes |-> obj]
        ELSE LET r == Keystream(at[k - 1].aes, IF k * most < n THEN most ELSE n - ((k - 1) * most))
             IN [out |-> at[k - 1].out \o r.out, aes |-> r.aes]
  IN at[(n + most - 1) \div most]

DoitKeystream(c, n) ==
  LET r == ByChunks([c.aes EXCEPT !.reg = c.iv], n)
  IN [ok |-> TRUE, out |-> r.out, c |-> [c EXCEPT !.aes = r.aes, !.iv = r.aes.reg]]

(* CTS.  The last two blocks, the last of which need not be whole, are done  *)
(* together after the others.                                                *)
Padded(s) == s \o [j \in 1 .. (2 * Block) - Len(s) |-> {}]
Others(n) == ((n + Block - 1) \div Block) - 2

CtsEncrypt(c, in) ==
  LET blocks == Others(Len(in))
      most == IF blocks > 0 THEN blocks * Block ELSE 0
      first == IF blocks > 0 THEN CbcEncrypt(c.aes, c.iv, SubSeq(in, 1, most))
               ELSE [out |-> <<>>, reg |-> c.aes.reg]
      rest == SubSeq(in, most + 1, Len(in))
      pair == CbcEncrypt(c.aes, first.reg, Padded(rest))
  IN [ok |-> TRUE,
      out |-> first.out \o BlockOf(pair.out, 2) \o SubSeq(pair.out, 1, Len(rest) - Block),
      c |-> [c EXCEPT !.iv = pair.reg, !.aes.reg = pair.reg]]

CtsDecrypt(c, in) ==
  LET blocks == Others(Len(in))
      most == IF blocks > 0 THEN blocks * Block ELSE 0
      first == IF blocks > 0 THEN CbcDecrypt(c.aes, c.iv, SubSeq(in, 1, most))
               ELSE [out |-> <<>>, reg |-> c.iv]
      rest == SubSeq(in, most + 1, Len(in))
      partial == IF Len(in) % Block = 0 THEN Block ELSE Len(in) % Block
      two == Padded(rest)
      tmp == Xor(Decrypt(c.aes, BlockOf(two, 1)), BlockOf(two, 2))
      full == SubSeq(two, 1, Len(rest)) \o SubSeq(tmp, partial + 1, Block) \o Zero
      last == Xor(Decrypt(c.aes, BlockOf(full, 2)), first.reg)
  IN [ok |-> TRUE,
      out |-> SubSeq(first.out \o last \o SubSeq(tmp, 1, partial), 1, Len(in)),
      c |-> [c EXCEPT !.iv = BlockOf(two, 1), !.aes.reg = BlockOf(full, 2)]]

(* One call a message. *)
DoitCts(c, in) ==
  IF c.updated \/ Len(in) < Block THEN [ok |-> FALSE, out |-> <<>>, c |-> c]
  ELSE LET r == IF c.enc THEN CtsEncrypt(c, in) ELSE CtsDecrypt(c, in)
       IN [r EXCEPT !.c.updated = TRUE]

(* Key wrap: the IV, when it is set, or the one of the algorithm; at least   *)
(* two half blocks.  Wrapped data is what it was made with.                  *)
WrapUpdate(c, in) ==
  LET iv == IF c.ivSet THEN c.iv ELSE "default"
  IN IF c.enc THEN <<"wrapped", c.aes.key, c.aes.dir, iv>>
     ELSE IF in = <<"wrapped", c.aes.key, "enc", iv>> /\ c.aes.dir = "dec" THEN <<"unwrapped">>
     ELSE <<"refused">>

------------------------------------------------------------------------------
(* CS3 as it is defined, for more than a block and for one.                  *)
Message(n) == [i \in 1 .. n |-> {<<"m", "", <<>>, i>>}]
Cs3(key, iv, n) ==
  LET m == (n + Block - 1) \div Block
      cbc == CbcEncrypt([key |-> key, dir |-> "enc"], iv,
                        Message(n) \o [j \in 1 .. (m * Block) - n |-> {}])
  IN [reg |-> cbc.reg,
      out |-> IF m = 1 THEN cbc.out
              ELSE SubSeq(cbc.out, 1, (m - 2) * Block) \o BlockOf(cbc.out, m)
                     \o SubSeq(BlockOf(cbc.out, m - 1), 1, n - ((m - 1) * Block))]

------------------------------------------------------------------------------
(* The calls of a plain program: the first gives a key; a context of CTS or  *)
(* wrap is turned with a key, and CTS gets its key and IV in one call or     *)
(* goes on from the last message; CFB gets an IV every time; a wrap none.    *)
PlainStream(s, key, iv, enc) ==
  LET w == want[s]
  IN /\ key # "" \/ w.key # ""
     /\ stream \in {"cts", "wrap"} /\ key = "" /\ enc # w.enc => "turn" \in StreamHabits
     /\ stream = "cts" /\ ~(key # "" /\ (iv # "" \/ w.key = "")) /\ ~(key = "" /\ iv = "") =>
          "apart" \in StreamHabits
     /\ stream = "cfb" /\ w.place > 0 /\ iv = "" => "cfb_again" \in StreamHabits
     /\ stream = "wrap" /\ iv # "" => "wrap_iv" \in StreamHabits

Wanting(w, key, iv, enc) ==
  LET from == IF iv # "" THEN IvOf(iv) ELSE IF stream = "cfb" THEN w.oiv ELSE w.iv
  IN [w EXCEPT !.key = IF key = "" THEN @ ELSE key, !.enc = enc, !.iv = from,
               !.oiv = IF iv = "" THEN @ ELSE from,
               !.place = CASE iv # "" \/ stream = "cfb" -> 0
                           [] OTHER -> ((@ + Block - 1) \div Block) * Block,
               !.done = FALSE, !.chain = IF iv = "" THEN @ ELSE 0]

Initialize(s, key, iv, enc, params) ==
  /\ PlainStream(s, key, iv, enc)
  /\ LET c == [sctx[s] EXCEPT !.made = TRUE]
         r == IF stream = "wrap" THEN InitWrap(c, key, iv, enc) ELSE InitStream(c, key, iv, enc)
         ok == StreamParams(r, params)
     IN /\ sctx' = [sctx EXCEPT ![s] = IF ok THEN r ELSE CtxOf0]
        /\ want' = [want EXCEPT ![s] = IF ok THEN Wanting(@, key, iv, enc) ELSE Want0]
  /\ outcome' = NoResult /\ UNCHANGED stream

UpdateKeystream(s, n) ==
  /\ stream \in {"ctr", "cfb"} /\ want[s].key # "" /\ want[s].place + n <= MaxPlace
  /\ LET w == want[s]
         r == DoitKeystream(sctx[s], n)
     IN /\ sctx' = [sctx EXCEPT ![s] = r.c]
        /\ want' = [want EXCEPT ![s].place = @ + n]
        /\ outcome' = [got |-> r.out,
                      due |-> [i \in 1 .. n |-> KeyUnit(w.key, w.oiv, w.place + i - 1)]]
  /\ UNCHANGED stream

(* What is decrypted is what the definition makes. *)
UpdateCts(s, n) ==
  /\ stream = "cts" /\ want[s].key # "" /\ want[s].chain < MaxChain
  /\ (n = Block => "one_block" \in StreamHabits)
  /\ LET w == want[s]
         made == Cs3(w.key, w.iv, n)
         r == DoitCts(sctx[s], IF w.enc \/ n < Block THEN Message(n) ELSE made.out)
         due == IF w.done \/ n < Block THEN <<>>
                ELSE <<IF w.enc THEN made.out ELSE Message(n), made.reg>>
     IN /\ sctx' = [sctx EXCEPT ![s] = r.c]
        /\ want' = [want EXCEPT ![s] = IF due = <<>> THEN @
                                       ELSE [w EXCEPT !.done = TRUE, !.iv = made.reg,
                                                      !.chain = w.chain + 1]]
        /\ outcome' = [got |-> IF r.ok THEN <<r.out, r.c.iv>> ELSE <<>>, due |-> due]
  /\ UNCHANGED stream

Wrapped(w) == <<"wrapped", w.key, "enc", IF w.iv = "" THEN "default" ELSE w.iv>>
UpdateWrap(s, in) ==
  /\ stream = "wrap" /\ want[s].key # ""
  /\ LET w == want[s]
     IN outcome' = [got |-> WrapUpdate(sctx[s], in),
                   due |-> IF w.enc THEN Wrapped(w)
                           ELSE IF in = Wrapped(w) THEN <<"unwrapped">> ELSE <<"refused">>]
  /\ UNCHANGED <<stream, sctx, want>>

(* dupctx copies all there is. *)
CopyStream(s, to) ==
  /\ sctx[s].made /\ ~sctx[to].made
  /\ sctx' = [sctx EXCEPT ![to] = sctx[s]] /\ want' = [want EXCEPT ![to] = want[s]]
  /\ outcome' = NoResult /\ UNCHANGED stream
FreeStream(s) ==
  /\ sctx[s].made
  /\ sctx' = [sctx EXCEPT ![s] = CtxOf0] /\ want' = [want EXCEPT ![s] = Want0]
  /\ outcome' = NoResult /\ UNCHANGED stream

Ivs == {"", "iv1"}
StreamNext ==
  \E s \in DOMAIN sctx :
    \/ \E key \in {"", "k1", "k2"}, iv \in Ivs, enc \in BOOLEAN, params \in {"none", "CS1"} :
         Initialize(s, key, iv, enc, params)
    \/ \E n \in Lengths : UpdateKeystream(s, n) \/ UpdateCts(s, n)
    \/ \E key \in {"k1", "k2"}, iv \in {"default", "iv1"} :
         UpdateWrap(s, <<"wrapped", key, "enc", iv>>)
    \/ \E to \in DOMAIN sctx : CopyStream(s, to)
    \/ FreeStream(s)
StreamSpec == StreamInit /\ [][StreamNext]_streamVars

------------------------------------------------------------------------------
(* Every call gives what the mode is defined to give for the key and the IV  *)
(* the program set, at the place in the message the earlier calls have       *)
(* reached, and in CTS the IV of the next message with it.                   *)
ResultAsDefined == outcome.got = outcome.due
=============================================================================
