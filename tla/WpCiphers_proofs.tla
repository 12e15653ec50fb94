--------------------------- MODULE WpCiphers_proofs ---------------------------
(***************************************************************************)
(* What holds of the cipher contexts.                                      *)
(*                                                                         *)
(* Block ciphers, for any block size, any messages cut in any way and any  *)
(* contexts: the bytes go through in order, the last block in final, the   *)
(* IV reported is the one in use, and every MAC has one owner.             *)
(*                                                                         *)
(* AES-GCM and AES-CCM, through any number of messages and TLS records of  *)
(* any length, in either build of GCM: every record goes out with its own  *)
(* IV and AAD; no generated IV comes back; and, for programs that ask of   *)
(* each build what it stands, every tag and every piece of output is of    *)
(* the message it belongs to, and every answer is the one due.             *)
(*                                                                         *)
(* The stream modes, for any block size, message length and chunk size:    *)
(* CTR, CFB and CTS give the bytes of their definitions, CTS takes back    *)
(* what it gave, and a wrap is taken back under its own key alone.         *)
(***************************************************************************)
EXTENDS WpBlockCipher, WpAead, WpStream, Integers, SequenceTheorems, WellFoundedInduction,
        TLAPS


(* The bytes of a context that is fed: none went through out of order, and  *)
(* the buffer holds those that follow whole blocks.                         *)
Ordered(x) ==
  /\ ~x.wrong /\ x.done + x.bufSz = x.fed /\ x.done % B = 0
  /\ InOrder(x, x.bufSz)

(* What a context holds back, and what one has given out in the end. *)
HoldsLast(x) ==
  IF ~x.enc /\ x.pad THEN x.fed > 0 => x.bufSz > 0 ELSE x.bufSz < B

IsWhole(x) ==
  /\ ~x.wrong /\ x.bufSz = 0 /\ x.done % B = 0
  /\ IF x.enc /\ x.pad THEN x.done - x.fed \in 1 .. B ELSE x.done = x.fed
  /\ ~x.enc /\ x.pad => x.done > 0

Good(x) ==
  /\ x \in Context
  /\ x.status = "absent" => x.mac = NoMac
  /\ alg # "DES3-CBC" => x.iv = x.reg
  /\ x.status = "ready" => Ordered(x)
  /\ x.status = "ready" /\ x.tls = "no" => HoldsLast(x)
  /\ x.status = "done" => IsWhole(x)

IInv ==
  /\ TypeOK
  /\ \A c \in Ctx : Good(ctx[c])
  /\ MacOwned

(* y is x but for its bytes, and for the IV that they are chained with. *)
SameButBytes(x, y) ==
  /\ y.status = x.status /\ y.enc = x.enc /\ y.pad = x.pad /\ y.tls = x.tls
  /\ y.keyed = x.keyed /\ y.ivSet = x.ivSet /\ y.oiv = x.oiv /\ y.mac = x.mac
  /\ x.iv = x.reg => y.iv = y.reg

------------------------------------------------------------------------------
(* Whole blocks. *)
LEMMA Division ==
  ASSUME NEW n \in Nat
  PROVE  /\ n % B \in 0 .. B - 1 /\ n % B <= n
         /\ n \div B \in Nat /\ n = B * (n \div B) + (n % B)
BY BlockCipherAssumption

LEMMA Multiple ==
  ASSUME NEW q \in Int
  PROVE  (B * q) % B = 0
BY BlockCipherAssumption

LEMMA SumOfWhole ==
  ASSUME NEW m \in Nat, NEW n \in Nat, m % B = 0, n % B = 0
  PROVE  (m + n) % B = 0
<1> DEFINE a == m \div B
           b == n \div B
<1>1. m = B * a /\ a \in Nat
  BY Division, BlockCipherAssumption
<1>2. n = B * b /\ b \in Nat
  BY Division, BlockCipherAssumption
<1>3. B * (a + b) = m + n /\ a + b \in Int
  BY <1>1, <1>2, BlockCipherAssumption
<1> QED BY <1>3, Multiple

LEMMA BlockIsWhole == B % B = 0
<1>1. B * 1 = B
  BY BlockCipherAssumption
<1> QED BY <1>1, Multiple

LEMMA Whole ==
  ASSUME NEW n \in Nat
  PROVE  /\ WholeBlocks(n) \in Nat /\ WholeBlocks(n) % B = 0
         /\ WholeBlocks(n) <= n /\ n < WholeBlocks(n) + B
         /\ WholeBlocks(n) > 0 =>
              /\ WholeBlocks(n) - B \in Nat
              /\ (WholeBlocks(n) - B) % B = 0
<1> DEFINE a == n \div B
<1>1. n = B * a + (n % B) /\ a \in Nat /\ n % B \in 0 .. B - 1
  BY Division, BlockCipherAssumption
<1>2. WholeBlocks(n) = B * a
  BY <1>1, BlockCipherAssumption DEF WholeBlocks
<1>3. (B * a) % B = 0 /\ B * a \in Nat
  BY <1>1, Multiple, BlockCipherAssumption
<1>4. ASSUME B * a > 0
      PROVE  B * a - B \in Nat /\ (B * a - B) % B = 0
  <2>1. a # 0
    BY <1>4, BlockCipherAssumption
  <2>2. a - 1 \in Nat
    BY <1>1, <2>1
  <2>3. B * (a - 1) = B * a - B /\ B * (a - 1) \in Nat
    BY <1>1, <2>2, BlockCipherAssumption
  <2> QED BY <2>2, <2>3, Multiple
<1> QED BY <1>1, <1>2, <1>3, <1>4, BlockCipherAssumption

------------------------------------------------------------------------------
(* The steps of an update. *)
LEMMA ChainKeeps ==
  ASSUME NEW x \in Context
  PROVE  /\ Chain(x) \in Context /\ SameButBytes(x, Chain(x))
         /\ Chain(x).bufSz = x.bufSz /\ Chain(x).buf = x.buf
         /\ Chain(x).fed = x.fed /\ Chain(x).done = x.done /\ Chain(x).wrong = x.wrong
<1>1. CASE Cbc
  <2>1. Chain(x) = [x EXCEPT !.iv = "chained", !.reg = "chained"]
    BY <1>1 DEF Chain
  <2> QED BY <2>1 DEF Context, SameButBytes
<1>2. CASE ~Cbc
  <2>1. Chain(x) = [x EXCEPT !.iv = x.iv, !.reg = x.reg]
    BY <1>2 DEF Chain
  <2> QED BY <2>1 DEF Context, SameButBytes
<1> QED BY <1>1, <1>2

MovedTo(x, w, d, s) == [x EXCEPT !.wrong = w, !.done = d, !.bufSz = s]

LEMMA Moved ==
  ASSUME NEW x \in Context, NEW w \in BOOLEAN, NEW d \in Nat, NEW s \in 0 .. B
  PROVE  LET y == MovedTo(x, w, d, s) IN
         /\ y \in Context /\ SameButBytes(x, y)
         /\ y.bufSz = s /\ y.buf = x.buf /\ y.fed = x.fed /\ y.done = d /\ y.wrong = w
BY DEF MovedTo, Context, SameButBytes

FedTo(x, n) == [x EXCEPT !.fed = n]

LEMMA Fed ==
  ASSUME NEW x \in Context, NEW n \in Nat
  PROVE  LET y == FedTo(x, n) IN
         /\ y \in Context /\ SameButBytes(x, y)
         /\ y.bufSz = x.bufSz /\ y.buf = x.buf /\ y.fed = n
         /\ y.done = x.done /\ y.wrong = x.wrong
BY DEF FedTo, Context, SameButBytes

LEMMA BufferGoesThrough ==
  ASSUME NEW x \in Context
  PROVE  LET y == DoBuffer(x) IN
         /\ y \in Context /\ SameButBytes(x, y)
         /\ y.bufSz = 0 /\ y.buf = x.buf /\ y.fed = x.fed /\ y.done = x.done + B
         /\ InOrder(x, B) => y.wrong = x.wrong
<1> DEFINE z == Chain(x)
           w == z.wrong \/ ~InOrder(x, B)
<1>1. /\ z \in Context /\ SameButBytes(x, z)
      /\ z.bufSz = x.bufSz /\ z.buf = x.buf
      /\ z.fed = x.fed /\ z.done = x.done /\ z.wrong = x.wrong
  BY ChainKeeps
<1>2. DoBuffer(x) = MovedTo(z, w, z.done + B, 0)
  BY DEF DoBuffer, MovedTo
<1>3. w \in BOOLEAN /\ z.done + B \in Nat /\ 0 \in 0 .. B
  BY <1>1, BlockCipherAssumption DEF Context, InOrder
<1>4. InOrder(x, B) => w = x.wrong
  BY <1>1 DEF Context
<1> DEFINE y == DoBuffer(x)
<1> HIDE DEF z, w, y
<1>5. /\ y \in Context /\ SameButBytes(z, y)
      /\ y.bufSz = 0 /\ y.buf = z.buf /\ y.fed = z.fed
      /\ y.done = z.done + B /\ y.wrong = w
  BY <1>1, <1>2, <1>3, Moved DEF y
<1> QED BY <1>1, <1>4, <1>5 DEF SameButBytes, y

LEMMA InputGoesThrough ==
  ASSUME NEW x \in Context, NEW first \in Nat, NEW n \in Nat
  PROVE  LET y == DoInput(x, first, n) IN
         /\ y \in Context /\ SameButBytes(x, y)
         /\ y.bufSz = x.bufSz /\ y.buf = x.buf /\ y.fed = x.fed /\ y.done = x.done + n
         /\ n = 0 \/ first = x.done + 1 => y.wrong = x.wrong
<1>1. CASE n = 0
  BY <1>1 DEF DoInput, SameButBytes, Context
<1>2. CASE n # 0
  <2> DEFINE z == Chain(x)
             w == z.wrong \/ first # x.done + 1
  <2>1. /\ z \in Context /\ SameButBytes(x, z)
        /\ z.bufSz = x.bufSz /\ z.buf = x.buf
        /\ z.fed = x.fed /\ z.done = x.done /\ z.wrong = x.wrong
    BY ChainKeeps
  <2>2. DoInput(x, first, n) = MovedTo(z, w, z.done + n, z.bufSz)
    BY <1>2, <2>1 DEF DoInput, MovedTo, Context
  <2>3. w \in BOOLEAN /\ z.done + n \in Nat /\ z.bufSz \in 0 .. B
    BY <2>1 DEF Context
  <2>4. first = x.done + 1 => w = x.wrong
    BY <2>1 DEF Context
  <2> DEFINE y == DoInput(x, first, n)
  <2> HIDE DEF z, w, y
  <2>5. /\ y \in Context /\ SameButBytes(z, y)
        /\ y.bufSz = z.bufSz /\ y.buf = z.buf /\ y.fed = z.fed
        /\ y.done = z.done + n /\ y.wrong = w
    BY <2>1, <2>2, <2>3, Moved DEF y
  <2> QED BY <1>2, <2>1, <2>4, <2>5 DEF SameButBytes, y
<1> QED BY <1>1, <1>2

LEMMA BytesCopied ==
  ASSUME NEW x \in Context, NEW at \in 0 .. B, NEW n \in Nat, NEW first \in Nat \ {0},
         at + n <= B
  PROVE  LET y == CopyIn(x, at, first, n) IN
         /\ y \in Context /\ SameButBytes(x, y)
         /\ y.bufSz = at + n /\ y.fed = x.fed /\ y.done = x.done /\ y.wrong = x.wrong
         /\ InOrder(x, at) /\ first = x.done + at + 1 => InOrder(y, at + n)
<1> DEFINE b == [j \in 1 .. B |-> IF j \in (at + 1) .. (at + n)
                                  THEN first + (j - at) - 1 ELSE x.buf[j]]
           y == [x EXCEPT !.bufSz = at + n, !.buf = b]
<1>1. CopyIn(x, at, first, n) = y
  BY DEF CopyIn
<1>2. b \in [1 .. B -> Nat]
  BY BlockCipherAssumption DEF Context
<1>3. at + n \in 0 .. B
  BY BlockCipherAssumption
<1>4. ASSUME InOrder(x, at), first = x.done + at + 1
      PROVE  \A j \in 1 .. (at + n) : b[j] = x.done + j
  BY <1>4, BlockCipherAssumption DEF InOrder, Context
<1> HIDE DEF b
<1>5. /\ y \in Context /\ SameButBytes(x, y)
      /\ y.bufSz = at + n /\ y.fed = x.fed /\ y.done = x.done /\ y.wrong = x.wrong
      /\ y.buf = b
  BY <1>2, <1>3 DEF Context, SameButBytes
<1>6. InOrder(x, at) /\ first = x.done + at + 1 => InOrder(y, at + n)
  BY <1>4, <1>5 DEF InOrder
<1> HIDE DEF y
<1> QED BY <1>1, <1>5, <1>6

------------------------------------------------------------------------------
(* An update: the bytes stay in order, and what is held back is what final  *)
(* needs.                                                                   *)
LEMMA CutKeeps ==
  ASSUME NEW x \in Context, NEW n0 \in Nat, NEW holds \in BOOLEAN
  PROVE  LET y == Cut(x, n0, holds) IN
         /\ y \in Context /\ SameButBytes(x, y)
         /\ Ordered(x) => Ordered(y)
         /\ Ordered(x) /\ x.tls = "no" /\ holds = (~x.enc /\ x.pad) /\ HoldsLast(x)
              => HoldsLast(y)
<1> DEFINE n == RecordLength(x, n0)
           fill == Fill(x, n)
           rest == n - fill
           filled == IF fill = 0 THEN x ELSE CopyIn(x, x.bufSz, x.fed + 1, fill)
           flushed == IF filled.bufSz = B /\ ~(holds /\ rest = 0)
                      THEN DoBuffer(filled) ELSE filled
           whole == WholeBlocks(rest)
           direct == IF holds /\ x.tls = "no" /\ whole > 0 /\ whole = rest
                     THEN whole - B ELSE whole
           through == DoInput(flushed, x.fed + fill + 1, direct)
           tail == rest - direct
           kept == IF tail = 0 THEN through
                   ELSE CopyIn(through, 0, x.fed + fill + direct + 1, tail)
           y == Cut(x, n0, holds)
<1>0. y = FedTo(kept, kept.fed + n)
  BY DEF Cut, FedTo
<1>1. n \in Nat
  BY Division, BlockCipherAssumption DEF RecordLength
<1>2. x.bufSz \in 0 .. B /\ x.fed \in Nat /\ x.done \in Nat /\ B \in Nat /\ B > 0
  BY BlockCipherAssumption DEF Context
<1> HIDE DEF n
<1>3. /\ fill \in Nat /\ x.bufSz + fill <= B /\ rest \in Nat
      /\ rest > 0 => (x.bufSz = 0 /\ fill = 0) \/ x.bufSz + fill = B
      /\ n > 0 /\ fill = 0 => x.bufSz = 0 \/ x.bufSz = B
  BY <1>1, <1>2 DEF Fill
<1> HIDE DEF fill, rest
<1>4. /\ filled \in Context /\ SameButBytes(x, filled)
      /\ filled.bufSz = x.bufSz + fill /\ filled.fed = x.fed
      /\ filled.done = x.done /\ filled.wrong = x.wrong
      /\ Ordered(x) => InOrder(filled, filled.bufSz)
  <2>1. CASE fill = 0
    BY <2>1, <1>2, <1>3 DEF SameButBytes, Ordered
  <2>2. CASE fill # 0
    <3> DEFINE f == x.fed + 1
               z == CopyIn(x, x.bufSz, f, fill)
    <3>1. filled = z /\ f \in Nat \ {0}
      BY <2>2, <1>2
    <3>2. Ordered(x) => InOrder(x, x.bufSz) /\ f = x.done + x.bufSz + 1
      BY <1>2 DEF Ordered
    <3>4. x.bufSz \in 0 .. B /\ fill \in Nat /\ x.bufSz + fill <= B
      BY <1>2, <1>3
    <3> HIDE DEF f, filled
    <3>3. /\ z \in Context /\ SameButBytes(x, z)
          /\ z.bufSz = x.bufSz + fill /\ z.fed = x.fed
          /\ z.done = x.done /\ z.wrong = x.wrong
          /\ InOrder(x, x.bufSz) /\ f = x.done + x.bufSz + 1
               => InOrder(z, x.bufSz + fill)
      BY <3>1, <3>4, BytesCopied
    <3> HIDE DEF z
    <3> QED BY <3>1, <3>2, <3>3
  <2> QED BY <2>1, <2>2
<1> HIDE DEF filled
<1>5. /\ flushed \in Context /\ SameButBytes(x, flushed)
      /\ flushed.fed = x.fed
      /\ rest > 0 => flushed.bufSz = 0
      /\ Ordered(x) =>
           /\ ~flushed.wrong /\ flushed.done % B = 0
           /\ flushed.done + flushed.bufSz = x.fed + fill
           /\ InOrder(flushed, flushed.bufSz)
      /\ IF x.bufSz + fill = B /\ ~(holds /\ rest = 0)
         THEN flushed.bufSz = 0 ELSE flushed.bufSz = x.bufSz + fill
  <2>1. CASE filled.bufSz = B /\ ~(holds /\ rest = 0)
    <3> DEFINE z == DoBuffer(filled)
    <3>1. flushed = z
      BY <2>1
    <3>2. /\ z \in Context /\ SameButBytes(filled, z)
          /\ z.bufSz = 0 /\ z.buf = filled.buf /\ z.fed = filled.fed /\ z.done = filled.done + B
          /\ InOrder(filled, B) => z.wrong = filled.wrong
      BY <1>4, BufferGoesThrough
    <3> HIDE DEF z
    <3>3. SameButBytes(x, z)
      BY <1>4, <3>2 DEF SameButBytes
    <3>4. x.done % B = 0 => z.done % B = 0
      BY <1>2, <1>4, <3>2, SumOfWhole, BlockIsWhole
    <3>5. InOrder(z, 0)
      BY DEF InOrder
    <3>6. x.bufSz + fill = B /\ ~(holds /\ rest = 0)
      BY <2>1, <1>4
    <3>7. ASSUME Ordered(x)
          PROVE  ~z.wrong /\ z.done % B = 0 /\ z.done + 0 = x.fed + fill
      <4>1. ~x.wrong /\ x.done + x.bufSz = x.fed /\ x.done % B = 0
        BY <3>7 DEF Ordered
      <4>2. InOrder(filled, B)
        BY <3>7, <1>4, <3>6
      <4>3. z.done = x.done + B
        BY <1>4, <3>2
      <4>4. z.done + 0 = x.fed + fill
        <5>1. fill \in Nat
          BY <1>3
        <5> QED BY ONLY <4>1, <4>3, <3>6, <1>2, <5>1
      <4> QED BY <4>1, <4>2, <4>4, <1>4, <3>2, <3>4
    <3> QED BY <1>4, <3>1, <3>2, <3>3, <3>5, <3>6, <3>7
  <2>2. CASE ~(filled.bufSz = B /\ ~(holds /\ rest = 0))
    <3>1. flushed = filled
      BY <2>2
    <3>2. rest > 0 => filled.bufSz = 0
      BY <2>2, <1>2, <1>3, <1>4
    <3> QED BY <2>2, <1>2, <1>3, <1>4, <3>1, <3>2 DEF Ordered
  <2> QED BY <2>1, <2>2
<1> HIDE DEF flushed
<1>6. /\ direct \in Nat /\ direct % B = 0 /\ tail \in 0 .. B
      /\ direct + tail = rest /\ rest = 0 => direct = 0
      /\ holds /\ x.tls = "no" /\ rest > 0 => tail > 0
      /\ ~holds \/ x.tls # "no" => tail < B
  <2>1. /\ whole \in Nat /\ whole % B = 0 /\ whole <= rest /\ rest < whole + B
        /\ whole > 0 => whole - B \in Nat /\ (whole - B) % B = 0
    BY <1>3, Whole
  <2> HIDE DEF whole
  <2> QED BY <1>2, <1>3, <2>1
<1> HIDE DEF direct
<1>7. tail \in Nat /\ tail = rest - direct
  BY <1>6
<1> HIDE DEF tail
<1>8. /\ through \in Context /\ SameButBytes(x, through)
      /\ through.fed = x.fed /\ through.bufSz = flushed.bufSz
      /\ Ordered(x) =>
           /\ ~through.wrong /\ through.done % B = 0
           /\ through.done + through.bufSz = x.fed + fill + direct
           /\ InOrder(through, through.bufSz)
  <2> DEFINE f == x.fed + fill + 1
  <2>1. f \in Nat
    BY <1>2, <1>3
  <2> HIDE DEF f
  <2>2. /\ through \in Context /\ SameButBytes(flushed, through)
        /\ through.bufSz = flushed.bufSz /\ through.buf = flushed.buf
        /\ through.fed = flushed.fed /\ through.done = flushed.done + direct
        /\ direct = 0 \/ f = flushed.done + 1 => through.wrong = flushed.wrong
    <3>1. through = DoInput(flushed, f, direct)
      BY DEF f
    <3> HIDE DEF through
    <3> QED BY <1>5, <1>6, <2>1, <3>1, InputGoesThrough
  <2> HIDE DEF through
  <2>3. SameButBytes(x, through)
    BY <1>5, <2>2 DEF SameButBytes
  <2>4. ASSUME Ordered(x)
        PROVE  /\ ~through.wrong /\ through.done % B = 0
               /\ through.done + through.bufSz = x.fed + fill + direct
               /\ InOrder(through, through.bufSz)
    <3>1. flushed.done \in Nat /\ flushed.bufSz \in Nat
      BY <1>5 DEF Context
    <3>2. /\ ~flushed.wrong /\ flushed.done % B = 0
          /\ flushed.done + flushed.bufSz = x.fed + fill
          /\ InOrder(flushed, flushed.bufSz)
      BY <2>4, <1>5
    <3>3. through.done % B = 0
      BY <1>6, <2>2, <3>1, <3>2, SumOfWhole
    <3>4. direct = 0 \/ flushed.bufSz = 0
      BY <1>3, <1>5, <1>6, <1>7
    <3>5. direct = 0 \/ f = flushed.done + 1
      BY <3>1, <3>2, <3>4 DEF f
    <3>6. InOrder(through, through.bufSz)
      <4>1. CASE direct = 0
        BY <4>1, <2>2, <3>1, <3>2 DEF InOrder
      <4>2. CASE flushed.bufSz = 0
        BY <4>2, <2>2 DEF InOrder
      <4> QED BY <3>4, <4>1, <4>2
    <3>7. through.done + through.bufSz = x.fed + fill + direct
      BY <1>2, <1>3, <1>6, <2>2, <3>1, <3>2
    <3> QED BY <2>2, <3>2, <3>3, <3>5, <3>6, <3>7
  <2> QED BY <1>5, <2>2, <2>3, <2>4
<1> HIDE DEF through
<1>9. /\ kept \in Context /\ SameButBytes(x, kept) /\ kept.fed = x.fed
      /\ kept.bufSz = IF tail = 0 THEN flushed.bufSz ELSE tail
      /\ Ordered(x) =>
           /\ ~kept.wrong /\ kept.done % B = 0
           /\ kept.done + kept.bufSz = x.fed + n
           /\ InOrder(kept, kept.bufSz)
  <2>1. CASE tail = 0
    BY <2>1, <1>1, <1>2, <1>3, <1>6, <1>7, <1>8 DEF rest
  <2>2. CASE tail # 0
    <3> DEFINE f == x.fed + fill + direct + 1
               z == CopyIn(through, 0, f, tail)
    <3>1. kept = z /\ f \in Nat \ {0} /\ 0 + tail <= B /\ 0 \in 0 .. B /\ rest > 0
      BY <2>2, <1>2, <1>3, <1>6, <1>7
    <3> HIDE DEF f
    <3>2. /\ z \in Context /\ SameButBytes(through, z)
          /\ z.bufSz = 0 + tail /\ z.fed = through.fed
          /\ z.done = through.done /\ z.wrong = through.wrong
          /\ InOrder(through, 0) /\ f = through.done + 0 + 1 => InOrder(z, 0 + tail)
      BY <1>7, <1>8, <3>1, BytesCopied
    <3> HIDE DEF z
    <3>3. through.done \in Nat /\ through.bufSz = 0 /\ InOrder(through, 0)
      BY <1>5, <1>8, <3>1 DEF Context, InOrder
    <3>4. z.bufSz = tail /\ 0 + tail = tail
      BY <1>7, <3>2
    <3>5. SameButBytes(x, z)
      BY <1>8, <3>2 DEF SameButBytes
    <3>6. ASSUME Ordered(x)
          PROVE  /\ ~z.wrong /\ z.done % B = 0 /\ z.done + z.bufSz = x.fed + n
                 /\ InOrder(z, z.bufSz)
      <4>1. f = through.done + 0 + 1
        BY <3>6, <1>2, <1>3, <1>6, <1>8, <3>3 DEF f
      <4>2. z.done + z.bufSz = x.fed + n
        <5>1. through.done + through.bufSz = x.fed + fill + direct
          BY <3>6, <1>8
        <5>2. fill + direct + tail = n /\ fill \in Nat /\ direct \in Nat /\ tail \in Nat
          BY <1>1, <1>3, <1>6, <1>7 DEF rest
        <5> QED BY <5>1, <5>2, <1>2, <3>2, <3>3, <3>4
      <4> QED BY <3>6, <1>8, <3>2, <3>3, <3>4, <4>1, <4>2
    <3> QED BY <2>2, <1>8, <3>1, <3>2, <3>4, <3>5, <3>6
  <2> QED BY <2>1, <2>2
<1> HIDE DEF kept
<1> DEFINE m == kept.fed + n
<1>0a. y = FedTo(kept, m) /\ m \in Nat /\ m = x.fed + n
  BY <1>0, <1>1, <1>2, <1>9
<1> HIDE DEF m
<1>10. /\ y \in Context /\ SameButBytes(x, y) /\ y.fed = x.fed + n
       /\ y.bufSz = kept.bufSz /\ y.done = kept.done /\ y.buf = kept.buf
       /\ y.wrong = kept.wrong
  <2> HIDE DEF y
  <2>1. /\ y \in Context /\ SameButBytes(kept, y)
        /\ y.bufSz = kept.bufSz /\ y.buf = kept.buf /\ y.fed = m
        /\ y.done = kept.done /\ y.wrong = kept.wrong
    BY <1>0a, <1>9, Fed
  <2> QED BY <2>1, <1>0a, <1>9 DEF SameButBytes
<1> HIDE DEF y
<1>11. Ordered(x) => Ordered(y)
  BY <1>9, <1>10 DEF Ordered, InOrder
<1>12. ASSUME Ordered(x), x.tls = "no", holds = (~x.enc /\ x.pad), HoldsLast(x)
       PROVE  HoldsLast(y)
  <2>1. y.enc = x.enc /\ y.pad = x.pad /\ y.bufSz = IF tail = 0 THEN flushed.bufSz ELSE tail
    BY <1>9, <1>10 DEF SameButBytes
  <2>2. CASE holds
    <3>1. SUFFICES ASSUME y.fed > 0
                   PROVE  y.bufSz > 0
      BY <1>12, <2>1, <2>2 DEF HoldsLast
    <3>2. CASE rest > 0
      BY <3>2, <2>1, <2>2, <1>6, <1>7, <1>12
    <3>3. CASE rest = 0
      <4>1. tail = 0 /\ fill = n /\ flushed.bufSz = x.bufSz + fill
        BY <3>3, <2>2, <1>1, <1>3, <1>5, <1>6, <1>7 DEF rest
      <4>2. x.fed > 0 => x.bufSz > 0
        BY <1>12, <2>2 DEF HoldsLast
      <4> QED BY <3>1, <4>1, <4>2, <2>1, <1>1, <1>2, <1>3, <1>10
    <3> QED BY <3>2, <3>3, <1>3
  <2>3. CASE ~holds
    <3>1. x.bufSz < B
      BY <1>12, <2>3 DEF HoldsLast
    <3>2. tail < B
      BY <2>3, <1>6
    <3>3. flushed.bufSz < B
      BY <2>3, <3>1, <1>2, <1>3, <1>5
    <3>4. y.bufSz < B
      BY <2>1, <3>2, <3>3
    <3> QED BY <1>12, <2>1, <2>3, <3>4 DEF HoldsLast
  <2> QED BY <2>2, <2>3
<1> QED BY <1>10, <1>11, <1>12 DEF y

------------------------------------------------------------------------------
(* Init: the bytes start anew, the IV goes into the register. *)
SameButIv(x, y) ==
  /\ y.status = x.status /\ y.enc = x.enc /\ y.pad = x.pad /\ y.tls = x.tls
  /\ y.mac = x.mac /\ y.bufSz = x.bufSz /\ y.fed = x.fed
  /\ y.done = x.done /\ y.wrong = x.wrong
  /\ alg # "DES3-CBC" => (x.iv = x.reg => y.iv = y.reg)

LEMMA IvIsSet ==
  ASSUME NEW x \in Context, NEW iv \in Iv \cup {"zero"}
  PROVE  SetIv(x, iv) \in Context /\ SameButIv(x, SetIv(x, iv))
BY DEF SetIv, Context, SameButIv

LEMMA WithIvKeeps ==
  ASSUME NEW x \in Context, NEW iv \in Iv \cup {NoIv}
  PROVE  WithIv(x, iv) \in Context /\ SameButIv(x, WithIv(x, iv))
<1>1. CASE iv # NoIv /\ Cbc
  BY <1>1, IvIsSet DEF WithIv
<1>2. CASE ~(iv # NoIv /\ Cbc) /\ Cbc /\ x.ivSet
  <2>1. WithIv(x, iv) = Restore(x) /\ x.oiv \in Iv \cup {"zero"}
    BY <1>2 DEF WithIv, Context
  <2>2. CASE alg = "DES3-CBC"
    BY <2>1, <2>2 DEF Restore, Context, SameButIv
  <2>3. CASE alg # "DES3-CBC"
    BY <2>1, <2>3, IvIsSet DEF Restore
  <2> QED BY <2>2, <2>3
<1>3. CASE ~(iv # NoIv /\ Cbc) /\ ~(Cbc /\ x.ivSet)
  BY <1>3 DEF WithIv, SameButIv
<1> QED BY <1>1, <1>2, <1>3

LEMMA WithKeyKeeps ==
  ASSUME NEW x \in Context, NEW iv \in Iv \cup {NoIv}
  PROVE  WithKey(x, iv) \in Context /\ SameButIv(x, WithKey(x, iv))
<1> DEFINE r == IF alg # "DES3-CBC" THEN x.iv ELSE IF iv # NoIv THEN iv ELSE "zero"
<1>1. WithKey(x, iv) = [x EXCEPT !.keyed = TRUE, !.reg = r]
  BY DEF WithKey
<1>2. r \in Iv \cup {"zero", "chained"} /\ (alg # "DES3-CBC" => r = x.iv)
  BY DEF Context
<1> HIDE DEF r
<1> QED BY <1>1, <1>2 DEF Context, SameButIv

LEMMA Restarts ==
  ASSUME NEW c \in Ctx, NEW e \in BOOLEAN, Good(ctx[c])
  PROVE  LET x == Restarted(c, e) IN
         /\ x \in Context /\ x.mac = ctx[c].mac
         /\ ~x.wrong /\ x.bufSz = 0 /\ x.fed = 0 /\ x.done = 0
         /\ alg # "DES3-CBC" => x.iv = x.reg
<1> DEFINE w == ctx[c]
           x == [w EXCEPT !.bufSz = 0, !.enc = e, !.fed = 0, !.done = 0, !.wrong = FALSE]
<1>1. Restarted(c, e) = x
  BY DEF Restarted
<1>2. w \in Context /\ (alg # "DES3-CBC" => w.iv = w.reg) /\ 0 \in 0 .. B
  BY BlockCipherAssumption DEF Good
<1> HIDE DEF w
<1>3. /\ x \in Context /\ x.mac = w.mac /\ x.iv = w.iv /\ x.reg = w.reg
      /\ ~x.wrong /\ x.bufSz = 0 /\ x.fed = 0 /\ x.done = 0
  BY <1>2 DEF Context
<1> QED BY <1>1, <1>2, <1>3 DEF w

(* A record whose status is that of a failed or new context need be no more *)
(* than well formed, a ready one has to have its bytes in order.            *)
WithStatus(x, s) == [x EXCEPT !.status = s]

LEMMA StatusOf ==
  ASSUME NEW x \in Context, NEW s \in {"absent", "new", "ready", "done", "failed"}
  PROVE  LET y == WithStatus(x, s) IN
         /\ y \in Context /\ y.status = s /\ y.mac = x.mac
         /\ y.enc = x.enc /\ y.pad = x.pad /\ y.tls = x.tls /\ y.iv = x.iv /\ y.reg = x.reg
         /\ y.bufSz = x.bufSz /\ y.buf = x.buf /\ y.fed = x.fed /\ y.done = x.done
         /\ y.wrong = x.wrong
BY DEF WithStatus, Context

LEMMA ReadyIsGood ==
  ASSUME NEW x \in Context, alg # "DES3-CBC" => x.iv = x.reg,
         NEW s \in {"new", "ready", "failed"},
         s = "ready" => Ordered(x) /\ (x.tls = "no" => HoldsLast(x))
  PROVE  Good(WithStatus(x, s))
<1> DEFINE y == WithStatus(x, s)
<1>1. /\ y \in Context /\ y.status = s /\ y.mac = x.mac
      /\ y.enc = x.enc /\ y.pad = x.pad /\ y.tls = x.tls /\ y.iv = x.iv /\ y.reg = x.reg
      /\ y.bufSz = x.bufSz /\ y.buf = x.buf /\ y.fed = x.fed /\ y.done = x.done
      /\ y.wrong = x.wrong
  BY StatusOf
<1> HIDE DEF y
<1>2. Ordered(x) => Ordered(y)
  BY <1>1 DEF Ordered, InOrder
<1>3. HoldsLast(x) => HoldsLast(y)
  BY <1>1 DEF HoldsLast
<1> QED BY <1>1, <1>2, <1>3 DEF Good, y

LEMMA DoneIsGood ==
  ASSUME NEW x \in Context, alg # "DES3-CBC" => x.iv = x.reg, IsWhole(x)
  PROVE  Good(WithStatus(x, "done"))
<1> DEFINE y == WithStatus(x, "done")
<1>1. /\ y \in Context /\ y.status = "done" /\ y.mac = x.mac
      /\ y.enc = x.enc /\ y.pad = x.pad /\ y.tls = x.tls /\ y.iv = x.iv /\ y.reg = x.reg
      /\ y.bufSz = x.bufSz /\ y.buf = x.buf /\ y.fed = x.fed /\ y.done = x.done
      /\ y.wrong = x.wrong
  BY StatusOf
<1> HIDE DEF y
<1>2. IsWhole(y)
  BY <1>1 DEF IsWhole
<1> QED BY <1>1, <1>2 DEF Good, y

LEMMA FreshIsGood ==
  Good(Fresh) /\ Good([Fresh EXCEPT !.status = "new"]) /\ Fresh.mac = NoMac
  /\ [Fresh EXCEPT !.status = "new"].mac = NoMac
<1>1. Fresh \in Context
  BY BlockCipherAssumption DEF Fresh, Context
<1>2. /\ Fresh.status = "absent" /\ Fresh.mac = NoMac /\ Fresh.iv = Fresh.reg
  BY DEF Fresh
<1>3. Good(Fresh)
  BY <1>1, <1>2 DEF Good
<1>4. [Fresh EXCEPT !.status = "new"] = WithStatus(Fresh, "new")
  BY DEF WithStatus
<1>5. Good(WithStatus(Fresh, "new"))
  BY <1>1, <1>2, ReadyIsGood
<1>6. WithStatus(Fresh, "new").mac = NoMac
  BY <1>1, <1>2, StatusOf
<1> QED BY <1>2, <1>3, <1>4, <1>5, <1>6

------------------------------------------------------------------------------
(* A call leaves the other contexts alone, and gives its own no MAC buffer  *)
(* but the one it had or a free one.                                        *)
LEMMA ContextChanges ==
  ASSUME IInv, NEW c \in Ctx, NEW d, Becomes(c, d), Good(d),
         d.mac \in {NoMac, ctx[c].mac} \cup (Macs \ macs),
         macs' = (macs \ {ctx[c].mac}) \cup ({d.mac} \ {NoMac})
  PROVE  IInv'
<1>1. /\ alg' = alg /\ ctx' = [ctx EXCEPT ![c] = d] /\ calls' = calls + 1
      /\ calls < MaxCalls /\ alg \in Alg /\ ctx \in [Ctx -> Context]
      /\ macs \subseteq Macs /\ calls \in 0 .. MaxCalls
      /\ \A e \in Ctx : Good(ctx[e])
  BY DEF IInv, TypeOK, Becomes
<1>2. d \in Context /\ d.mac \in Macs \cup {NoMac}
  BY DEF Good, Context
<1>3. /\ macs = {ctx[e].mac : e \in Ctx} \ {NoMac}
      /\ \A e, f \in Ctx : e # f /\ ctx[e].mac # NoMac => ctx[e].mac # ctx[f].mac
  BY DEF IInv, MacOwned
<1>4. /\ ctx'[c] = d /\ \A e \in Ctx \ {c} : ctx'[e] = ctx[e]
      /\ ctx' \in [Ctx -> Context]
  BY <1>1, <1>2
<1>5. TypeOK'
  BY <1>1, <1>2, <1>4, BlockCipherAssumption DEF TypeOK
<1>6. \A e \in Ctx : Good(ctx[e])'
  <2> TAKE e \in Ctx
  <2>1. CASE e = c
    BY <2>1, <1>1, <1>4 DEF Good
  <2>2. CASE e # c
    BY <2>2, <1>1, <1>4 DEF Good
  <2> QED BY <2>1, <2>2
<1>7. \A e \in Ctx \ {c} : d.mac # NoMac => ctx[e].mac # d.mac
  BY <1>3
<1>8. macs' = {ctx'[e].mac : e \in Ctx} \ {NoMac}
  <2>1. ASSUME NEW m \in macs'
        PROVE  m \in {ctx'[e].mac : e \in Ctx} \ {NoMac}
    BY <2>1, <1>3, <1>4
  <2>2. ASSUME NEW e \in Ctx, ctx'[e].mac # NoMac
        PROVE  ctx'[e].mac \in macs'
    BY <2>2, <1>3, <1>4
  <2> QED BY <2>1, <2>2
<1>9. \A e, f \in Ctx : e # f /\ ctx'[e].mac # NoMac => ctx'[e].mac # ctx'[f].mac
  BY <1>3, <1>4, <1>7
<1> QED BY <1>5, <1>6, <1>8, <1>9 DEF IInv, MacOwned

(* The case of most calls: the MAC buffer stays.                            *)
LEMMA BytesChange ==
  ASSUME IInv, NEW c \in Ctx, NEW d, Becomes(c, d), Good(d), d.mac = ctx[c].mac,
         UNCHANGED macs
  PROVE  IInv'
<1>1. ctx[c].mac = NoMac \/ ctx[c].mac \in macs
  BY DEF IInv, MacOwned
<1>2. NoMac \notin macs
  BY DEF IInv, MacOwned
<1> QED BY <1>1, <1>2, ContextChanges

------------------------------------------------------------------------------
(* The calls. *)
LEMMA GoodContext ==
  ASSUME IInv, NEW c \in Ctx
  PROVE  /\ Good(ctx[c]) /\ ctx[c] \in Context
         /\ ctx[c].mac = NoMac \/ ctx[c].mac \in macs
         /\ NoMac \notin macs /\ NoMac \notin Macs /\ macs \subseteq Macs
BY DEF IInv, Good, MacOwned, Macs, NoMac, TypeOK

LEMMA NewCtxKeeps ==
  ASSUME IInv, NEW c \in Ctx, NewCtx(c)
  PROVE  IInv'
<1> DEFINE d == [Fresh EXCEPT !.status = "new"]
<1>1. Becomes(c, d) /\ UNCHANGED macs /\ ctx[c].mac = NoMac
  BY GoodContext DEF NewCtx, Good
<1>2. Good(d) /\ d.mac = NoMac
  BY FreshIsGood
<1> HIDE DEF d
<1> QED BY <1>1, <1>2, BytesChange

LEMMA FreeCtxKeeps ==
  ASSUME IInv, NEW c \in Ctx, FreeCtx(c)
  PROVE  IInv'
<1>1. Becomes(c, Fresh) /\ macs' = macs \ {ctx[c].mac}
  BY DEF FreeCtx
<1> QED BY <1>1, FreshIsGood, ContextChanges

LEMMA CopyIsGood ==
  ASSUME NEW x, Good(x), x.status # "absent", NEW m \in Macs \cup {NoMac}
  PROVE  Good([x EXCEPT !.mac = m]) /\ [x EXCEPT !.mac = m].mac = m
<1> DEFINE y == [x EXCEPT !.mac = m]
<1>1. x \in Context
  BY DEF Good
<1>2. /\ y \in Context /\ y.status = x.status /\ y.mac = m
      /\ y.enc = x.enc /\ y.pad = x.pad /\ y.tls = x.tls /\ y.iv = x.iv /\ y.reg = x.reg
      /\ y.bufSz = x.bufSz /\ y.buf = x.buf /\ y.fed = x.fed /\ y.done = x.done
      /\ y.wrong = x.wrong
  BY <1>1 DEF Context
<1> HIDE DEF y
<1>3. Ordered(x) => Ordered(y)
  BY <1>2 DEF Ordered, InOrder
<1>4. HoldsLast(x) => HoldsLast(y)
  BY <1>2 DEF HoldsLast
<1>5. IsWhole(x) => IsWhole(y)
  BY <1>2 DEF IsWhole
<1>6. y.mac = m /\ Good(y)
  BY <1>2, <1>3, <1>4, <1>5 DEF Good
<1> QED BY <1>6 DEF y

LEMMA DupCtxKeeps ==
  ASSUME IInv, NEW c \in Ctx, NEW d \in Ctx, DupCtx(c, d)
  PROVE  IInv'
<1>1. ctx[d].mac = NoMac /\ ctx[c].status # "absent" /\ Good(ctx[c])
  BY GoodContext DEF DupCtx, Good
<1>2. CASE ctx[c].mac = NoMac
  BY <1>1, <1>2, BytesChange DEF DupCtx
<1>3. CASE ctx[c].mac # NoMac
  <2>1. PICK m \in Macs \ macs :
          Becomes(d, [ctx[c] EXCEPT !.mac = m]) /\ macs' = macs \cup {m}
    BY <1>3 DEF DupCtx
  <2>2. Good([ctx[c] EXCEPT !.mac = m]) /\ [ctx[c] EXCEPT !.mac = m].mac = m
    BY <1>1, CopyIsGood
  <2>3. NoMac \notin macs /\ m # NoMac
    BY GoodContext
  <2>4. macs' = (macs \ {ctx[d].mac}) \cup ({m} \ {NoMac})
    BY <1>1, <2>1, <2>3
  <2> QED BY <2>1, <2>2, <2>4, ContextChanges
<1> QED BY <1>2, <1>3

LEMMA InitCtxKeeps ==
  ASSUME IInv, NEW c \in Ctx, NEW key \in BOOLEAN, NEW iv \in Iv \cup {NoIv},
         NEW e \in BOOLEAN, InitCtx(c, key, iv, e)
  PROVE  IInv'
<1> DEFINE r == Restarted(c, e)
           x == WithIv(r, iv)
           y == IF key THEN WithKey(x, iv) ELSE x
           s == IF y.keyed THEN "ready" ELSE "new"
<1>1. Becomes(c, WithStatus(y, s)) /\ UNCHANGED macs
  BY DEF InitCtx, WithStatus
<1>2. /\ r \in Context /\ r.mac = ctx[c].mac
      /\ ~r.wrong /\ r.bufSz = 0 /\ r.fed = 0 /\ r.done = 0
      /\ alg # "DES3-CBC" => r.iv = r.reg
  BY GoodContext, Restarts
<1> HIDE DEF r
<1>3. x \in Context /\ SameButIv(r, x)
  BY <1>2, WithIvKeeps
<1> HIDE DEF x
<1>4. y \in Context /\ (y = x \/ SameButIv(x, y))
  BY <1>3, WithKeyKeeps
<1> HIDE DEF y
<1>5. /\ y.mac = ctx[c].mac /\ ~y.wrong /\ y.bufSz = 0 /\ y.fed = 0 /\ y.done = 0
      /\ alg # "DES3-CBC" => y.iv = y.reg
  BY <1>2, <1>3, <1>4 DEF SameButIv
<1>6. Ordered(y)
  BY <1>5, BlockCipherAssumption DEF Ordered, InOrder
<1>7. HoldsLast(y)
  BY <1>5, BlockCipherAssumption DEF HoldsLast
<1>8. s \in {"new", "ready", "failed"}
  OBVIOUS
<1> HIDE DEF s
<1>9. Good(WithStatus(y, s))
  BY <1>4, <1>5, <1>6, <1>7, <1>8, ReadyIsGood
<1>10. WithStatus(y, s).mac = ctx[c].mac
  BY <1>4, <1>5, <1>8, StatusOf
<1> QED BY <1>1, <1>9, <1>10, BytesChange

LEMMA InitFailsKeeps ==
  ASSUME IInv, NEW c \in Ctx, NEW iv \in Iv \cup {NoIv}, NEW e \in BOOLEAN,
         InitFails(c, iv, e)
  PROVE  IInv'
<1> DEFINE r == Restarted(c, e)
<1>1. PICK x \in {r, WithIv(r, iv)} : Becomes(c, WithStatus(x, "failed")) /\ UNCHANGED macs
  BY DEF InitFails, WithStatus
<1>2. r \in Context /\ r.mac = ctx[c].mac /\ (alg # "DES3-CBC" => r.iv = r.reg)
  BY GoodContext, Restarts
<1> HIDE DEF r
<1>3. x \in Context /\ x.mac = ctx[c].mac /\ (alg # "DES3-CBC" => x.iv = x.reg)
  BY <1>1, <1>2, WithIvKeeps DEF SameButIv
<1>4. Good(WithStatus(x, "failed")) /\ WithStatus(x, "failed").mac = ctx[c].mac
  BY <1>3, ReadyIsGood, StatusOf
<1> QED BY <1>1, <1>4, BytesChange

LEMMA SetCtxParamsKeeps ==
  ASSUME IInv, NEW c \in Ctx, NEW pad \in BOOLEAN, NEW tls \in {"no", "etm", "mac"},
         SetCtxParams(c, pad, tls)
  PROVE  IInv'
<1> DEFINE x == ctx[c]
           y == [x EXCEPT !.pad = pad, !.tls = tls]
<1>1. Becomes(c, y) /\ UNCHANGED macs /\ x.status \in {"new", "ready"} /\ x.fed = 0
  BY DEF SetCtxParams
<1>2. Good(x) /\ x \in Context
  BY GoodContext
<1> HIDE DEF x
<1>3. /\ y \in Context /\ y.status = x.status /\ y.mac = x.mac /\ y.iv = x.iv /\ y.reg = x.reg
      /\ y.bufSz = x.bufSz /\ y.buf = x.buf /\ y.fed = x.fed /\ y.done = x.done
      /\ y.wrong = x.wrong
  BY <1>2 DEF Context
<1> HIDE DEF y
<1>4. Ordered(x) => Ordered(y)
  BY <1>3 DEF Ordered, InOrder
<1>5. Ordered(x) => HoldsLast(y)
  <2>1. Ordered(x) => y.bufSz = 0 /\ y.fed = 0
    BY <1>1, <1>2, <1>3 DEF Ordered, Context
  <2> QED BY <2>1, BlockCipherAssumption DEF HoldsLast
<1>6. Good(y)
  BY <1>1, <1>2, <1>3, <1>4, <1>5 DEF Good
<1> QED BY <1>1, <1>3, <1>6, BytesChange DEF x

LEMMA UpdateKeeps ==
  ASSUME IInv, NEW c \in Ctx, NEW n \in 0 .. MaxFed, ctx[c].status = "ready",
         ctx[c].tls = "no" \/ (ctx[c].tls # "no" /\ ctx[c].enc),
         Becomes(c, Updated(ctx[c], n)), UNCHANGED macs
  PROVE  IInv'
<1> DEFINE x == ctx[c]
           h == ~x.enc /\ x.pad
           y == Cut(x, n, h)
<1>1. Good(x) /\ x \in Context
  BY GoodContext
<1>2. h \in BOOLEAN /\ n \in Nat /\ Becomes(c, y) /\ x.status = "ready"
  BY <1>1 DEF Updated, Context
<1> HIDE DEF x
<1>3. /\ y \in Context /\ SameButBytes(x, y)
      /\ Ordered(x) => Ordered(y)
      /\ Ordered(x) /\ x.tls = "no" /\ h = (~x.enc /\ x.pad) /\ HoldsLast(x)
           => HoldsLast(y)
  BY <1>1, <1>2, CutKeeps
<1> HIDE DEF y
<1>4. y.mac = x.mac /\ Good(y)
  BY <1>1, <1>2, <1>3 DEF Good, SameButBytes
<1> QED BY <1>2, <1>4, BytesChange DEF x

LEMMA UpdateFailsKeeps ==
  ASSUME IInv, NEW c \in Ctx, UpdateFails(c)
  PROVE  IInv'
<1> DEFINE x == ctx[c]
<1>1. Good(x) /\ x \in Context /\ (alg # "DES3-CBC" => x.iv = x.reg)
  BY GoodContext DEF Good
<1>2. Becomes(c, WithStatus(x, "failed")) /\ UNCHANGED macs
  BY DEF UpdateFails, WithStatus
<1>3. Good(WithStatus(x, "failed")) /\ WithStatus(x, "failed").mac = x.mac
  BY <1>1, ReadyIsGood, StatusOf
<1> QED BY <1>2, <1>3, BytesChange

LEMMA TlsDecryptKeeps ==
  ASSUME IInv, NEW c \in Ctx, NEW n \in 0 .. MaxFed, TlsDecrypt(c, n)
  PROVE  IInv'
<1> DEFINE w == ctx[c]
           h == ~w.enc /\ w.pad
           z == Cut(w, n, h)
           x == [z EXCEPT !.mac = NoMac]
<1>1. Good(w) /\ w \in Context /\ (w.mac = NoMac \/ w.mac \in macs)
      /\ NoMac \notin macs /\ NoMac \notin Macs
  BY GoodContext
<1>2. /\ h \in BOOLEAN /\ n \in Nat /\ w.status = "ready" /\ w.tls # "no"
      /\ x = [Updated(w, n) EXCEPT !.mac = NoMac]
  BY <1>1 DEF Updated, Context, TlsDecrypt
<1>3. \/ \E m \in Macs \ macs, s \in {"ready", "failed"} :
           macs' = (macs \ {w.mac}) \cup {m} /\ Becomes(c, [WithStatus(x, s) EXCEPT !.mac = m])
      \/ /\ \E s \in {"ready", "failed"} : Becomes(c, WithStatus(x, s))
         /\ macs' = macs \ {w.mac}
  <2>1. x = [Updated(ctx[c], n) EXCEPT !.mac = NoMac]
    BY <1>2
  <2> HIDE DEF x
  <2>2. \/ \E m \in Macs \ macs, s \in {"ready", "failed"} : TlsMac(c, [x EXCEPT !.status = s], m)
        \/ /\ \E s \in {"ready", "failed"} : Becomes(c, [x EXCEPT !.status = s])
           /\ macs' = macs \ {w.mac}
    BY <2>1 DEF TlsDecrypt
  <2> HIDE DEF w
  <2> QED BY <2>2, Zenon DEF TlsMac, WithStatus, w
<1>4. Ordered(w) => Ordered(z)
  <2> HIDE DEF w, h
  <2> QED BY <1>1, <1>2, CutKeeps
<1>5. z \in Context /\ SameButBytes(w, z)
  <2> HIDE DEF w, h
  <2> QED BY <1>1, <1>2, CutKeeps
<1> HIDE DEF z
<1>6. Good(z) /\ z.status = "ready" /\ z.tls # "no"
  <2>1. Ordered(z)
    BY <1>1, <1>2, <1>4, <1>5 DEF Good
  <2> HIDE DEF w
  <2> QED BY <1>1, <1>2, <1>5, <2>1 DEF Good, SameButBytes
<1>7. Good(x) /\ x.mac = NoMac /\ x \in Context
  BY <1>6, CopyIsGood DEF Good
<1>8. x.status = "ready" /\ x.tls # "no"
  BY <1>5, <1>6 DEF Context
<1> HIDE DEF w, x
<1>9. ASSUME NEW m \in Macs \ macs, NEW s \in {"ready", "failed"},
             macs' = (macs \ {w.mac}) \cup {m}, Becomes(c, [WithStatus(x, s) EXCEPT !.mac = m])
      PROVE  IInv'
  <2> DEFINE y == WithStatus(x, s)
  <2>1. Good(y)
    <3>1. Ordered(x) /\ (alg # "DES3-CBC" => x.iv = x.reg)
      BY <1>7, <1>8 DEF Good
    <3> QED BY <3>1, <1>7, <1>8, ReadyIsGood
  <2>2. y.status = s
    BY <1>7, StatusOf
  <2> HIDE DEF y
  <2>3. Good([y EXCEPT !.mac = m]) /\ [y EXCEPT !.mac = m].mac = m
    <3>1. y.status # "absent" /\ m \in Macs \cup {NoMac}
      BY <2>2
    <3> QED BY <2>1, <3>1, CopyIsGood
  <2>4. macs' = (macs \ {w.mac}) \cup ({m} \ {NoMac})
    BY <1>1, <1>9
  <2>5. Becomes(c, [y EXCEPT !.mac = m])
    BY <1>9 DEF y
  <2> QED BY <2>3, <2>4, <2>5, ContextChanges DEF w
<1>10. ASSUME NEW s \in {"ready", "failed"}, Becomes(c, WithStatus(x, s)),
              macs' = macs \ {w.mac}
       PROVE  IInv'
  <2> DEFINE y == WithStatus(x, s)
  <2>1. Good(y)
    <3>1. Ordered(x) /\ (alg # "DES3-CBC" => x.iv = x.reg)
      BY <1>7, <1>8 DEF Good
    <3> QED BY <3>1, <1>7, <1>8, ReadyIsGood
  <2>2. y.mac = NoMac
    BY <1>7, StatusOf
  <2>3. macs' = (macs \ {w.mac}) \cup ({y.mac} \ {NoMac})
    BY <2>2, <1>10
  <2> HIDE DEF y
  <2>4. Becomes(c, y)
    BY <1>10 DEF y
  <2> QED BY <2>1, <2>2, <2>3, <2>4, ContextChanges DEF w
<1> QED BY <1>3, <1>9, <1>10

LEMMA FinalEncKeeps ==
  ASSUME IInv, NEW c \in Ctx, FinalEnc(c)
  PROVE  IInv'
<1> DEFINE x == ctx[c]
           z == Chain(x)
           w == z.wrong \/ ~InOrder(x, x.bufSz)
           y == MovedTo(z, w, z.done + B, 0)
<1>1. /\ Good(x) /\ x \in Context /\ x.status = "ready" /\ x.tls = "no" /\ x.enc
      /\ Ordered(x) /\ HoldsLast(x)
      /\ alg # "DES3-CBC" => x.iv = x.reg
  BY GoodContext DEF FinalEnc, Streaming, Good
<1>2. \/ x.pad /\ Becomes(c, WithStatus(y, "done")) /\ UNCHANGED macs
      \/ ~x.pad /\ x.bufSz = 0 /\ Becomes(c, WithStatus(x, "done")) /\ UNCHANGED macs
      \/ Becomes(c, x) /\ UNCHANGED macs
  BY DEF FinalEnc, FinalOk, FinalRefused, WithStatus, MovedTo
<1> HIDE DEF x
<1>3. /\ z \in Context /\ SameButBytes(x, z)
      /\ z.fed = x.fed /\ z.done = x.done /\ z.wrong = x.wrong
  BY <1>1, ChainKeeps
<1>4. ~w /\ w \in BOOLEAN /\ z.done + B \in Nat /\ 0 \in 0 .. B
  BY <1>1, <1>3, BlockCipherAssumption DEF Ordered, Context
<1> HIDE DEF z, w
<1>5. /\ y \in Context /\ SameButBytes(z, y) /\ y.bufSz = 0 /\ y.fed = z.fed
      /\ y.done = z.done + B /\ y.wrong = w
  BY <1>3, <1>4, Moved
<1> HIDE DEF y
<1>6. ASSUME x.pad, Becomes(c, WithStatus(y, "done")), UNCHANGED macs
      PROVE  IInv'
  <2>1. /\ x.done + x.bufSz = x.fed /\ x.done % B = 0 /\ x.bufSz < B
        /\ x.bufSz \in Nat /\ x.done \in Nat /\ x.fed \in Nat
    BY <1>1 DEF Ordered, HoldsLast, Context
  <2>2. y.done = x.done + B /\ y.fed = x.fed /\ y.enc /\ y.pad /\ y.mac = x.mac
    BY <1>1, <1>3, <1>5, <1>6 DEF SameButBytes
  <2>3. y.done - y.fed \in 1 .. B
    BY <2>1, <2>2, BlockCipherAssumption
  <2>4. y.done % B = 0
    BY <2>1, <2>2, SumOfWhole, BlockIsWhole, BlockCipherAssumption
  <2>5. IsWhole(y)
    BY <1>4, <1>5, <2>2, <2>3, <2>4 DEF IsWhole
  <2>6. alg # "DES3-CBC" => y.iv = y.reg
    BY <1>1, <1>3, <1>5 DEF SameButBytes
  <2>7. Good(WithStatus(y, "done")) /\ WithStatus(y, "done").mac = x.mac
    BY <1>5, <2>2, <2>5, <2>6, DoneIsGood, StatusOf
  <2> QED BY <1>6, <2>7, BytesChange DEF x
<1>7. ASSUME ~x.pad, x.bufSz = 0, Becomes(c, WithStatus(x, "done")), UNCHANGED macs
      PROVE  IInv'
  <2>1. IsWhole(x)
    BY <1>1, <1>7 DEF Ordered, IsWhole, Context
  <2>2. Good(WithStatus(x, "done")) /\ WithStatus(x, "done").mac = x.mac
    BY <1>1, <2>1, DoneIsGood, StatusOf
  <2> QED BY <1>7, <2>2, BytesChange DEF x
<1>8. ASSUME Becomes(c, x), UNCHANGED macs
      PROVE  IInv'
  BY <1>1, <1>8, BytesChange DEF x
<1> QED BY <1>2, <1>6, <1>7, <1>8

LEMMA FinalDecKeeps ==
  ASSUME IInv, NEW c \in Ctx, FinalDec(c)
  PROVE  IInv'
<1> DEFINE x == ctx[c]
           y == DoBuffer(x)
           v == [y EXCEPT !.bufSz = B]
<1>1. /\ Good(x) /\ x \in Context /\ x.status = "ready" /\ x.tls = "no" /\ ~x.enc
      /\ Ordered(x) /\ (alg # "DES3-CBC" => x.iv = x.reg)
  BY GoodContext DEF FinalDec, Streaming, Good
<1>2. \/ x.pad /\ x.bufSz = B /\ Becomes(c, WithStatus(y, "done")) /\ UNCHANGED macs
      \/ Becomes(c, WithStatus(v, "failed")) /\ UNCHANGED macs
      \/ ~x.pad /\ x.bufSz = 0 /\ Becomes(c, WithStatus(x, "done")) /\ UNCHANGED macs
      \/ Becomes(c, x) /\ UNCHANGED macs
  <2>1. [y EXCEPT !.status = "failed", !.bufSz = B] = WithStatus(v, "failed")
    <3>1. y \in Context
      BY <1>1, BufferGoesThrough
    <3> HIDE DEF y
    <3> QED BY <3>1 DEF WithStatus, Context
  <2> QED BY <2>1 DEF FinalDec, FinalOk, FinalRefused, WithStatus
<1> HIDE DEF x
<1>3. /\ y \in Context /\ SameButBytes(x, y) /\ y.bufSz = 0 /\ y.fed = x.fed
      /\ y.done = x.done + B /\ (InOrder(x, B) => y.wrong = x.wrong)
  BY <1>1, BufferGoesThrough
<1> HIDE DEF y
<1>4. y.mac = x.mac /\ (alg # "DES3-CBC" => y.iv = y.reg)
  BY <1>1, <1>3 DEF SameButBytes
<1>5. ASSUME x.pad, x.bufSz = B, Becomes(c, WithStatus(y, "done")), UNCHANGED macs
      PROVE  IInv'
  <2>1. /\ x.done + B = x.fed /\ x.done % B = 0 /\ InOrder(x, B) /\ ~x.wrong
        /\ x.done \in Nat /\ x.fed \in Nat
    BY <1>1, <1>5 DEF Ordered, Context
  <2>2. y.done % B = 0 /\ y.done > 0
    BY <1>3, <2>1, SumOfWhole, BlockIsWhole, BlockCipherAssumption
  <2>3. IsWhole(y)
    BY <1>1, <1>3, <2>1, <2>2 DEF IsWhole, SameButBytes
  <2>4. Good(WithStatus(y, "done")) /\ WithStatus(y, "done").mac = x.mac
    BY <1>3, <1>4, <2>3, DoneIsGood, StatusOf
  <2> QED BY <1>5, <2>4, BytesChange DEF x
<1>6. ASSUME Becomes(c, WithStatus(v, "failed")), UNCHANGED macs
      PROVE  IInv'
  <2>1. v \in Context /\ v.mac = y.mac /\ v.iv = y.iv /\ v.reg = y.reg
    BY <1>3, BlockCipherAssumption DEF Context
  <2> HIDE DEF v
  <2>2. Good(WithStatus(v, "failed")) /\ WithStatus(v, "failed").mac = x.mac
    BY <1>4, <2>1, ReadyIsGood, StatusOf
  <2> QED BY <1>6, <2>2, BytesChange DEF x
<1>7. ASSUME ~x.pad, x.bufSz = 0, Becomes(c, WithStatus(x, "done")), UNCHANGED macs
      PROVE  IInv'
  <2>1. IsWhole(x)
    BY <1>1, <1>7 DEF Ordered, IsWhole, Context
  <2>2. Good(WithStatus(x, "done")) /\ WithStatus(x, "done").mac = x.mac
    BY <1>1, <2>1, DoneIsGood, StatusOf
  <2> QED BY <1>7, <2>2, BytesChange DEF x
<1>8. ASSUME Becomes(c, x), UNCHANGED macs
      PROVE  IInv'
  BY <1>1, <1>8, BytesChange DEF x
<1> QED BY <1>2, <1>5, <1>6, <1>7, <1>8

LEMMA CipherKeeps ==
  ASSUME IInv, NEW c \in Ctx, NEW n \in 0 .. MaxFed, Cipher(c, n)
  PROVE  IInv'
<1> DEFINE x == ctx[c]
           f == x.fed + 1
           z == DoInput(x, f, n)
           m == z.fed + n
           y == FedTo(z, m)
<1>1. /\ Good(x) /\ x \in Context /\ x.status = "ready" /\ x.tls = "no"
      /\ Ordered(x) /\ (alg # "DES3-CBC" => x.iv = x.reg)
      /\ x.bufSz = 0 /\ (x.enc \/ ~x.pad) /\ n % B = 0 /\ n \in Nat
      /\ f \in Nat /\ f = x.done + 1
  BY GoodContext DEF Cipher, Streaming, Good, Ordered, Context
<1>2. Becomes(c, y) /\ UNCHANGED macs
  BY DEF Cipher, FedTo
<1> HIDE DEF x, f
<1>3. /\ z \in Context /\ SameButBytes(x, z)
      /\ z.bufSz = x.bufSz /\ z.fed = x.fed /\ z.done = x.done + n
      /\ z.wrong = x.wrong
  BY <1>1, InputGoesThrough
<1> HIDE DEF z
<1>4. x.fed \in Nat /\ x.done \in Nat /\ m = x.fed + n /\ m \in Nat
  BY <1>1, <1>3 DEF Context
<1> HIDE DEF m
<1>5. /\ y \in Context /\ SameButBytes(z, y) /\ y.bufSz = 0 /\ y.fed = m
      /\ y.done = x.done + n /\ y.wrong = x.wrong
  BY <1>1, <1>3, <1>4, Fed
<1> HIDE DEF y
<1>6. SameButBytes(x, y)
  BY <1>3, <1>5 DEF SameButBytes
<1>7. y.done % B = 0
  BY <1>1, <1>4, <1>5, SumOfWhole DEF Ordered
<1>8. Ordered(y)
  BY <1>1, <1>4, <1>5, <1>7 DEF Ordered, InOrder
<1>9. HoldsLast(y)
  BY <1>1, <1>5, <1>6, BlockCipherAssumption DEF HoldsLast, SameButBytes
<1>10. Good(y) /\ y.mac = x.mac
  BY <1>1, <1>5, <1>6, <1>8, <1>9 DEF Good, SameButBytes
<1> QED BY <1>2, <1>10, BytesChange DEF x

------------------------------------------------------------------------------
LEMMA InitGood ==
  ASSUME Init
  PROVE  IInv
<1>1. Fresh \in Context /\ Good(Fresh) /\ Fresh.mac = NoMac
  BY FreshIsGood DEF Good
<1>2. \A c \in Ctx : ctx[c] = Fresh
  BY DEF Init
<1>3. TypeOK
  BY <1>1, BlockCipherAssumption DEF Init, TypeOK
<1>4. MacOwned
  BY <1>1, <1>2 DEF Init, MacOwned
<1> QED BY <1>1, <1>2, <1>3, <1>4 DEF IInv

LEMMA NextGood ==
  ASSUME IInv, [Next]_vars
  PROVE  IInv'
<1>1. CASE UNCHANGED vars
  BY <1>1 DEF vars, IInv, TypeOK, Good, MacOwned
<1>2. ASSUME NEW c \in Ctx, NEW n \in 0 .. MaxFed,
             Update(c, n) \/ TlsEncrypt(c, n) \/ TlsDecrypt(c, n) \/ Cipher(c, n)
      PROVE  IInv'
  <2>1. CASE Update(c, n)
    BY <2>1, UpdateKeeps DEF Update, Streaming
  <2>2. CASE TlsEncrypt(c, n)
    BY <2>2, UpdateKeeps DEF TlsEncrypt
  <2>3. CASE TlsDecrypt(c, n)
    BY <2>3, TlsDecryptKeeps
  <2>4. CASE Cipher(c, n)
    BY <2>4, CipherKeeps
  <2> QED BY <1>2, <2>1, <2>2, <2>3, <2>4
<1>3. CASE Next
  BY <1>2, <1>3, NewCtxKeeps, FreeCtxKeeps, DupCtxKeeps, InitFailsKeeps, InitCtxKeeps,
     SetCtxParamsKeeps, UpdateFailsKeeps, FinalEncKeeps, FinalDecKeeps DEF Next
<1> QED BY <1>1, <1>3

(* Whatever the program does with its contexts, the buffers, lengths and MACs *)
(* of wp_aes_block.c and wp_des.c are what the properties below need.         *)
THEOREM Invariance == Spec => []IInv
<1>1. Init => IInv
  BY InitGood
<1>2. IInv /\ [Next]_vars => IInv'
  BY NextGood
<1> QED BY <1>1, <1>2, PTL DEF Spec

(* The state of a context keeps its type, whatever the block size: the       *)
(* buffer is never overfilled (wp_aes_block_update, wp_des3_block_update).   *)
THEOREM SpecBlockTypeOK == Spec => []TypeOK
<1>1. IInv => TypeOK
  BY DEF IInv
<1> QED BY <1>1, Invariance, PTL

(* However a message is cut into updates, of a block size and of lengths of  *)
(* any kind, its bytes go through the cipher once each and in order, and the *)
(* buffer holds those that follow (wp_aes_block_update, wp_des3_block_update).*)
THEOREM SpecBytesInOrder == Spec => []BytesInOrder
<1>1. IInv => BytesInOrder
  BY DEF IInv, Good, Ordered, BytesInOrder
<1> QED BY <1>1, Invariance, PTL

(* The last block of a decryption that removes padding waits for final, and  *)
(* a final that succeeds leaves nothing behind (wp_aes_block_final_dec,      *)
(* wp_aes_block_final_enc and their DES3 twins).                             *)
THEOREM SpecLastBlockInFinal == Spec => []LastBlockInFinal
<1>1. IInv => HoldsLastBlock
  BY DEF IInv, Good, HoldsLast, HoldsLastBlock, Streaming
<1>2. IInv => FinalIsWhole
  BY DEF IInv, Good, IsWhole, FinalIsWhole
<1> QED BY <1>1, <1>2, Invariance, PTL DEF LastBlockInFinal

(* The IV that an AES context reports is the one it chains the next block    *)
(* with, after any sequence of inits, with a key, an IV, both or neither.    *)
THEOREM SpecAesIvInUse == Spec => []AesIvInUse
<1>1. IInv => AesIvInUse
  BY DEF IInv, Good, AesIvInUse, IvInUse
<1> QED BY <1>1, Invariance, PTL

(* No MAC buffer has two owners and none is lost, whichever contexts are     *)
(* copied and freed and however their records end (wp_aes_block_dupctx,      *)
(* wp_aes_block_freectx, wp_aes_block_tls_dec_record).                       *)
THEOREM SpecMacOwned == Spec => []MacOwned
<1>1. IInv => MacOwned
  BY DEF IInv
<1> QED BY <1>1, Invariance, PTL

------------------------------------------------------------------------------


Buffers ==
  {Zeros} \cup Tags \cup [record : 1 .. MaxMessages + 1]
  \cup [claim : 1 .. MaxMessages + 1, genuine : BOOLEAN]

Contexts ==
  [enc : BOOLEAN, keySet : BOOLEAN, iv : IV, origIv : IV,
   ivState : {"uninitialised", "copied", "buffered", "finished"},
   ivGen : BOOLEAN, ivSet : BOOLEAN, tagSet : BOOLEAN, tls : BOOLEAN,
   buf : Buffers, aad : Pieces, aadSet : BOOLEAN, in : Pieces,
   tagAvail : BOOLEAN, authErr : BOOLEAN]

AesObjects ==
  [key : Key \cup {NoKey}, reg : IV, on : BOOLEAN, iv : IV, aad : Pieces, data : Pieces]

Messages ==
  [n : 1 .. MaxMessages + 1, key : Key \cup {NoKey}, iv : IV \cup {NoAeadIv},
   fixed : Fixed \cup {Zeros}, aad : Pieces, data : Pieces,
   claim : {"none", "genuine", "forged"}, use : {"plain", "tls"}]

Outputs == [iv : IV, key : Key \cup {NoKey}, at : Nat]
RecordsSent ==
  [n : 1 .. MaxMessages + 1, fixed : Fixed \cup {Zeros}, key : Key \cup {NoKey},
   iv : IV, sent : 0 .. MaxIv - 1, aad : Buffers]

(* The type of the state, with that of each piece of it.                    *)
Typed ==
  /\ mode \in Modes
  /\ actx \in Contexts /\ aes \in AesObjects /\ said \in Messages
  /\ phase \in {"setup", "aad", "data", "final", "done", "failed", "record"}
  /\ outs \in Seq(Outputs) /\ gens \in Seq(IV) /\ records \in Seq(RecordsSent)

------------------------------------------------------------------------------
(* The constants. *)
LEMMA Constants ==
  /\ Modes \subseteq {"gcm", "gcm_stream", "ccm"}
  /\ NoKey \notin Key /\ Zeros \notin Fixed /\ NoAeadIv \notin IV
  /\ MaxIv \in Nat /\ MaxIv > 0 /\ MaxPieces \in Nat /\ MaxPieces > 0
  /\ MaxMessages \in Nat /\ MaxMessages > 0
  /\ ZeroIv \in IV /\ Zeros \in Buffers
  /\ <<>> \in Pieces /\ Len(<<>>) = 0
BY AeadAssumption DEF Mode, IV, ZeroIv, Buffers, Pieces

LEMMA IvParts ==
  ASSUME NEW v \in IV
  PROVE  /\ v = <<v[1], v[2]>> /\ v[1] \in Fixed \cup {Zeros} /\ v[2] \in 0 .. MaxIv - 1
         /\ \A e \in 0 .. MaxIv - 1 : <<v[1], e>> \in IV
BY DEF IV

LEMMA IncType ==
  ASSUME NEW v \in IV
  PROVE  Inc(v) \in IV /\ Inc(v)[1] = v[1] /\ Inc(v)[2] = (v[2] + 1) % MaxIv
<1>1. v[2] \in Nat /\ (v[2] + 1) % MaxIv \in 0 .. MaxIv - 1
  BY IvParts, Constants
<1> QED BY <1>1, IvParts DEF Inc

LEMMA TagType ==
  ASSUME NEW k \in Key \cup {NoKey}, NEW v \in IV, NEW a \in Pieces, NEW d \in Pieces
  PROVE  Tag(k, v, a, d) \in Buffers
BY DEF Tag, Tags, Buffers

LEMMA PieceType ==
  ASSUME Typed, NEW held \in Pieces, Len(held) < MaxPieces
  PROVE  /\ Append(held, Piece(held)) \in Pieces
         /\ Len(Append(held, Piece(held))) = Len(held) + 1
<1>1. said.n \in 1 .. MaxMessages + 1
  BY DEF Typed, Messages
<1>2. Len(held) + 1 \in 1 .. MaxPieces
  BY Constants DEF Pieces
<1>3. Piece(held) \in (1 .. MaxMessages + 1) \X (1 .. MaxPieces)
  BY <1>1, <1>2 DEF Piece
<1> QED BY <1>3 DEF Pieces

(* Zeros, a tag, the AAD of a record and a claim of the caller are told     *)
(* apart.                                                                   *)
LEMMA ClaimsApart ==
  /\ \A k, v, a, d, n, g : Tag(k, v, a, d) # Claim(n, g)
  /\ \A m, n, g : Record(m) # Claim(n, g)
  /\ \A m, n, g, h : Claim(m, g) = Claim(n, h) => m = n /\ g = h
  /\ \A n \in 1 .. MaxMessages + 1, g \in BOOLEAN : Zeros # Claim(n, g)
<1>1. \A k, v, a, d, n, g : Tag(k, v, a, d) # Claim(n, g)
  BY DEF Tag, Claim
<1>2. \A m, n, g : Record(m) # Claim(n, g)
  BY DEF Record, Claim
<1>3. \A m, n, g, h : Claim(m, g) = Claim(n, h) => m = n /\ g = h
  BY DEF Claim
<1>4. \A n \in 1 .. MaxMessages + 1, g \in BOOLEAN : Zeros # Claim(n, g)
  BY AeadAssumption DEF Claim
<1> QED BY <1>1, <1>2, <1>3, <1>4

------------------------------------------------------------------------------
(* What each call does, field by field. *)
KeepsMessage(a, b) ==
  b.buf = a.buf /\ b.aad = a.aad /\ b.aadSet = a.aadSet /\ b.in = a.in
KeepsMarks(a, b) == b.tagAvail = a.tagAvail /\ b.authErr = a.authErr

LEMMA NextMessageType ==
  ASSUME Typed, Number <= MaxMessages
  PROVE  LET m == NextMessage(said) IN
         /\ Number \in 1 .. MaxMessages /\ m \in Messages
         /\ m.n = Number /\ m.key = said.key /\ m.iv = said.iv /\ m.fixed = said.fixed
         /\ m.aad = <<>> /\ m.data = <<>>
         /\ m.claim = IF phase = "setup" THEN said.claim ELSE "none"
<1> DEFINE k == IF phase = "setup" THEN said.claim ELSE "none"
<1>1. said \in Messages /\ Number \in 1 .. MaxMessages
  BY Constants DEF Typed, Messages, Number
<1>2. NextMessage(said) =
        [said EXCEPT !.n = Number, !.aad = <<>>, !.data = <<>>, !.claim = k]
  BY DEF NextMessage
<1>3. k \in {"none", "genuine", "forged"}
  BY <1>1 DEF Messages
<1>4. k = IF phase = "setup" THEN said.claim ELSE "none"
  OBVIOUS
<1>5. Number \in 1 .. MaxMessages + 1 /\ <<>> \in Pieces
  BY <1>1, Constants
<1> HIDE DEF k
<1> QED BY <1>1, <1>2, <1>3, <1>4, <1>5 DEF Messages

LEMMA InitCallDoes ==
  ASSUME Typed, NEW e \in BOOLEAN, NEW k \in Key \cup {NoKey}, NEW v \in IV \cup {NoAeadIv},
         InitCall(e, k, v)
  PROVE  /\ Typed'
         /\ Between /\ Number <= MaxMessages
         /\ actx'.enc = e
         /\ v # NoAeadIv => actx'.iv = v /\ actx'.ivState = "buffered" /\ ~actx'.ivSet
         /\ v = NoAeadIv =>
              /\ actx'.iv = actx.iv /\ actx'.ivState = actx.ivState
              /\ actx'.ivSet = actx.ivSet
         /\ KeepsMessage(actx, actx') /\ KeepsMarks(actx, actx')
         /\ aes'.key = IF k # NoKey THEN k ELSE aes.key
         /\ said'.n = Number /\ said'.aad = <<>> /\ said'.data = <<>>
         /\ said'.key = IF k # NoKey THEN k ELSE said.key
         /\ said'.iv = IF v # NoAeadIv THEN v
                       ELSE IF phase = "setup" THEN said.iv ELSE NoAeadIv
         /\ said'.fixed = IF v # NoAeadIv THEN Zeros ELSE said.fixed
         /\ said'.claim = IF phase = "setup" THEN said.claim ELSE "none"
         /\ phase' = "setup" /\ outs' = <<>> /\ gens' = <<>>
         /\ result' = [ok |-> TRUE, due |-> TRUE, got |-> Zeros, tag |-> Zeros]
         /\ mode' = mode /\ records' = records
<1>1. actx' \in Contexts /\ actx'.enc = e
      /\ (v # NoAeadIv => actx'.iv = v /\ actx'.ivState = "buffered" /\ ~actx'.ivSet)
      /\ (v = NoAeadIv =>
            /\ actx'.iv = actx.iv /\ actx'.ivState = actx.ivState
            /\ actx'.ivSet = actx.ivSet)
      /\ KeepsMessage(actx, actx') /\ KeepsMarks(actx, actx')
  <2> DEFINE ks == actx.keySet \/ (mode # "ccm" /\ k # NoKey)
             w == IF v # NoAeadIv THEN v ELSE actx.iv
             st == IF v # NoAeadIv THEN "buffered" ELSE actx.ivState
             vs == actx.ivSet /\ v = NoAeadIv
             tl == actx.tls /\ mode = "ccm"
  <2>1. actx' = [actx EXCEPT !.enc = e, !.keySet = ks, !.iv = w, !.ivState = st,
                             !.ivSet = vs, !.tls = tl]
    BY DEF InitCall
  <2>2. actx \in Contexts
    BY DEF Typed
  <2>3. /\ ks \in BOOLEAN /\ vs \in BOOLEAN /\ tl \in BOOLEAN /\ w \in IV
        /\ st \in {"uninitialised", "copied", "buffered", "finished"}
    BY <2>2 DEF Contexts
  <2>4. (v # NoAeadIv => w = v /\ st = "buffered" /\ ~vs)
        /\ (v = NoAeadIv => w = actx.iv /\ st = actx.ivState /\ vs = actx.ivSet)
    BY <2>2 DEF Contexts
  <2> HIDE DEF ks, w, st, vs, tl
  <2>5. actx' \in Contexts
    <3> DEFINE x == [actx EXCEPT !.enc = e, !.keySet = ks, !.iv = w]
    <3>1. x \in Contexts
      BY <2>2, <2>3 DEF Contexts
    <3>2. actx' = [x EXCEPT !.ivState = st, !.ivSet = vs, !.tls = tl]
      BY <2>1, <2>2 DEF Contexts
    <3> HIDE DEF x
    <3> QED BY <2>3, <3>1, <3>2 DEF Contexts
  <2>6. /\ actx'.enc = e /\ actx'.iv = w /\ actx'.ivState = st /\ actx'.ivSet = vs
        /\ KeepsMessage(actx, actx') /\ KeepsMarks(actx, actx')
    BY <2>1, <2>2 DEF Contexts, KeepsMessage, KeepsMarks
  <2> QED BY <2>4, <2>5, <2>6
<1>2. aes' \in AesObjects /\ aes'.key = IF k # NoKey THEN k ELSE aes.key
  <2>1. aes \in AesObjects /\ <<>> \in Pieces
    BY Constants DEF Typed
  <2> DEFINE keyed == IF k # NoKey THEN [aes EXCEPT !.key = k] ELSE aes
  <2>2. aes' = IF mode = "gcm_stream" /\ k # NoKey /\ v # NoAeadIv
               THEN Started(keyed, v) ELSE keyed
    BY DEF InitCall
  <2>3. keyed \in AesObjects /\ keyed.key = IF k # NoKey THEN k ELSE aes.key
    BY <2>1 DEF AesObjects
  <2> HIDE DEF keyed
  <2> QED BY <2>1, <2>2, <2>3 DEF Started, AesObjects
<1>3. /\ said' \in Messages
      /\ said'.n = Number /\ said'.aad = <<>> /\ said'.data = <<>>
      /\ said'.key = IF k # NoKey THEN k ELSE said.key
      /\ said'.iv = IF v # NoAeadIv THEN v
                    ELSE IF phase = "setup" THEN said.iv ELSE NoAeadIv
      /\ said'.fixed = IF v # NoAeadIv THEN Zeros ELSE said.fixed
      /\ said'.claim = IF phase = "setup" THEN said.claim ELSE "none"
  <2> DEFINE m == NextMessage(said)
             q == IF k # NoKey THEN k ELSE m.key
             w == IF v # NoAeadIv THEN v ELSE IF phase = "setup" THEN m.iv ELSE NoAeadIv
             f == IF v # NoAeadIv THEN Zeros ELSE m.fixed
  <2>1. said' = [m EXCEPT !.key = q, !.iv = w, !.fixed = f, !.use = "plain"]
    BY DEF InitCall
  <2>2. /\ m \in Messages
        /\ m.n = Number /\ m.key = said.key /\ m.iv = said.iv /\ m.fixed = said.fixed
        /\ m.aad = <<>> /\ m.data = <<>>
        /\ m.claim = IF phase = "setup" THEN said.claim ELSE "none"
    BY NextMessageType DEF InitCall
  <2> HIDE DEF m
  <2>3. q \in Key \cup {NoKey} /\ w \in IV \cup {NoAeadIv} /\ f \in Fixed \cup {Zeros}
    BY <2>2 DEF Messages
  <2>4. /\ q = IF k # NoKey THEN k ELSE said.key
        /\ w = IF v # NoAeadIv THEN v ELSE IF phase = "setup" THEN said.iv ELSE NoAeadIv
        /\ f = IF v # NoAeadIv THEN Zeros ELSE said.fixed
    BY <2>2
  <2> HIDE DEF q, w, f
  <2> QED BY <2>1, <2>2, <2>3, <2>4 DEF Messages
<1>4. /\ Between /\ Number <= MaxMessages
      /\ phase' = "setup" /\ outs' = <<>> /\ gens' = <<>>
      /\ result' = [ok |-> TRUE, due |-> TRUE, got |-> Zeros, tag |-> Zeros]
      /\ mode' = mode /\ records' = records
  BY DEF InitCall, Answer
<1>5. Typed'
  BY <1>1, <1>2, <1>3, <1>4 DEF Typed
<1> QED BY <1>1, <1>2, <1>3, <1>4, <1>5

LEMMA SetTagLenDoes ==
  ASSUME Typed, SetTagLen
  PROVE  /\ Typed' /\ phase = "setup"
         /\ actx'.enc = actx.enc /\ actx'.iv = actx.iv /\ actx'.origIv = actx.origIv
         /\ actx'.ivState = actx.ivState /\ actx'.ivSet = actx.ivSet
         /\ KeepsMessage(actx, actx') /\ KeepsMarks(actx, actx')
         /\ UNCHANGED <<mode, aes, said, phase, outs, result, gens, records>>
<1>1. actx' = [actx EXCEPT !.tagSet = TRUE] /\ actx \in Contexts
  BY DEF SetTagLen, Typed
<1>2. /\ actx' \in Contexts
      /\ actx'.enc = actx.enc /\ actx'.iv = actx.iv /\ actx'.origIv = actx.origIv
      /\ actx'.ivState = actx.ivState /\ actx'.ivSet = actx.ivSet
      /\ KeepsMessage(actx, actx') /\ KeepsMarks(actx, actx')
  BY <1>1 DEF Contexts, KeepsMessage, KeepsMarks
<1>3. phase = "setup" /\ UNCHANGED <<mode, aes, said, phase, outs, result, gens, records>>
  BY DEF SetTagLen
<1> QED BY <1>2, <1>3 DEF Typed

LEMMA SetTagDoes ==
  ASSUME Typed, NEW genuine \in BOOLEAN, SetTag(genuine)
  PROVE  /\ Typed' /\ Plain /\ ~actx.enc /\ (mode = "ccm" => phase # "data")
         /\ said.claim = "none"
         /\ actx'.enc = actx.enc /\ actx'.iv = actx.iv /\ actx'.origIv = actx.origIv
         /\ actx'.ivState = actx.ivState /\ actx'.ivSet = actx.ivSet
         /\ actx'.aad = actx.aad /\ actx'.aadSet = actx.aadSet /\ actx'.in = actx.in
         /\ actx'.buf = Claim(said.n, genuine)
         /\ KeepsMarks(actx, actx')
         /\ said'.n = said.n /\ said'.key = said.key /\ said'.iv = said.iv
         /\ said'.fixed = said.fixed /\ said'.aad = said.aad /\ said'.data = said.data
         /\ said'.claim = IF genuine THEN "genuine" ELSE "forged"
         /\ UNCHANGED <<mode, aes, phase, outs, result, gens, records>>
<1> DEFINE b == Claim(said.n, genuine)
           k == IF genuine THEN "genuine" ELSE "forged"
<1>1. /\ actx' = [actx EXCEPT !.buf = b, !.tagSet = TRUE] /\ actx \in Contexts
      /\ said' = [said EXCEPT !.claim = k] /\ said \in Messages
  BY DEF SetTag, Typed
<1>2. b \in Buffers /\ k \in {"genuine", "forged"}
  BY <1>1 DEF Claim, Buffers, Messages
<1>3. b = Claim(said.n, genuine) /\ k = IF genuine THEN "genuine" ELSE "forged"
  OBVIOUS
<1> HIDE DEF b, k
<1>4. /\ actx' \in Contexts
      /\ actx'.enc = actx.enc /\ actx'.iv = actx.iv /\ actx'.origIv = actx.origIv
      /\ actx'.ivState = actx.ivState /\ actx'.ivSet = actx.ivSet
      /\ actx'.aad = actx.aad /\ actx'.aadSet = actx.aadSet /\ actx'.in = actx.in
      /\ actx'.buf = b /\ KeepsMarks(actx, actx')
  BY <1>1, <1>2 DEF Contexts, KeepsMarks
<1>5. /\ said' \in Messages
      /\ said'.n = said.n /\ said'.key = said.key /\ said'.iv = said.iv
      /\ said'.fixed = said.fixed /\ said'.aad = said.aad /\ said'.data = said.data
      /\ said'.claim = k
  BY <1>1, <1>2 DEF Messages
<1>6. /\ UNCHANGED <<mode, aes, phase, outs, result, gens, records>>
      /\ Plain /\ ~actx.enc /\ (mode = "ccm" => phase # "data") /\ said.claim = "none"
  BY DEF SetTag
<1> QED BY <1>3, <1>4, <1>5, <1>6 DEF Typed

LEMMA RestoreIvDoes ==
  ASSUME Typed, NEW v \in IV, RestoreIv(v)
  PROVE  /\ Typed' /\ phase = "setup" /\ mode # "ccm"
         /\ actx'.enc = actx.enc /\ actx'.iv = v
         /\ actx'.ivState = "buffered" /\ actx'.ivSet = actx.ivSet
         /\ KeepsMessage(actx, actx') /\ KeepsMarks(actx, actx')
         /\ said'.n = said.n /\ said'.key = said.key /\ said'.iv = NoAeadIv
         /\ said'.fixed = Zeros /\ said'.aad = said.aad /\ said'.data = said.data
         /\ said'.claim = said.claim /\ gens' = <<>>
         /\ UNCHANGED <<mode, aes, phase, outs, result, records>>
<1>1. /\ actx' = [actx EXCEPT !.iv = v, !.ivGen = TRUE, !.ivState = "buffered"]
      /\ said' = [said EXCEPT !.iv = NoAeadIv, !.fixed = Zeros]
      /\ actx \in Contexts /\ said \in Messages
  BY DEF RestoreIv, Typed
<1>2. /\ actx' \in Contexts /\ actx'.enc = actx.enc /\ actx'.iv = v
      /\ actx'.ivState = "buffered" /\ actx'.ivSet = actx.ivSet
      /\ KeepsMessage(actx, actx') /\ KeepsMarks(actx, actx')
  BY <1>1 DEF Contexts, KeepsMessage, KeepsMarks
<1>3. /\ said' \in Messages
      /\ said'.n = said.n /\ said'.key = said.key /\ said'.iv = NoAeadIv
      /\ said'.fixed = Zeros /\ said'.aad = said.aad /\ said'.data = said.data
      /\ said'.claim = said.claim
  BY <1>1 DEF Messages
<1>4. /\ phase = "setup" /\ mode # "ccm" /\ gens' = <<>>
      /\ UNCHANGED <<mode, aes, phase, outs, result, records>>
  BY DEF RestoreIv
<1> QED BY <1>2, <1>3, <1>4 DEF Typed

LEMMA SetFixedDoes ==
  ASSUME Typed, NEW f \in Fixed, NEW e \in 0 .. MaxIv - 1, SetFixed(f, e)
  PROVE  /\ Typed' /\ phase = "setup"
         /\ actx'.enc = actx.enc /\ actx'.iv = <<f, e>> /\ actx'.iv[1] = f
         /\ KeepsMessage(actx, actx') /\ KeepsMarks(actx, actx')
         /\ said'.n = said.n /\ said'.key = said.key /\ said'.iv = NoAeadIv
         /\ said'.fixed = f /\ said'.aad = said.aad /\ said'.data = said.data
         /\ said'.claim = said.claim /\ gens' = <<>> /\ records' = <<>>
         /\ UNCHANGED <<mode, aes, phase, outs, result>>
<1> DEFINE v == <<f, e>>
           vs == actx.ivSet \/ actx.enc
<1>1. /\ IF mode = "ccm" THEN actx' = [actx EXCEPT !.iv = v]
         ELSE actx' = [actx EXCEPT !.iv = v, !.ivSet = vs, !.ivGen = TRUE, !.ivState = "buffered"]
      /\ said' = [said EXCEPT !.fixed = f, !.iv = NoAeadIv]
      /\ actx \in Contexts /\ said \in Messages
  BY DEF SetFixed, Typed
<1>2. v \in IV /\ v[1] = f /\ vs \in BOOLEAN /\ v = <<f, e>>
  BY <1>1 DEF IV, Contexts
<1> HIDE DEF v, vs
<1>3. /\ actx' \in Contexts /\ actx'.enc = actx.enc /\ actx'.iv = v
      /\ KeepsMessage(actx, actx') /\ KeepsMarks(actx, actx')
  BY <1>1, <1>2 DEF Contexts, KeepsMessage, KeepsMarks
<1>4. /\ said' \in Messages
      /\ said'.n = said.n /\ said'.key = said.key /\ said'.iv = NoAeadIv
      /\ said'.fixed = f /\ said'.aad = said.aad /\ said'.data = said.data
      /\ said'.claim = said.claim
  BY <1>1 DEF Messages
<1>5. /\ phase = "setup" /\ gens' = <<>> /\ records' = <<>>
      /\ UNCHANGED <<mode, aes, phase, outs, result>>
  BY DEF SetFixed
<1> QED BY <1>2, <1>3, <1>4, <1>5 DEF Typed

LEMMA NewIvMessage ==
  ASSUME Typed, Number <= MaxMessages, NEW v \in IV,
         said' = [NextMessage(said) EXCEPT !.iv = v]
  PROVE  /\ said' \in Messages
         /\ said'.n = Number /\ said'.key = said.key /\ said'.iv = v
         /\ said'.fixed = said.fixed /\ said'.aad = <<>> /\ said'.data = <<>>
         /\ said'.claim = IF phase = "setup" THEN said.claim ELSE "none"
<1> DEFINE m == NextMessage(said)
<1>1. /\ m \in Messages
      /\ m.n = Number /\ m.key = said.key /\ m.fixed = said.fixed
      /\ m.aad = <<>> /\ m.data = <<>>
      /\ m.claim = IF phase = "setup" THEN said.claim ELSE "none"
  BY NextMessageType
<1>2. said' = [m EXCEPT !.iv = v]
  OBVIOUS
<1> HIDE DEF m
<1> QED BY <1>1, <1>2 DEF Messages

LEMMA IvGenDoes ==
  ASSUME Typed, IvGen
  PROVE  /\ Typed'
         /\ mode # "ccm" /\ Between /\ Number <= MaxMessages
         /\ actx'.enc = actx.enc /\ actx'.iv = Inc(actx.iv) /\ actx'.ivState = "copied"
         /\ mode = "gcm" => actx'.origIv = actx.iv
         /\ KeepsMessage(actx, actx') /\ KeepsMarks(actx, actx')
         /\ aes'.key = aes.key
         /\ mode = "gcm_stream" =>
              aes'.on /\ aes'.iv = actx.iv /\ aes'.aad = <<>> /\ aes'.data = <<>>
         /\ said'.n = Number /\ said'.key = said.key /\ said'.iv = actx.iv
         /\ said'.fixed = said.fixed /\ said'.aad = <<>> /\ said'.data = <<>>
         /\ said'.claim = IF phase = "setup" THEN said.claim ELSE "none"
         /\ gens' = Append(gens, actx.iv) /\ phase' = "aad" /\ outs' = <<>>
         /\ result' = [ok |-> TRUE, due |-> TRUE, got |-> Zeros, tag |-> Zeros]
         /\ mode' = mode /\ records' = records
<1> DEFINE o == IF mode = "gcm" THEN actx.iv ELSE actx.origIv
           w == Inc(actx.iv)
<1>1. /\ actx' = [actx EXCEPT !.origIv = o, !.iv = w, !.ivState = "copied"]
      /\ actx \in Contexts /\ aes \in AesObjects
      /\ aes' = IF mode = "gcm_stream" THEN Started(aes, actx.iv) ELSE aes
  BY DEF IvGen, RandIv, Typed
<1>2. actx.iv \in IV /\ o \in IV /\ w \in IV
  BY <1>1, IncType DEF Contexts
<1>3. w = Inc(actx.iv) /\ (mode = "gcm" => o = actx.iv)
  OBVIOUS
<1> HIDE DEF o, w
<1>4. /\ actx' \in Contexts
      /\ actx'.enc = actx.enc /\ actx'.iv = w /\ actx'.ivState = "copied"
      /\ actx'.origIv = o
      /\ KeepsMessage(actx, actx') /\ KeepsMarks(actx, actx')
  BY <1>1, <1>2 DEF Contexts, KeepsMessage, KeepsMarks
<1>5. /\ aes' \in AesObjects /\ aes'.key = aes.key
      /\ mode = "gcm_stream" =>
           aes'.on /\ aes'.iv = actx.iv /\ aes'.aad = <<>> /\ aes'.data = <<>>
  BY <1>1, <1>2, Constants DEF Started, AesObjects
<1>6. /\ Number <= MaxMessages /\ said' = [NextMessage(said) EXCEPT !.iv = actx.iv]
      /\ mode # "ccm" /\ Between
      /\ gens' = Append(gens, actx.iv) /\ phase' = "aad" /\ outs' = <<>>
      /\ result' = [ok |-> TRUE, due |-> TRUE, got |-> Zeros, tag |-> Zeros]
      /\ mode' = mode /\ records' = records
  BY DEF IvGen, Answer
<1>7. /\ said' \in Messages
      /\ said'.n = Number /\ said'.key = said.key /\ said'.iv = actx.iv
      /\ said'.fixed = said.fixed /\ said'.aad = <<>> /\ said'.data = <<>>
      /\ said'.claim = IF phase = "setup" THEN said.claim ELSE "none"
  BY <1>2, <1>6, NewIvMessage
<1>8. gens' \in Seq(IV) /\ outs' \in Seq(Outputs)
  BY <1>2, <1>6 DEF Typed
<1> QED BY <1>3, <1>4, <1>5, <1>6, <1>7, <1>8 DEF Typed

LEMMA SetIvInvDoes ==
  ASSUME Typed, NEW e \in 0 .. MaxIv - 1, SetIvInv(e)
  PROVE  /\ Typed'
         /\ mode # "ccm" /\ Between /\ Number <= MaxMessages
         /\ actx'.enc = actx.enc /\ actx'.iv = <<actx.iv[1], e>>
         /\ actx'.ivState = "buffered" /\ actx'.iv[1] = actx.iv[1]
         /\ KeepsMessage(actx, actx') /\ KeepsMarks(actx, actx')
         /\ aes' = aes
         /\ said'.n = Number /\ said'.key = said.key /\ said'.iv = <<actx.iv[1], e>>
         /\ said'.fixed = said.fixed /\ said'.aad = <<>> /\ said'.data = <<>>
         /\ said'.claim = IF phase = "setup" THEN said.claim ELSE "none"
         /\ gens' = <<>> /\ phase' = "aad" /\ outs' = <<>>
         /\ result' = [ok |-> TRUE, due |-> TRUE, got |-> Zeros, tag |-> Zeros]
         /\ mode' = mode /\ records' = records
<1> DEFINE o == IF mode = "gcm" THEN actx.iv ELSE actx.origIv
           w == <<actx.iv[1], e>>
<1>1. /\ actx' = [actx EXCEPT !.origIv = o, !.iv = w, !.ivState = "buffered"]
      /\ actx \in Contexts /\ aes' = aes
  BY DEF SetIvInv, GivenIv, Typed
<1>2. o \in IV /\ w \in IV /\ w[1] = actx.iv[1] /\ w = <<actx.iv[1], e>>
  BY <1>1, IvParts DEF Contexts
<1> HIDE DEF o, w
<1>4. /\ actx' \in Contexts
      /\ actx'.enc = actx.enc /\ actx'.iv = w /\ actx'.ivState = "buffered"
      /\ KeepsMessage(actx, actx') /\ KeepsMarks(actx, actx')
  BY <1>1, <1>2 DEF Contexts, KeepsMessage, KeepsMarks
<1>5. /\ Number <= MaxMessages /\ said' = [NextMessage(said) EXCEPT !.iv = w]
      /\ mode # "ccm" /\ Between
      /\ gens' = <<>> /\ phase' = "aad" /\ outs' = <<>>
      /\ result' = [ok |-> TRUE, due |-> TRUE, got |-> Zeros, tag |-> Zeros]
      /\ mode' = mode /\ records' = records
  BY DEF SetIvInv, Answer, w
<1>6. /\ said' \in Messages
      /\ said'.n = Number /\ said'.key = said.key /\ said'.iv = w
      /\ said'.fixed = said.fixed /\ said'.aad = <<>> /\ said'.data = <<>>
      /\ said'.claim = IF phase = "setup" THEN said.claim ELSE "none"
  BY <1>2, <1>5, NewIvMessage
<1> QED BY <1>1, <1>2, <1>4, <1>5, <1>6 DEF Typed

LEMMA GetTagDoes ==
  ASSUME Typed, GetTag
  PROVE  /\ Typed' /\ phase = "final" /\ phase' = "done" /\ actx.enc
         /\ actx'.enc = actx.enc /\ actx'.iv = actx.iv
         /\ actx'.ivState = actx.ivState /\ actx'.ivSet = actx.ivSet
         /\ KeepsMessage(actx, actx') /\ ~actx'.tagAvail /\ actx'.authErr = actx.authErr
         /\ result' = [ok |-> TRUE, due |-> TRUE, got |-> actx.buf, tag |-> Due(said)]
         /\ UNCHANGED <<mode, aes, said, outs, gens, records>>
<1>1. actx' = [actx EXCEPT !.tagAvail = FALSE] /\ actx \in Contexts
  BY DEF GetTag, Typed
<1>2. /\ actx' \in Contexts
      /\ actx'.enc = actx.enc /\ actx'.iv = actx.iv
      /\ actx'.ivState = actx.ivState /\ actx'.ivSet = actx.ivSet
      /\ KeepsMessage(actx, actx') /\ ~actx'.tagAvail /\ actx'.authErr = actx.authErr
  BY <1>1 DEF Contexts, KeepsMessage
<1>3. /\ phase = "final" /\ phase' = "done" /\ actx.enc
      /\ result' = [ok |-> TRUE, due |-> TRUE, got |-> actx.buf, tag |-> Due(said)]
      /\ UNCHANGED <<mode, aes, said, outs, gens, records>>
  BY DEF GetTag
<1> QED BY <1>2, <1>3 DEF Typed

(* A piece more of what the program gives. *)
LEMMA AadGiven ==
  ASSUME Typed, UpdateAad
  PROVE  /\ phase \in {"setup", "aad"} /\ Given /\ Len(said.aad) < MaxPieces
         /\ said' \in Messages
         /\ said'.n = said.n /\ said'.key = said.key /\ said'.iv = said.iv
         /\ said'.fixed = said.fixed /\ said'.data = said.data /\ said'.claim = said.claim
         /\ said'.aad = Append(said.aad, Piece(said.aad))
         /\ phase' = IF result'.ok THEN "aad" ELSE "failed"
         /\ UNCHANGED <<mode, outs, gens, records>>
<1> DEFINE s == Append(said.aad, Piece(said.aad))
<1>1. /\ said \in Messages /\ Len(said.aad) < MaxPieces
      /\ said' = [said EXCEPT !.aad = s]
  BY DEF UpdateAad, Typed
<1>2. s \in Pieces /\ s = Append(said.aad, Piece(said.aad))
  BY <1>1, PieceType DEF Messages
<1> HIDE DEF s
<1>3. /\ said' \in Messages
      /\ said'.n = said.n /\ said'.key = said.key /\ said'.iv = said.iv
      /\ said'.fixed = said.fixed /\ said'.data = said.data /\ said'.claim = said.claim
      /\ said'.aad = s
  BY <1>1, <1>2 DEF Messages
<1>4. /\ phase \in {"setup", "aad"} /\ Given
      /\ phase' = IF result'.ok THEN "aad" ELSE "failed"
      /\ UNCHANGED <<mode, outs, gens, records>>
  BY DEF UpdateAad
<1> QED BY <1>1, <1>2, <1>3, <1>4

LEMMA DataGiven ==
  ASSUME Typed, Plain, Len(said.data) < MaxPieces,
         said' = [said EXCEPT !.data = Append(@, Piece(said.data))]
  PROVE  /\ said' \in Messages
         /\ said'.n = said.n /\ said'.key = said.key /\ said'.iv = said.iv
         /\ said'.fixed = said.fixed /\ said'.aad = said.aad /\ said'.claim = said.claim
         /\ said'.data = Append(said.data, Piece(said.data))
         /\ Len(said'.data) = Len(said.data) + 1
<1> DEFINE s == Append(said.data, Piece(said.data))
<1>1. said \in Messages /\ said' = [said EXCEPT !.data = s]
  BY DEF Typed
<1>2. s \in Pieces /\ s = Append(said.data, Piece(said.data)) /\ Len(s) = Len(said.data) + 1
  BY <1>1, PieceType DEF Messages
<1> HIDE DEF s
<1> QED BY <1>1, <1>2 DEF Messages

(* The AAD is kept by GCM and CCM; wolfCrypt has it in the streaming build. *)
CachesAad ==
  /\ actx'.enc = actx.enc /\ actx'.iv = actx.iv /\ actx'.origIv = actx.origIv
  /\ actx'.ivState = actx.ivState /\ actx'.ivSet = actx.ivSet
  /\ actx'.buf = actx.buf /\ actx'.in = actx.in /\ actx'.aadSet
  /\ actx'.aad = Append(actx.aad, Piece(said.aad))
  /\ KeepsMarks(actx, actx') /\ aes' = aes

LEMMA CacheAadDoes ==
  ASSUME Typed, Len(said.aad) < MaxPieces, CacheAad
  PROVE  actx' \in Contexts /\ CachesAad
<1> DEFINE s == Append(actx.aad, Piece(said.aad))
<1>1. /\ actx \in Contexts /\ said \in Messages /\ aes' = aes
      /\ actx' = [actx EXCEPT !.aad = s, !.aadSet = TRUE]
  BY DEF CacheAad, Typed
<1>2. s \in Pieces
  <2>1. Piece(said.aad) \in (1 .. MaxMessages + 1) \X (1 .. MaxPieces)
    BY <1>1, Constants DEF Piece, Pieces, Messages
  <2> QED BY <1>1, <2>1 DEF Pieces, Contexts
<1>3. s = Append(actx.aad, Piece(said.aad))
  OBVIOUS
<1> HIDE DEF s
<1> QED BY <1>1, <1>2, <1>3 DEF Contexts, CachesAad, KeepsMarks

(* wolfCrypt's object from the start of a message. *)
LEMMA StreamStartDoes ==
  ASSUME Typed
  PROVE  LET a == StreamStart IN
         /\ a \in AesObjects /\ a.key = aes.key
         /\ actx.ivState = "buffered" =>
              a.on /\ a.iv = actx.iv /\ a.aad = <<>> /\ a.data = <<>>
         /\ actx.ivState # "buffered" => a = aes
         /\ Copied \in Contexts /\ Copied.ivState # "buffered"
         /\ Copied.enc = actx.enc /\ Copied.iv = actx.iv
         /\ KeepsMessage(actx, Copied) /\ KeepsMarks(actx, Copied)
<1>1. actx \in Contexts /\ aes \in AesObjects /\ <<>> \in Pieces
  BY Constants DEF Typed
<1>2. actx.iv \in IV
  BY <1>1 DEF Contexts
<1>3. /\ StreamStart \in AesObjects /\ StreamStart.key = aes.key
      /\ actx.ivState = "buffered" =>
           /\ StreamStart.on /\ StreamStart.iv = actx.iv
           /\ StreamStart.aad = <<>> /\ StreamStart.data = <<>>
      /\ actx.ivState # "buffered" => StreamStart = aes
  BY <1>1, <1>2 DEF StreamStart, Started, AesObjects
<1> DEFINE st == IF actx.ivState = "buffered" THEN "copied" ELSE actx.ivState
<1>4. Copied = [actx EXCEPT !.ivState = st]
  BY DEF Copied
<1>5. st \in {"uninitialised", "copied", "finished"}
  BY <1>1 DEF Contexts
<1> HIDE DEF st
<1>6. /\ Copied \in Contexts /\ Copied.ivState # "buffered"
      /\ Copied.enc = actx.enc /\ Copied.iv = actx.iv
      /\ KeepsMessage(actx, Copied) /\ KeepsMarks(actx, Copied)
  BY <1>1, <1>4, <1>5 DEF Contexts, KeepsMessage, KeepsMarks
<1> QED BY <1>3, <1>6

StreamsOn ==
  /\ actx'.enc = actx.enc /\ actx'.iv = actx.iv /\ actx'.ivState # "buffered"
  /\ KeepsMessage(actx, actx') /\ KeepsMarks(actx, actx')
  /\ aes'.key = aes.key /\ aes'.on = StreamStart.on /\ aes'.iv = StreamStart.iv

LEMMA StreamAadDoes ==
  ASSUME Typed, Len(said.aad) < MaxPieces, StreamAad
  PROVE  /\ actx' \in Contexts /\ aes' \in AesObjects /\ StreamsOn
         /\ aes'.aad = Append(StreamStart.aad, Piece(said.aad))
         /\ aes'.data = StreamStart.data
<1> DEFINE a == StreamStart
           s == Append(a.aad, Piece(said.aad))
<1>1. aes' = [a EXCEPT !.aad = s] /\ actx' = Copied /\ said \in Messages
  BY DEF StreamAad, Typed
<1>2. /\ a \in AesObjects /\ a.key = aes.key
      /\ Copied \in Contexts /\ Copied.ivState # "buffered"
      /\ Copied.enc = actx.enc /\ Copied.iv = actx.iv
      /\ KeepsMessage(actx, Copied) /\ KeepsMarks(actx, Copied)
  BY StreamStartDoes
<1> HIDE DEF a
<1>3. s \in Pieces
  <2>1. Piece(said.aad) \in (1 .. MaxMessages + 1) \X (1 .. MaxPieces)
    BY <1>1, Constants DEF Piece, Pieces, Messages
  <2> QED BY <1>2, <2>1 DEF Pieces, AesObjects
<1>4. s = Append(a.aad, Piece(said.aad))
  OBVIOUS
<1> HIDE DEF s
<1>5. /\ aes' \in AesObjects /\ aes'.key = a.key /\ aes'.on = a.on /\ aes'.iv = a.iv
      /\ aes'.data = a.data /\ aes'.aad = s
  BY <1>1, <1>2, <1>3 DEF AesObjects
<1> QED BY <1>1, <1>2, <1>4, <1>5 DEF StreamsOn, a

LEMMA StreamDataDoes ==
  ASSUME Typed, Len(said.data) < MaxPieces, StreamData
  PROVE  /\ actx' \in Contexts /\ aes' \in AesObjects /\ StreamsOn
         /\ aes'.data = Append(StreamStart.data, Piece(said.data))
         /\ aes'.aad = StreamStart.aad
         /\ outs' = Append(outs, [iv |-> aes'.iv, key |-> aes'.key, at |-> Len(aes'.data)])
         /\ outs' \in Seq(Outputs)
         /\ result' = [ok |-> TRUE, due |-> TRUE, got |-> Zeros, tag |-> Zeros]
<1> DEFINE a == StreamStart
           s == Append(a.data, Piece(said.data))
<1>1. /\ aes' = [a EXCEPT !.data = s] /\ actx' = Copied /\ said \in Messages
      /\ outs' = Append(outs, [iv |-> aes'.iv, key |-> aes'.key, at |-> Len(aes'.data)])
      /\ result' = [ok |-> TRUE, due |-> TRUE, got |-> Zeros, tag |-> Zeros]
  BY DEF StreamData, Typed, Answer
<1>2. /\ a \in AesObjects /\ a.key = aes.key
      /\ Copied \in Contexts /\ Copied.ivState # "buffered"
      /\ Copied.enc = actx.enc /\ Copied.iv = actx.iv
      /\ KeepsMessage(actx, Copied) /\ KeepsMarks(actx, Copied)
  BY StreamStartDoes
<1> HIDE DEF a
<1>3. s \in Pieces
  <2>1. Piece(said.data) \in (1 .. MaxMessages + 1) \X (1 .. MaxPieces)
    BY <1>1, Constants DEF Piece, Pieces, Messages
  <2> QED BY <1>2, <2>1 DEF Pieces, AesObjects
<1>4. s = Append(a.data, Piece(said.data))
  OBVIOUS
<1> HIDE DEF s
<1>5. /\ aes' \in AesObjects /\ aes'.key = a.key /\ aes'.on = a.on /\ aes'.iv = a.iv
      /\ aes'.aad = a.aad /\ aes'.data = s
  BY <1>1, <1>2, <1>3 DEF AesObjects
<1>6. [iv |-> aes'.iv, key |-> aes'.key, at |-> Len(aes'.data)] \in Outputs
  BY <1>5 DEF AesObjects, Outputs, Pieces
<1>7. outs' \in Seq(Outputs)
  BY <1>1, <1>6 DEF Typed
<1> QED BY <1>1, <1>2, <1>4, <1>5, <1>7 DEF StreamsOn, a

(* The message in AES-GCM's own buffers. *)
LEMMA SetExtIvDoes ==
  ASSUME NEW x \in Contexts
  PROVE  LET y == SetExtIv(x) IN
         /\ y \in Contexts /\ MessageIv(y) = MessageIv(x) /\ MessageIv(x) \in IV
         /\ y.enc = x.enc /\ y.iv = x.iv
         /\ KeepsMessage(x, y) /\ KeepsMarks(x, y)
<1>1. CASE x.ivState = "buffered"
  <2>1. SetExtIv(x) = [x EXCEPT !.ivState = "copied", !.origIv = x.iv]
    BY <1>1 DEF SetExtIv
  <2>2. x.iv \in IV /\ MessageIv(x) = x.iv
    BY <1>1 DEF Contexts, MessageIv
  <2> QED BY <2>1, <2>2 DEF Contexts, KeepsMessage, KeepsMarks, MessageIv
<1>2. CASE x.ivState # "buffered"
  BY <1>2 DEF SetExtIv, Contexts, KeepsMessage, KeepsMarks, MessageIv
<1> QED BY <1>1, <1>2

TagNow == Tag(aes.key, MessageIv(actx), actx.aad, actx.in)

LEMMA GcmDataDoes ==
  ASSUME Typed, Len(said.data) < MaxPieces, GcmData
  PROVE  /\ actx' \in Contexts /\ aes' = aes
         /\ actx'.enc = actx.enc /\ actx'.iv = actx.iv
         /\ MessageIv(actx') = MessageIv(actx)
         /\ actx'.aad = actx.aad /\ actx'.aadSet = actx.aadSet
         /\ actx'.authErr = actx.authErr
         /\ actx'.in = Append(actx.in, Piece(said.data))
         /\ actx.enc =>
              /\ actx'.tagAvail
              /\ actx'.buf = Tag(aes.key, MessageIv(actx), actx.aad, actx'.in)
         /\ ~actx.enc => actx'.tagAvail = actx.tagAvail /\ actx'.buf = actx.buf
         /\ outs' = Append(outs, [iv |-> MessageIv(actx), key |-> aes.key,
                                  at |-> Len(actx'.in)])
         /\ outs' \in Seq(Outputs)
         /\ result' = [ok |-> TRUE, due |-> TRUE, got |-> Zeros, tag |-> Zeros]
<1> DEFINE s == Append(actx.in, Piece(said.data))
           c == [actx EXCEPT !.in = s, !.tagSet = TRUE]
           x == SetExtIv(c)
           b == Tag(aes.key, MessageIv(c), c.aad, c.in)
<1>1. /\ actx \in Contexts /\ aes \in AesObjects /\ said \in Messages /\ aes' = aes
      /\ actx' = IF ~actx.enc THEN x
                 ELSE [x EXCEPT !.ivSet = TRUE, !.tagAvail = TRUE, !.buf = b]
      /\ outs' = Append(outs, [iv |-> MessageIv(c), key |-> aes.key, at |-> Len(c.in)])
      /\ result' = [ok |-> TRUE, due |-> TRUE, got |-> Zeros, tag |-> Zeros]
  BY DEF GcmData, Answer, OutputFrom, Typed
<1>2. s \in Pieces
  <2>1. Piece(said.data) \in (1 .. MaxMessages + 1) \X (1 .. MaxPieces)
    BY <1>1, Constants DEF Piece, Pieces, Messages
  <2> QED BY <1>1, <2>1 DEF Pieces, Contexts
<1>3. s = Append(actx.in, Piece(said.data))
  OBVIOUS
<1> HIDE DEF s
<1>4. /\ c \in Contexts /\ c.enc = actx.enc /\ c.iv = actx.iv
      /\ c.ivState = actx.ivState /\ c.origIv = actx.origIv
      /\ c.buf = actx.buf /\ c.aad = actx.aad /\ c.aadSet = actx.aadSet /\ c.in = s
      /\ KeepsMarks(actx, c)
  BY <1>1, <1>2 DEF Contexts, KeepsMarks
<1> HIDE DEF c
<1>5. MessageIv(c) = MessageIv(actx)
  BY <1>4 DEF MessageIv
<1>6. /\ x \in Contexts /\ MessageIv(x) = MessageIv(c) /\ MessageIv(c) \in IV
      /\ x.enc = c.enc /\ x.iv = c.iv /\ KeepsMessage(c, x) /\ KeepsMarks(c, x)
  BY <1>4, SetExtIvDoes
<1> HIDE DEF x
<1>7. b \in Buffers /\ b = Tag(aes.key, MessageIv(actx), actx.aad, s)
  <2>1. aes.key \in Key \cup {NoKey} /\ c.aad \in Pieces /\ c.in \in Pieces
    BY <1>1, <1>4 DEF AesObjects, Contexts
  <2> QED BY <2>1, <1>4, <1>5, <1>6, TagType
<1> HIDE DEF b
<1>8. ASSUME actx.enc
      PROVE  /\ actx' \in Contexts /\ actx'.enc = actx.enc /\ actx'.iv = actx.iv
             /\ MessageIv(actx') = MessageIv(actx)
             /\ actx'.aad = actx.aad /\ actx'.aadSet = actx.aadSet
             /\ actx'.authErr = actx.authErr /\ actx'.in = s
             /\ actx.enc => actx'.tagAvail /\ actx'.buf = b
             /\ ~actx.enc => actx'.tagAvail = actx.tagAvail /\ actx'.buf = actx.buf
  <2>1. actx' = [x EXCEPT !.ivSet = TRUE, !.tagAvail = TRUE, !.buf = b]
    BY <1>1, <1>8
  <2>2. /\ actx' \in Contexts /\ actx'.enc = x.enc /\ actx'.iv = x.iv
        /\ actx'.ivState = x.ivState /\ actx'.origIv = x.origIv
        /\ actx'.aad = x.aad /\ actx'.aadSet = x.aadSet /\ actx'.in = x.in
        /\ actx'.authErr = x.authErr /\ actx'.tagAvail /\ actx'.buf = b
    BY <1>6, <1>7, <2>1 DEF Contexts
  <2>3. MessageIv(actx') = MessageIv(actx)
    BY <1>5, <1>6, <2>2 DEF MessageIv
  <2> QED BY <1>4, <1>6, <1>8, <2>2, <2>3 DEF KeepsMessage, KeepsMarks
<1>9. ASSUME ~actx.enc
      PROVE  /\ actx' \in Contexts /\ actx'.enc = actx.enc /\ actx'.iv = actx.iv
             /\ MessageIv(actx') = MessageIv(actx)
             /\ actx'.aad = actx.aad /\ actx'.aadSet = actx.aadSet
             /\ actx'.authErr = actx.authErr /\ actx'.in = s
             /\ actx.enc => actx'.tagAvail /\ actx'.buf = b
             /\ ~actx.enc => actx'.tagAvail = actx.tagAvail /\ actx'.buf = actx.buf
  <2>1. actx' = x
    BY <1>1, <1>9
  <2> QED BY <1>4, <1>5, <1>6, <1>9, <2>1 DEF KeepsMessage, KeepsMarks
<1>10. [iv |-> MessageIv(c), key |-> aes.key, at |-> Len(c.in)] \in Outputs
  BY <1>1, <1>2, <1>4, <1>6 DEF AesObjects, Outputs, Pieces
<1>11. outs' \in Seq(Outputs)
  BY <1>1, <1>10 DEF Typed
<1>12. outs' = Append(outs, [iv |-> MessageIv(actx), key |-> aes.key, at |-> Len(actx'.in)])
  <2>1. actx'.in = c.in
    BY <1>4, <1>8, <1>9
  <2> QED BY <1>1, <1>5, <2>1
<1> QED BY <1>1, <1>3, <1>7, <1>8, <1>9, <1>11, <1>12

LEMMA CleanedDoes ==
  ASSUME NEW x \in Contexts
  PROVE  LET y == Cleaned(x) IN
         /\ y \in Contexts /\ y.enc = x.enc /\ y.iv = x.iv
         /\ y.buf = x.buf /\ y.aad = <<>> /\ y.in = <<>> /\ ~y.aadSet
         /\ KeepsMarks(x, y)
BY Constants DEF Cleaned, Contexts, KeepsMarks

LEMMA GcmFinalDoes ==
  ASSUME Typed, GcmFinal
  PROVE  /\ actx' \in Contexts /\ aes' = aes /\ outs' = outs
         /\ actx'.enc = actx.enc /\ actx'.iv = actx.iv
         /\ actx.authErr =>
              /\ actx' = actx
              /\ Answer(FALSE, actx.enc \/ said.claim = "genuine")
         /\ ~actx.authErr =>
              /\ actx'.aad = <<>> /\ actx'.in = <<>>
              /\ actx.tagAvail =>
                   /\ actx'.buf = actx.buf /\ actx'.tagAvail /\ ~actx'.authErr
                   /\ Answer(TRUE, actx.enc \/ said.claim = "genuine")
              /\ ~actx.tagAvail /\ actx.enc =>
                   /\ actx'.buf = TagNow /\ actx'.tagAvail /\ ~actx'.authErr
                   /\ Answer(TRUE, TRUE)
              /\ ~actx.tagAvail /\ ~actx.enc =>
                   /\ actx'.buf = actx.buf /\ ~actx'.tagAvail
                   /\ actx'.authErr <=> ~Verifies(actx.buf, said, TagNow)
                   /\ Answer(Verifies(actx.buf, said, TagNow), said.claim = "genuine")
<1> DEFINE c == [actx EXCEPT !.tagSet = TRUE]
           tag == Tag(aes.key, MessageIv(c), c.aad, c.in)
           good == c.enc \/ Verifies(c.buf, said, tag)
           x == SetExtIv(c)
           err == ~good
           y == IF c.enc THEN [x EXCEPT !.buf = tag, !.tagAvail = TRUE]
                ELSE [x EXCEPT !.authErr = err]
<1>1. /\ actx \in Contexts /\ aes \in AesObjects /\ aes' = aes /\ outs' = outs
      /\ IF c.authErr THEN actx' = actx /\ Answer(FALSE, c.enc \/ said.claim = "genuine")
         ELSE IF c.tagAvail
         THEN actx' = Cleaned(c) /\ Answer(TRUE, c.enc \/ said.claim = "genuine")
         ELSE actx' = Cleaned(y) /\ Answer(good, c.enc \/ said.claim = "genuine")
  BY DEF GcmFinal, Typed
<1>2. /\ c \in Contexts /\ c.enc = actx.enc /\ c.iv = actx.iv
      /\ c.ivState = actx.ivState /\ c.origIv = actx.origIv
      /\ KeepsMessage(actx, c) /\ KeepsMarks(actx, c)
  BY <1>1 DEF Contexts, KeepsMessage, KeepsMarks
<1> HIDE DEF c
<1>3. tag = TagNow
  BY <1>2 DEF TagNow, MessageIv, KeepsMessage
<1>4. /\ x \in Contexts /\ MessageIv(c) \in IV
      /\ x.enc = c.enc /\ x.iv = c.iv /\ KeepsMessage(c, x) /\ KeepsMarks(c, x)
  BY <1>2, SetExtIvDoes
<1> HIDE DEF x
<1>5. tag \in Buffers
  <2>1. aes.key \in Key \cup {NoKey} /\ c.aad \in Pieces /\ c.in \in Pieces
    BY <1>1, <1>2 DEF AesObjects, Contexts
  <2> QED BY <2>1, <1>4, TagType
<1>6. err \in BOOLEAN /\ (~c.enc => (err <=> ~Verifies(actx.buf, said, TagNow)))
      /\ (~c.enc => (good <=> Verifies(actx.buf, said, TagNow)))
      /\ (c.enc => good)
  BY <1>2, <1>3 DEF KeepsMessage
<1> HIDE DEF tag, err
<1>7. /\ y \in Contexts /\ y.enc = x.enc /\ y.iv = x.iv
      /\ c.enc => y.buf = tag /\ y.tagAvail /\ y.authErr = x.authErr
      /\ ~c.enc => y.buf = x.buf /\ y.tagAvail = x.tagAvail /\ y.authErr = err
  BY <1>4, <1>5, <1>6 DEF Contexts
<1> HIDE DEF y
<1>8. LET z == Cleaned(c) IN
      /\ z \in Contexts /\ z.enc = c.enc /\ z.iv = c.iv
      /\ z.buf = c.buf /\ z.aad = <<>> /\ z.in = <<>> /\ ~z.aadSet
      /\ KeepsMarks(c, z)
  BY <1>2, CleanedDoes
<1>9. LET z == Cleaned(y) IN
      /\ z \in Contexts /\ z.enc = y.enc /\ z.iv = y.iv
      /\ z.buf = y.buf /\ z.aad = <<>> /\ z.in = <<>> /\ ~z.aadSet
      /\ KeepsMarks(y, z)
  BY <1>7, CleanedDoes
<1>10. CASE actx.authErr
  BY <1>1, <1>2, <1>10 DEF KeepsMarks
<1>11. CASE ~actx.authErr /\ actx.tagAvail
  <2>1. actx' = Cleaned(c) /\ Answer(TRUE, actx.enc \/ said.claim = "genuine")
    BY <1>1, <1>2, <1>11 DEF KeepsMarks
  <2> QED BY <1>1, <1>2, <1>8, <1>11, <2>1 DEF KeepsMarks, KeepsMessage
<1>12. CASE ~actx.authErr /\ ~actx.tagAvail /\ actx.enc
  <2>1. actx' = Cleaned(y)
    BY <1>1, <1>2, <1>12 DEF KeepsMarks
  <2>2. Answer(TRUE, TRUE)
    BY <1>1, <1>2, <1>6, <1>12 DEF KeepsMarks, Answer
  <2> QED BY <1>1, <1>2, <1>3, <1>4, <1>7, <1>9, <1>12, <2>1, <2>2 DEF KeepsMarks
<1>13. CASE ~actx.authErr /\ ~actx.tagAvail /\ ~actx.enc
  <2>1. actx' = Cleaned(y)
    BY <1>1, <1>2, <1>13 DEF KeepsMarks
  <2>2. Answer(Verifies(actx.buf, said, TagNow), said.claim = "genuine")
    <3>1. Answer(good, c.enc \/ said.claim = "genuine")
      BY <1>1, <1>2, <1>13 DEF KeepsMarks
    <3>2. good = Verifies(actx.buf, said, TagNow)
      BY <1>2, <1>3, <1>13 DEF KeepsMessage, Verifies
    <3>3. (c.enc \/ said.claim = "genuine") = (said.claim = "genuine")
      BY <1>2, <1>13
    <3> QED BY <3>1, <3>2, <3>3
  <2>3. actx'.authErr <=> ~Verifies(actx.buf, said, TagNow)
    BY <1>2, <1>6, <1>7, <1>9, <1>13, <2>1 DEF KeepsMarks
  <2> QED BY <1>1, <1>2, <1>4, <1>7, <1>9, <1>13, <2>1, <2>2, <2>3 DEF KeepsMarks, KeepsMessage
<1> QED BY <1>1, <1>10, <1>11, <1>12, <1>13

StreamTag == Tag(aes.key, aes.iv, aes.aad, aes.data)

LEMMA StreamFinalDoes ==
  ASSUME Typed, StreamFinal
  PROVE  /\ actx' \in Contexts /\ aes' = aes /\ outs' = outs
         /\ actx'.enc = actx.enc /\ actx'.iv = actx.iv
         /\ actx'.aad = actx.aad /\ actx'.in = actx.in
         /\ actx.enc /\ aes.on => actx'.buf = StreamTag /\ Answer(TRUE, TRUE)
         /\ ~actx.enc =>
              /\ actx'.buf = actx.buf
              /\ \/ Answer(FALSE, FALSE)
                 \/ Answer(aes.on /\ Verifies(actx.buf, said, StreamTag),
                           said.claim = "genuine")
<1> DEFINE good == aes.on /\ (actx.enc \/ Verifies(actx.buf, said, StreamTag))
           b == IF actx.enc /\ aes.on THEN StreamTag ELSE actx.buf
<1>1. /\ actx \in Contexts /\ aes \in AesObjects /\ aes' = aes /\ outs' = outs
      /\ IF ~actx.enc /\ ~actx.tagSet
         THEN actx' = [actx EXCEPT !.ivState = "finished"] /\ Answer(FALSE, FALSE)
         ELSE /\ actx' = [actx EXCEPT !.ivState = "finished", !.tagSet = TRUE, !.buf = b]
              /\ Answer(good, actx.enc \/ said.claim = "genuine")
  BY DEF StreamFinal, StreamTag, Typed
<1>2. StreamTag \in Buffers
  BY <1>1, TagType DEF StreamTag, AesObjects
<1>3. b \in Buffers /\ (actx.enc /\ aes.on => b = StreamTag) /\ (~actx.enc => b = actx.buf)
  BY <1>1, <1>2 DEF Contexts
<1> HIDE DEF b
<1>4. CASE ~actx.enc /\ ~actx.tagSet
  BY <1>1, <1>4 DEF Contexts
<1>5. CASE ~(~actx.enc /\ ~actx.tagSet)
  <2>1. /\ actx' = [actx EXCEPT !.ivState = "finished", !.tagSet = TRUE, !.buf = b]
        /\ Answer(good, actx.enc \/ said.claim = "genuine")
    BY <1>1, <1>5
  <2>2. /\ actx' \in Contexts /\ actx'.enc = actx.enc /\ actx'.iv = actx.iv
        /\ actx'.aad = actx.aad /\ actx'.in = actx.in /\ actx'.buf = b
    BY <1>1, <1>3, <2>1 DEF Contexts
  <2>3. actx.enc /\ aes.on => Answer(TRUE, TRUE)
    BY <2>1 DEF Answer
  <2>4. ~actx.enc => Answer(aes.on /\ Verifies(actx.buf, said, StreamTag),
                            said.claim = "genuine")
    BY <2>1 DEF Answer
  <2> QED BY <1>1, <1>3, <2>2, <2>3, <2>4
<1> QED BY <1>4, <1>5

(* CCM. *)
LEMMA CcmEncDecDoes ==
  ASSUME Typed, NEW d \in Pieces
  PROVE  LET x == CcmEncDec(d) IN
         /\ x \in Contexts /\ x.enc = actx.enc
         /\ x.aad = <<>> /\ ~x.aadSet /\ x.in = actx.in /\ x.tagAvail = actx.tagAvail
         /\ actx.enc => x.buf = CcmTag(d) /\ x.authErr = actx.authErr
         /\ ~actx.enc => x.buf = actx.buf /\ (x.authErr <=> actx.authErr \/ ~CcmGood(d))
         /\ CcmTag(d) \in Buffers /\ CcmTag(d).iv \in IV
         /\ actx.enc => CcmTag(d) = Tag(aes.key, CcmNonce, actx.aad, d)
         /\ ~actx.enc => CcmTag(d) = Tag(aes.key, actx.iv, actx.aad, d)
<1>1. actx \in Contexts /\ aes \in AesObjects /\ <<>> \in Pieces
  BY Constants DEF Typed
<1>2. CcmNonce \in IV /\ actx.iv \in IV /\ aes.reg \in IV /\ actx.aad \in Pieces
      /\ aes.key \in Key \cup {NoKey}
  BY <1>1 DEF CcmNonce, Contexts, AesObjects
<1>3. /\ actx.enc => CcmTag(d) = Tag(aes.key, CcmNonce, actx.aad, d)
      /\ ~actx.enc => CcmTag(d) = Tag(aes.key, actx.iv, actx.aad, d)
  BY DEF CcmTag
<1>4. CcmTag(d) \in Buffers
  BY <1>2, <1>3, TagType
<1>5. CcmTag(d).iv \in IV
  BY <1>2, <1>3 DEF Tag
<1>6. CASE actx.enc
  <2>1. CcmEncDec(d) = [actx EXCEPT !.tagSet = TRUE, !.aad = <<>>, !.aadSet = FALSE,
                                    !.ivSet = TRUE, !.iv = CcmNonce, !.buf = CcmTag(d)]
    BY <1>1, <1>6 DEF CcmEncDec, Contexts
  <2>2. CcmEncDec(d) \in Contexts
    BY <1>1, <1>2, <1>4, <2>1 DEF Contexts
  <2> QED BY <1>1, <1>2, <1>3, <1>4, <1>5, <1>6, <2>1, <2>2 DEF Contexts
<1>7. CASE ~actx.enc
  <2> DEFINE err == actx.authErr \/ ~CcmGood(d)
             w == IF CcmGood(d) THEN aes.reg ELSE actx.iv
  <2>1. CcmEncDec(d) = [actx EXCEPT !.tagSet = TRUE, !.aad = <<>>, !.aadSet = FALSE,
                                    !.authErr = err, !.iv = w]
    BY <1>1, <1>7 DEF CcmEncDec, Contexts
  <2>2. err \in BOOLEAN /\ w \in IV /\ (err <=> actx.authErr \/ ~CcmGood(d))
    BY <1>2
  <2> HIDE DEF err, w
  <2>3. CcmEncDec(d) \in Contexts
    BY <1>1, <2>1, <2>2 DEF Contexts
  <2> QED BY <1>1, <1>3, <1>4, <1>5, <1>7, <2>1, <2>2, <2>3 DEF Contexts
<1> QED BY <1>6, <1>7

LEMMA CcmRegDoes ==
  ASSUME Typed
  PROVE  CcmReg \in AesObjects /\ CcmReg.key = aes.key
<1>1. actx \in Contexts /\ aes \in AesObjects
  BY DEF Typed
<1> DEFINE r == IF actx.enc THEN Inc(CcmNonce) ELSE aes.reg
<1>2. CcmReg = [aes EXCEPT !.reg = r]
  BY DEF CcmReg
<1>3. CcmNonce \in IV /\ aes.reg \in IV
  BY <1>1 DEF CcmNonce, Contexts, AesObjects
<1>4. r \in IV
  BY <1>3, IncType
<1> HIDE DEF r
<1> QED BY <1>1, <1>2, <1>4 DEF AesObjects

OnePiece == <<Piece(said.data)>>

LEMMA CcmDataDoes ==
  ASSUME Typed, NEW whole \in BOOLEAN, CcmData(whole), Len(said.data) < 1
  PROVE  LET d == OnePiece IN
         /\ actx' \in Contexts /\ aes' \in AesObjects /\ outs' \in Seq(Outputs)
         /\ d \in Pieces
         /\ actx'.enc = actx.enc /\ actx'.in = actx.in /\ aes'.key = aes.key
         /\ actx.tagAvail =>
              actx' = actx /\ aes' = aes /\ outs' = outs /\ Answer(FALSE, TRUE)
         /\ ~actx.tagAvail =>
              /\ actx'.aad = <<>> /\ ~actx'.aadSet
              /\ actx.enc =>
                   /\ actx'.buf = CcmTag(d) /\ actx'.authErr = actx.authErr
                   /\ Answer(whole => ~actx.authErr, TRUE)
              /\ ~actx.enc =>
                   /\ actx'.buf = actx.buf /\ ~actx'.tagAvail
                   /\ actx'.authErr <=> actx.authErr \/ ~CcmGood(d)
                   /\ Answer(CcmGood(d) /\ (whole => ~actx.authErr),
                             said.claim = "genuine")
              /\ CcmGood(d) =>
                   outs' = Append(outs, [iv |-> CcmTag(d).iv, key |-> aes.key, at |-> 1])
              /\ ~CcmGood(d) => outs' = outs
<1> DEFINE d == OnePiece
           x == CcmEncDec(d)
           ta == CcmGood(d) /\ actx.enc
           c == [x EXCEPT !.tagAvail = ta]
<1>1. /\ actx \in Contexts /\ aes \in AesObjects /\ said \in Messages
      /\ outs \in Seq(Outputs)
  BY DEF Typed
<1>2. d \in Pieces
  <2>1. Piece(said.data) \in (1 .. MaxMessages + 1) \X (1 .. MaxPieces)
    BY <1>1, Constants DEF Piece, Pieces, Messages
  <2> QED BY <2>1 DEF Pieces, OnePiece
<1>3. IF actx.tagAvail
      THEN Answer(FALSE, TRUE) /\ UNCHANGED <<actx, aes, outs>>
      ELSE /\ actx' = IF whole /\ CcmGood(d) /\ ~c.authErr
                      THEN [c EXCEPT !.ivSet = FALSE] ELSE c
           /\ aes' = CcmReg
           /\ outs' = IF ~CcmGood(d) THEN outs
                      ELSE Append(outs, [iv |-> CcmTag(d).iv, key |-> aes.key, at |-> 1])
           /\ Answer(CcmGood(d) /\ (whole => ~c.authErr),
                     actx.enc \/ said.claim = "genuine")
  BY DEF CcmData, OnePiece
<1> HIDE DEF d
<1>4. /\ x \in Contexts /\ x.enc = actx.enc
      /\ x.aad = <<>> /\ ~x.aadSet /\ x.in = actx.in /\ x.tagAvail = actx.tagAvail
      /\ actx.enc => x.buf = CcmTag(d) /\ x.authErr = actx.authErr
      /\ ~actx.enc => x.buf = actx.buf /\ (x.authErr <=> actx.authErr \/ ~CcmGood(d))
      /\ CcmTag(d).iv \in IV
  BY <1>2, CcmEncDecDoes
<1> HIDE DEF x
<1>5. /\ CcmGood(d) \in BOOLEAN /\ ta \in BOOLEAN /\ (actx.enc => CcmGood(d))
      /\ (ta <=> CcmGood(d) /\ actx.enc)
  <2>1. actx.enc \in BOOLEAN
    BY <1>1 DEF Contexts
  <2>2. CcmGood(d) \in BOOLEAN /\ (actx.enc => CcmGood(d) = TRUE)
    BY <2>1 DEF CcmGood, Verifies
  <2> QED BY <2>1, <2>2
<1> HIDE DEF ta
<1>6. /\ c \in Contexts /\ c.enc = x.enc /\ c.aad = x.aad /\ c.aadSet = x.aadSet
      /\ c.in = x.in /\ c.buf = x.buf /\ c.authErr = x.authErr /\ c.tagAvail = ta
  BY <1>4, <1>5 DEF Contexts
<1> HIDE DEF c
<1>7. LET z == [c EXCEPT !.ivSet = FALSE] IN
      /\ z \in Contexts /\ z.enc = c.enc /\ z.aad = c.aad /\ z.aadSet = c.aadSet
      /\ z.in = c.in /\ z.buf = c.buf /\ z.authErr = c.authErr /\ z.tagAvail = c.tagAvail
  BY <1>6 DEF Contexts
<1>8. CASE actx.tagAvail
  BY <1>1, <1>2, <1>3, <1>8 DEF d
<1>9. CASE ~actx.tagAvail
  <2>1. /\ actx' = c \/ actx' = [c EXCEPT !.ivSet = FALSE]
        /\ aes' = CcmReg
        /\ outs' = IF ~CcmGood(d) THEN outs
                   ELSE Append(outs, [iv |-> CcmTag(d).iv, key |-> aes.key, at |-> 1])
        /\ Answer(CcmGood(d) /\ (whole => ~c.authErr), actx.enc \/ said.claim = "genuine")
    BY <1>3, <1>9
  <2>2. /\ actx' \in Contexts /\ actx'.enc = c.enc /\ actx'.aad = c.aad
        /\ actx'.aadSet = c.aadSet /\ actx'.in = c.in /\ actx'.buf = c.buf
        /\ actx'.authErr = c.authErr /\ actx'.tagAvail = c.tagAvail
    BY <1>6, <1>7, <2>1
  <2>3. aes' \in AesObjects /\ aes'.key = aes.key
    BY <2>1, CcmRegDoes
  <2>4. outs' \in Seq(Outputs)
    <3>1. [iv |-> CcmTag(d).iv, key |-> aes.key, at |-> 1] \in Outputs
      BY <1>1, <1>4 DEF AesObjects, Outputs
    <3> QED BY <1>1, <2>1, <3>1
  <2>5. actx.enc => Answer(whole => ~actx.authErr, TRUE)
    <3>1. SUFFICES ASSUME actx.enc PROVE Answer(whole => ~actx.authErr, TRUE)
      OBVIOUS
    <3>2. (CcmGood(d) /\ (whole => ~c.authErr)) = (whole => ~actx.authErr)
      BY <1>4, <1>5, <1>6, <3>1
    <3>3. (actx.enc \/ said.claim = "genuine") = TRUE
      BY <3>1
    <3> QED BY <2>1, <3>2, <3>3
  <2>6. ~actx.enc => Answer(CcmGood(d) /\ (whole => ~actx.authErr), said.claim = "genuine")
    <3>1. SUFFICES ASSUME ~actx.enc
                   PROVE  Answer(CcmGood(d) /\ (whole => ~actx.authErr),
                                 said.claim = "genuine")
      OBVIOUS
    <3>2. (CcmGood(d) /\ (whole => ~c.authErr)) = (CcmGood(d) /\ (whole => ~actx.authErr))
      BY <1>4, <1>5, <1>6, <3>1
    <3>3. (actx.enc \/ said.claim = "genuine") = (said.claim = "genuine")
      BY <3>1
    <3> QED BY <2>1, <3>2, <3>3
  <2>7. /\ actx'.aad = <<>> /\ ~actx'.aadSet /\ actx'.in = actx.in /\ actx'.enc = actx.enc
        /\ actx.enc => actx'.buf = CcmTag(d) /\ actx'.authErr = actx.authErr
        /\ ~actx.enc =>
             /\ actx'.buf = actx.buf /\ ~actx'.tagAvail
             /\ actx'.authErr <=> actx.authErr \/ ~CcmGood(d)
    BY <1>4, <1>5, <1>6, <2>2
  <2> QED BY <1>2, <1>9, <2>1, <2>2, <2>3, <2>4, <2>5, <2>6, <2>7 DEF d
<1> QED BY <1>8, <1>9

LEMMA CcmFinalDoes ==
  ASSUME Typed, CcmFinal
  PROVE  /\ actx' \in Contexts /\ aes' \in AesObjects /\ outs' = outs
         /\ actx'.enc = actx.enc /\ actx'.in = actx.in /\ aes'.key = aes.key
         /\ actx'.tagAvail = actx.tagAvail
         /\ actx.authErr => actx' = actx /\ Answer(FALSE, actx.enc \/ said.claim = "genuine")
         /\ ~actx.authErr /\ actx.aadSet =>
              /\ actx'.aad = <<>> /\ ~actx'.aadSet
              /\ actx.enc =>
                   actx'.buf = CcmTag(<<>>) /\ ~actx'.authErr /\ Answer(TRUE, TRUE)
              /\ ~actx.enc =>
                   /\ actx'.buf = actx.buf
                   /\ actx'.authErr <=> ~CcmGood(<<>>)
                   /\ Answer(CcmGood(<<>>), said.claim = "genuine")
         /\ ~actx.authErr /\ ~actx.aadSet =>
              /\ actx'.iv = actx.iv
              /\ actx'.buf = actx.buf /\ actx'.aad = actx.aad /\ ~actx'.aadSet
              /\ ~actx'.authErr
              /\ Answer(TRUE, actx.enc \/ said.claim = "genuine")
<1>1. actx \in Contexts /\ aes \in AesObjects /\ said \in Messages
  BY DEF Typed
<1>2. /\ outs' = outs
      /\ IF actx.authErr
         THEN Answer(FALSE, actx.enc \/ said.claim = "genuine") /\ actx' = actx /\ aes' = aes
         ELSE IF actx.aadSet
         THEN /\ Answer(CcmGood(<<>>), actx.enc \/ said.claim = "genuine")
              /\ actx' = [CcmEncDec(<<>>) EXCEPT !.ivSet = @ /\ ~CcmGood(<<>>)]
              /\ aes' = CcmReg
         ELSE /\ Answer(TRUE, actx.enc \/ said.claim = "genuine")
              /\ actx' = [actx EXCEPT !.ivSet = FALSE] /\ aes' = aes
  BY DEF CcmFinal
<1>3. CASE actx.authErr
  BY <1>1, <1>2, <1>3
<1>4. CASE ~actx.authErr /\ actx.aadSet
  <2> DEFINE d == <<>>
             x == CcmEncDec(d)
             vs == x.ivSet /\ ~CcmGood(d)
  <2>1. /\ Answer(CcmGood(d), actx.enc \/ said.claim = "genuine")
        /\ actx' = [x EXCEPT !.ivSet = vs] /\ aes' = CcmReg
    BY <1>2, <1>4
  <2>2. d \in Pieces
    BY Constants
  <2>3. d = <<>>
    OBVIOUS
  <2> HIDE DEF d
  <2>4. /\ x \in Contexts /\ x.enc = actx.enc
        /\ x.aad = <<>> /\ ~x.aadSet /\ x.in = actx.in /\ x.tagAvail = actx.tagAvail
        /\ actx.enc => x.buf = CcmTag(d) /\ x.authErr = actx.authErr
        /\ ~actx.enc => x.buf = actx.buf /\ (x.authErr <=> actx.authErr \/ ~CcmGood(d))
    BY <2>2, CcmEncDecDoes
  <2> HIDE DEF x
  <2>5. /\ CcmGood(d) \in BOOLEAN /\ (actx.enc => CcmGood(d) = TRUE)
    <3>1. actx.enc \in BOOLEAN
      BY <1>1 DEF Contexts
    <3> QED BY <3>1 DEF CcmGood, Verifies
  <2>6. vs \in BOOLEAN
    BY <2>4, <2>5 DEF Contexts
  <2> HIDE DEF vs
  <2>7. /\ actx' \in Contexts /\ actx'.enc = x.enc /\ actx'.aad = x.aad
        /\ actx'.aadSet = x.aadSet /\ actx'.in = x.in /\ actx'.buf = x.buf
        /\ actx'.authErr = x.authErr /\ actx'.tagAvail = x.tagAvail
    BY <2>1, <2>4, <2>6 DEF Contexts
  <2>8. aes' \in AesObjects /\ aes'.key = aes.key
    BY <2>1, CcmRegDoes
  <2>9. actx.enc => Answer(TRUE, TRUE)
    BY <2>1, <2>5 DEF Answer
  <2>10. ~actx.enc => Answer(CcmGood(d), said.claim = "genuine")
    BY <2>1, <2>5 DEF Answer
  <2>11. /\ actx.enc => actx'.buf = CcmTag(d) /\ ~actx'.authErr
         /\ ~actx.enc => actx'.buf = actx.buf /\ (actx'.authErr <=> ~CcmGood(d))
    BY <1>4, <2>4, <2>7
  <2> QED BY <1>2, <1>4, <2>3, <2>4, <2>7, <2>8, <2>9, <2>10, <2>11
<1>5. CASE ~actx.authErr /\ ~actx.aadSet
  <2>1. /\ Answer(TRUE, actx.enc \/ said.claim = "genuine")
        /\ actx' = [actx EXCEPT !.ivSet = FALSE] /\ aes' = aes
    BY <1>2, <1>5
  <2>2. /\ actx' \in Contexts /\ actx'.enc = actx.enc /\ actx'.iv = actx.iv
        /\ actx'.aad = actx.aad /\ actx'.aadSet = actx.aadSet /\ actx'.in = actx.in
        /\ actx'.buf = actx.buf /\ actx'.authErr = actx.authErr
        /\ actx'.tagAvail = actx.tagAvail
    BY <1>1, <2>1 DEF Contexts
  <2> QED BY <1>1, <1>2, <1>5, <2>1, <2>2
<1> QED BY <1>3, <1>4, <1>5

LEMMA CcmAadDoes ==
  ASSUME Typed, Len(said.aad) < MaxPieces, CcmAad
  PROVE  /\ actx.tagAvail => Answer(FALSE, TRUE) /\ actx' = actx /\ aes' = aes
         /\ ~actx.tagAvail => result' = result /\ CachesAad
         /\ actx' \in Contexts /\ aes' = aes
<1>1. CASE actx.tagAvail
  BY <1>1 DEF CcmAad, Typed
<1>2. CASE ~actx.tagAvail
  BY <1>2, CacheAadDoes DEF CcmAad, CachesAad
<1> QED BY <1>1, <1>2

(* TLS records. *)
LEMMA SetTlsAadDoes ==
  ASSUME Typed, SetTlsAad
  PROVE  /\ Typed' /\ phase = "setup" /\ phase' = "record"
         /\ said.n <= MaxMessages /\ said.fixed # Zeros
         /\ actx'.enc = actx.enc /\ actx'.iv = actx.iv
         /\ actx'.aad = actx.aad /\ actx'.aadSet = actx.aadSet /\ actx'.in = actx.in
         /\ actx'.buf = Record(said.n) /\ KeepsMarks(actx, actx')
         /\ said'.n = said.n /\ said'.key = said.key /\ said'.iv = NoAeadIv
         /\ said'.fixed = said.fixed /\ said'.aad = said.aad /\ said'.data = said.data
         /\ said'.claim = "none"
         /\ UNCHANGED <<mode, aes, outs, result, gens, records>>
<1> DEFINE b == Record(said.n)
<1>1. /\ actx' = [actx EXCEPT !.tls = TRUE, !.buf = b] /\ actx \in Contexts
      /\ said' = [said EXCEPT !.use = "tls", !.iv = NoAeadIv, !.claim = "none"]
      /\ said \in Messages
  BY DEF SetTlsAad, Typed
<1>2. b \in Buffers /\ b = Record(said.n)
  BY <1>1 DEF Record, Buffers, Messages
<1> HIDE DEF b
<1>3. /\ actx' \in Contexts /\ actx'.enc = actx.enc /\ actx'.iv = actx.iv
      /\ actx'.aad = actx.aad /\ actx'.aadSet = actx.aadSet /\ actx'.in = actx.in
      /\ actx'.buf = b /\ KeepsMarks(actx, actx')
  BY <1>1, <1>2 DEF Contexts, KeepsMarks
<1>4. /\ said' \in Messages
      /\ said'.n = said.n /\ said'.key = said.key /\ said'.iv = NoAeadIv
      /\ said'.fixed = said.fixed /\ said'.aad = said.aad /\ said'.data = said.data
      /\ said'.claim = "none"
  BY <1>1 DEF Messages
<1>5. /\ phase = "setup" /\ phase' = "record"
      /\ said.n <= MaxMessages /\ said.fixed # Zeros
      /\ UNCHANGED <<mode, aes, outs, result, gens, records>>
  BY DEF SetTlsAad
<1> QED BY <1>2, <1>3, <1>4, <1>5 DEF Typed

LEMMA NextRecordDoes ==
  ASSUME Typed, said.n <= MaxMessages, NextRecord
  PROVE  /\ said' \in Messages /\ said'.n = said.n + 1
         /\ said'.key = said.key /\ said'.iv = said.iv
         /\ said'.fixed = said.fixed /\ said'.aad = said.aad /\ said'.data = said.data
         /\ said'.claim = said.claim
         /\ phase' = "setup" /\ mode' = mode /\ outs' = outs /\ gens' = gens
<1> DEFINE n == said.n + 1
<1>1. said \in Messages /\ said' = [said EXCEPT !.n = n]
  BY DEF NextRecord, Typed
<1>2. n \in 1 .. MaxMessages + 1 /\ n = said.n + 1
  BY <1>1, Constants DEF Messages
<1> HIDE DEF n
<1> QED BY <1>1, <1>2 DEF Messages, NextRecord

(* A record changes the IV by its invocation part alone. *)
RecordEffect ==
  /\ Typed' /\ phase' = "setup" /\ mode' = mode /\ outs' = outs /\ gens' = gens
  /\ actx'.enc = actx.enc /\ actx'.iv[1] = actx.iv[1]
  /\ KeepsMessage(actx, actx') /\ KeepsMarks(actx, actx')
  /\ aes'.key = aes.key
  /\ said'.n = said.n + 1 /\ said'.key = said.key /\ said'.iv = said.iv
  /\ said'.fixed = said.fixed /\ said'.aad = said.aad /\ said'.data = said.data
  /\ said'.claim = said.claim

LEMMA SentType ==
  ASSUME Typed, NEW c, c \in Contexts, NEW e \in 0 .. MaxIv - 1,
         records' = Append(records, Sent(c, e))
  PROVE  /\ records' \in Seq(RecordsSent) /\ Len(records') = Len(records) + 1
         /\ \A i \in 1 .. Len(records) : records'[i] = records[i]
         /\ LET r == records'[Len(records) + 1] IN
            /\ r.n = said.n /\ r.fixed = said.fixed /\ r.key = aes.key
            /\ r.iv = c.iv /\ r.sent = e /\ r.aad = c.buf
<1>1. Sent(c, e) \in RecordsSent
  BY DEF Sent, RecordsSent, Typed, Contexts, Messages, AesObjects
<1>2. records \in Seq(RecordsSent)
  BY DEF Typed
<1>3. /\ records' \in Seq(RecordsSent) /\ Len(records') = Len(records) + 1
      /\ \A i \in 1 .. Len(records) : records'[i] = records[i]
      /\ records'[Len(records) + 1] = Sent(c, e)
  BY <1>1, <1>2
<1>4. LET r == Sent(c, e) IN
      /\ r.n = said.n /\ r.fixed = said.fixed /\ r.key = aes.key
      /\ r.iv = c.iv /\ r.sent = e /\ r.aad = c.buf
  BY DEF Sent
<1> QED BY <1>3, <1>4

LEMMA GcmSealDoes ==
  ASSUME Typed, GcmSeal, said.n <= MaxMessages
  PROVE  /\ RecordEffect /\ phase = "record" /\ Answer(TRUE, TRUE)
         /\ Len(records') = Len(records) + 1
         /\ \A i \in 1 .. Len(records) : records'[i] = records[i]
         /\ LET r == records'[Len(records) + 1] IN
            /\ r.n = said.n /\ r.fixed = said.fixed
            /\ r.iv = actx.iv /\ r.sent = actx.iv[2] /\ r.aad = actx.buf
<1> DEFINE o == IF mode = "gcm" THEN actx.iv ELSE actx.origIv
           c == [actx EXCEPT !.origIv = o, !.iv = actx.iv, !.ivState = "copied"]
           e == actx.iv[2]
<1>1. /\ actx \in Contexts /\ aes \in AesObjects
      /\ actx' = RecordDone(c) /\ records' = Append(records, Sent(c, e))
      /\ aes' = IF mode = "gcm_stream" THEN Started(aes, actx.iv) ELSE aes
      /\ phase = "record" /\ Answer(TRUE, TRUE) /\ NextRecord
  BY DEF GcmSeal, RandIv, Typed
<1>2. o \in IV /\ actx.iv \in IV /\ e \in 0 .. MaxIv - 1
  BY <1>1, IvParts DEF Contexts
<1> HIDE DEF o, e
<1>3. /\ c \in Contexts /\ c.iv = actx.iv /\ c.buf = actx.buf /\ c.enc = actx.enc
      /\ KeepsMessage(actx, c) /\ KeepsMarks(actx, c)
  BY <1>1, <1>2 DEF Contexts, KeepsMessage, KeepsMarks
<1> HIDE DEF c
<1>4. /\ actx' \in Contexts /\ actx'.iv = c.iv /\ actx'.enc = c.enc
      /\ KeepsMessage(c, actx') /\ KeepsMarks(c, actx')
  BY <1>1, <1>3 DEF RecordDone, Contexts, KeepsMessage, KeepsMarks
<1>5. KeepsMessage(actx, actx') /\ KeepsMarks(actx, actx')
  BY <1>3, <1>4 DEF KeepsMessage, KeepsMarks
<1>6. aes' \in AesObjects /\ aes'.key = aes.key
  BY <1>1, <1>2, Constants DEF Started, AesObjects
<1>7. /\ said' \in Messages /\ said'.n = said.n + 1
      /\ said'.key = said.key /\ said'.iv = said.iv
      /\ said'.fixed = said.fixed /\ said'.aad = said.aad /\ said'.data = said.data
      /\ said'.claim = said.claim
      /\ phase' = "setup" /\ mode' = mode /\ outs' = outs /\ gens' = gens
  BY <1>1, NextRecordDoes
<1>8. /\ records' \in Seq(RecordsSent) /\ Len(records') = Len(records) + 1
      /\ \A i \in 1 .. Len(records) : records'[i] = records[i]
      /\ LET r == records'[Len(records) + 1] IN
         /\ r.n = said.n /\ r.fixed = said.fixed /\ r.key = aes.key
         /\ r.iv = c.iv /\ r.sent = e /\ r.aad = c.buf
  BY <1>1, <1>2, <1>3, SentType
<1>9. Typed'
  BY <1>4, <1>6, <1>7, <1>8 DEF Typed
<1>10. RecordEffect
  BY <1>3, <1>4, <1>5, <1>6, <1>7, <1>9 DEF RecordEffect
<1> QED BY <1>1, <1>3, <1>8, <1>10 DEF e

LEMMA GcmOpenDoes ==
  ASSUME Typed, NEW e \in 0 .. MaxIv - 1, NEW genuine \in BOOLEAN, GcmOpen(e, genuine),
         said.n <= MaxMessages
  PROVE  /\ RecordEffect /\ phase = "record" /\ records' = records
         /\ Answer(genuine /\ <<actx.iv[1], e>> = <<said.fixed, e>>
                     /\ actx.buf = Record(said.n), genuine)
<1> DEFINE o == IF mode = "gcm" THEN actx.iv ELSE actx.origIv
           w == <<actx.iv[1], e>>
           c == [actx EXCEPT !.origIv = o, !.iv = w, !.ivState = "buffered"]
<1>1. /\ actx \in Contexts /\ aes' = aes /\ records' = records
      /\ actx' = RecordDone(c)
      /\ Answer(genuine /\ c.iv = <<said.fixed, e>> /\ c.buf = Record(said.n), genuine)
      /\ phase = "record" /\ NextRecord
  BY DEF GcmOpen, GivenIv, Typed
<1>2. o \in IV /\ w \in IV /\ w[1] = actx.iv[1] /\ w = <<actx.iv[1], e>>
  BY <1>1, IvParts DEF Contexts
<1> HIDE DEF o, w
<1>3. /\ c \in Contexts /\ c.iv = w /\ c.buf = actx.buf /\ c.enc = actx.enc
      /\ KeepsMessage(actx, c) /\ KeepsMarks(actx, c)
  BY <1>1, <1>2 DEF Contexts, KeepsMessage, KeepsMarks
<1> HIDE DEF c
<1>4. /\ actx' \in Contexts /\ actx'.iv = c.iv /\ actx'.enc = c.enc
      /\ KeepsMessage(c, actx') /\ KeepsMarks(c, actx')
  BY <1>1, <1>3 DEF RecordDone, Contexts, KeepsMessage, KeepsMarks
<1>5. KeepsMessage(actx, actx') /\ KeepsMarks(actx, actx')
  BY <1>3, <1>4 DEF KeepsMessage, KeepsMarks
<1>6. /\ said' \in Messages /\ said'.n = said.n + 1
      /\ said'.key = said.key /\ said'.iv = said.iv
      /\ said'.fixed = said.fixed /\ said'.aad = said.aad /\ said'.data = said.data
      /\ said'.claim = said.claim
      /\ phase' = "setup" /\ mode' = mode /\ outs' = outs /\ gens' = gens
  BY <1>1, NextRecordDoes
<1>7. Typed'
  BY <1>1, <1>4, <1>6 DEF Typed
<1>8. RecordEffect
  BY <1>1, <1>2, <1>3, <1>4, <1>5, <1>6, <1>7 DEF RecordEffect
<1> QED BY <1>1, <1>2, <1>3, <1>8

LEMMA CcmRecordIvDoes ==
  ASSUME Typed, NEW e \in 0 .. MaxIv - 1
  PROVE  LET c == CcmRecordIv(e) IN
         /\ c \in Contexts /\ c.enc = actx.enc
         /\ c.iv = <<actx.iv[1], e>> /\ c.iv[1] = actx.iv[1] /\ c.iv \in IV
         /\ KeepsMessage(actx, c) /\ KeepsMarks(actx, c)
<1> DEFINE w == <<actx.iv[1], e>>
<1>1. actx \in Contexts /\ CcmRecordIv(e) = [actx EXCEPT !.iv = w]
  BY DEF CcmRecordIv, Typed
<1>2. w \in IV /\ w[1] = actx.iv[1] /\ w = <<actx.iv[1], e>>
  BY <1>1, IvParts DEF Contexts
<1> HIDE DEF w
<1> QED BY <1>1, <1>2 DEF Contexts, KeepsMessage, KeepsMarks

LEMMA CcmSealDoes ==
  ASSUME Typed, CcmSeal, said.n <= MaxMessages
  PROVE  /\ RecordEffect /\ phase = "record" /\ Answer(TRUE, TRUE)
         /\ Len(records') = Len(records) + 1
         /\ \A i \in 1 .. Len(records) : records'[i] = records[i]
         /\ LET r == records'[Len(records) + 1] IN
            /\ r.n = said.n /\ r.fixed = said.fixed
            /\ r.iv = <<actx.iv[1], r.sent>> /\ r.aad = actx.buf
<1> DEFINE e == said.n % MaxIv
           c == CcmRecordIv(e)
<1>1. /\ aes \in AesObjects /\ said.n \in Nat
      /\ actx' = c /\ records' = Append(records, Sent(c, e))
      /\ aes' = [aes EXCEPT !.reg = Inc(c.iv)]
      /\ phase = "record" /\ Answer(TRUE, TRUE) /\ NextRecord
  <2>1. aes \in AesObjects /\ said \in Messages
    BY DEF Typed
  <2>2. said.n \in Nat
    BY <2>1, Constants DEF Messages
  <2> QED BY <2>1, <2>2 DEF CcmSeal
<1>2. e \in 0 .. MaxIv - 1
  BY <1>1, Constants
<1> HIDE DEF e
<1>3. /\ c \in Contexts /\ c.enc = actx.enc
      /\ c.iv = <<actx.iv[1], e>> /\ c.iv[1] = actx.iv[1] /\ c.iv \in IV
      /\ KeepsMessage(actx, c) /\ KeepsMarks(actx, c)
  BY <1>2, CcmRecordIvDoes
<1> HIDE DEF c
<1>4. Inc(c.iv) \in IV
  BY <1>3, IncType
<1>5. aes' \in AesObjects /\ aes'.key = aes.key
  BY <1>1, <1>4 DEF AesObjects
<1>6. /\ said' \in Messages /\ said'.n = said.n + 1
      /\ said'.key = said.key /\ said'.iv = said.iv
      /\ said'.fixed = said.fixed /\ said'.aad = said.aad /\ said'.data = said.data
      /\ said'.claim = said.claim
      /\ phase' = "setup" /\ mode' = mode /\ outs' = outs /\ gens' = gens
  BY <1>1, NextRecordDoes
<1>7. /\ records' \in Seq(RecordsSent) /\ Len(records') = Len(records) + 1
      /\ \A i \in 1 .. Len(records) : records'[i] = records[i]
      /\ LET r == records'[Len(records) + 1] IN
         /\ r.n = said.n /\ r.fixed = said.fixed /\ r.key = aes.key
         /\ r.iv = c.iv /\ r.sent = e /\ r.aad = c.buf
  BY <1>1, <1>2, <1>3, SentType
<1>8. Typed'
  BY <1>1, <1>3, <1>5, <1>6, <1>7 DEF Typed
<1>9. RecordEffect
  BY <1>1, <1>3, <1>5, <1>6, <1>8 DEF RecordEffect
<1> QED BY <1>1, <1>3, <1>7, <1>9 DEF KeepsMessage

LEMMA CcmOpenDoes ==
  ASSUME Typed, NEW e \in 0 .. MaxIv - 1, NEW genuine \in BOOLEAN, CcmOpen(e, genuine),
         said.n <= MaxMessages
  PROVE  /\ RecordEffect /\ phase = "record" /\ records' = records
         /\ Answer(genuine /\ <<actx.iv[1], e>> = <<said.fixed, e>>
                     /\ actx.buf = Record(said.n), genuine)
<1> DEFINE c == CcmRecordIv(e)
<1>1. /\ actx' = c /\ aes' = aes /\ records' = records
      /\ Answer(genuine /\ c.iv = <<said.fixed, e>> /\ c.buf = Record(said.n), genuine)
      /\ phase = "record" /\ NextRecord
  BY DEF CcmOpen
<1>2. /\ c \in Contexts /\ c.enc = actx.enc
      /\ c.iv = <<actx.iv[1], e>> /\ c.iv[1] = actx.iv[1]
      /\ KeepsMessage(actx, c) /\ KeepsMarks(actx, c)
  BY CcmRecordIvDoes
<1> HIDE DEF c
<1>3. /\ said' \in Messages /\ said'.n = said.n + 1
      /\ said'.key = said.key /\ said'.iv = said.iv
      /\ said'.fixed = said.fixed /\ said'.aad = said.aad /\ said'.data = said.data
      /\ said'.claim = said.claim
      /\ phase' = "setup" /\ mode' = mode /\ outs' = outs /\ gens' = gens
  BY <1>1, NextRecordDoes
<1>4. Typed'
  BY <1>1, <1>2, <1>3 DEF Typed
<1>5. RecordEffect
  BY <1>1, <1>2, <1>3, <1>4 DEF RecordEffect
<1> QED BY <1>1, <1>2, <1>5 DEF KeepsMessage

------------------------------------------------------------------------------
(* The invariant.  What holds of every context, whatever a program does ... *)
KeyTold == aes.key = said.key
FixedTold ==
  said.fixed # Zeros =>
    actx.iv[1] = said.fixed /\ (mode = "ccm" => said.iv = NoAeadIv)
RecordTold ==
  phase = "record" =>
    /\ said.iv = NoAeadIv /\ said.fixed # Zeros /\ said.claim = "none"
    /\ actx.buf = Record(said.n)

Bounded == phase # "setup" \/ said.iv # NoAeadIv => said.n <= MaxMessages
Begun ==
  /\ phase \in {"setup", "record"} => gens = <<>> /\ said.aad = <<>>
  /\ phase \in {"setup", "record", "aad"} => outs = <<>> /\ said.data = <<>>

(* The generated IVs go up to the one the context holds, step by step.      *)
GensInOrder ==
  /\ mode = "ccm" => gens = <<>>
  /\ Len(gens) <= said.n
  /\ \A i \in 1 .. Len(gens) :
       /\ gens[i][1] = actx.iv[1]
       /\ (gens[i][2] + (Len(gens) + 1 - i)) % MaxIv = actx.iv[2]

Base ==
  /\ Typed /\ KeyTold /\ FixedTold /\ RecordTold /\ Bounded /\ Begun
  /\ GensInOrder /\ RecordWhole

(* A call of an update or of final, in any mode. *)
UpdateEffect ==
  /\ Typed' /\ Plain /\ mode' = mode /\ gens' = gens /\ records' = records
  /\ actx'.enc = actx.enc /\ (mode # "ccm" => actx'.iv = actx.iv)
  /\ aes'.key = aes.key
  /\ said'.n = said.n /\ said'.key = said.key /\ said'.iv = said.iv
  /\ said'.fixed = said.fixed /\ said'.claim = said.claim
  /\ phase' \in {"aad", "data", "final", "done", "failed"}
  /\ phase' = "aad" => outs' = outs /\ said'.data = said.data /\ phase \in {"setup", "aad"}

LEMMA UpdateAadEffect ==
  ASSUME Typed, UpdateAad
  PROVE  UpdateEffect
<1>1. /\ phase \in {"setup", "aad"} /\ Given /\ Len(said.aad) < MaxPieces
      /\ said' \in Messages
      /\ said'.n = said.n /\ said'.key = said.key /\ said'.iv = said.iv
      /\ said'.fixed = said.fixed /\ said'.data = said.data /\ said'.claim = said.claim
      /\ phase' = IF result'.ok THEN "aad" ELSE "failed"
      /\ mode' = mode /\ outs' = outs /\ gens' = gens /\ records' = records
  BY AadGiven
<1>2. mode \in {"gcm", "gcm_stream", "ccm"}
  BY Constants DEF Typed
<1>3. aes \in AesObjects
  BY DEF Typed
<1>4. /\ actx' \in Contexts /\ aes' \in AesObjects /\ aes'.key = aes.key
      /\ actx'.enc = actx.enc /\ (mode # "ccm" => actx'.iv = actx.iv)
  <2>1. CASE mode = "gcm"
    BY <2>1, <1>1, <1>3, CacheAadDoes DEF UpdateAad, CachesAad
  <2>2. CASE mode = "gcm_stream"
    BY <2>2, <1>1, StreamAadDoes DEF UpdateAad, StreamsOn
  <2>3. CASE mode = "ccm"
    <3>1. CcmAad
      BY <2>3 DEF UpdateAad
    <3> QED BY <3>1, <2>3, <1>1, <1>3, CcmAadDoes DEF CachesAad
  <2> QED BY <2>1, <2>2, <2>3, <1>2
<1>5. Typed'
  BY <1>1, <1>4 DEF Typed
<1> QED BY <1>1, <1>4, <1>5 DEF UpdateEffect, Plain

(* With data the phase is past that of the AAD. *)
LEMMA UpdateDataEffect ==
  ASSUME Typed, UpdateData \/ CcmCipher
  PROVE  UpdateEffect
<1>1. /\ Plain /\ Len(said.data) < MaxPieces
      /\ said' = [said EXCEPT !.data = Append(@, Piece(said.data))]
      /\ mode' = mode /\ gens' = gens /\ records' = records
      /\ phase' \in {"data", "final", "done", "failed"}
      /\ mode = "ccm" => Len(said.data) < 1
  <2>1. Len(said.data) \in Nat
    BY DEF Typed, Messages, Pieces
  <2>2. /\ More /\ mode' = mode /\ gens' = gens /\ records' = records
        /\ said' = [said EXCEPT !.data = Append(@, Piece(said.data))]
    BY DEF UpdateData, CcmCipher
  <2>3. phase' \in {"data", "final", "done", "failed"}
    BY DEF UpdateData, CcmCipher
  <2>4. Plain /\ Len(said.data) < IF mode = "ccm" THEN 1 ELSE MaxPieces
    BY <2>2 DEF More
  <2>5. Len(said.data) < MaxPieces /\ (mode = "ccm" => Len(said.data) < 1)
    BY <2>1, <2>4, Constants
  <2> QED BY <2>2, <2>3, <2>4, <2>5
<1>2. /\ said' \in Messages
      /\ said'.n = said.n /\ said'.key = said.key /\ said'.iv = said.iv
      /\ said'.fixed = said.fixed /\ said'.claim = said.claim
  BY <1>1, DataGiven
<1>3. mode \in {"gcm", "gcm_stream", "ccm"}
  BY Constants DEF Typed
<1>4. aes \in AesObjects
  BY DEF Typed
<1>5. /\ actx' \in Contexts /\ aes' \in AesObjects /\ aes'.key = aes.key
      /\ outs' \in Seq(Outputs)
      /\ actx'.enc = actx.enc /\ (mode # "ccm" => actx'.iv = actx.iv)
  <2>1. CASE mode = "gcm"
    <3>1. GcmData
      BY <2>1 DEF UpdateData, CcmCipher
    <3> QED BY <3>1, <1>1, <1>4, GcmDataDoes
  <2>2. CASE mode = "gcm_stream"
    <3>1. StreamData
      BY <2>2 DEF UpdateData, CcmCipher
    <3> QED BY <3>1, <1>1, StreamDataDoes DEF StreamsOn
  <2>3. CASE mode = "ccm"
    <3>1. CcmData(TRUE) \/ CcmData(FALSE)
      BY <2>3 DEF UpdateData, CcmCipher
    <3> QED BY <3>1, <2>3, <1>1, CcmDataDoes
  <2> QED BY <2>1, <2>2, <2>3, <1>3
<1>6. Typed'
  BY <1>1, <1>2, <1>5 DEF Typed
<1> QED BY <1>1, <1>2, <1>5, <1>6 DEF UpdateEffect

LEMMA FinalEffect ==
  ASSUME Typed, Final
  PROVE  UpdateEffect
<1>1. /\ Plain /\ mode' = mode /\ said' = said /\ gens' = gens /\ records' = records
      /\ phase' \in {"final", "done", "failed"}
  BY DEF Final
<1>2. mode \in {"gcm", "gcm_stream", "ccm"}
  BY Constants DEF Typed
<1>3. aes \in AesObjects
  BY DEF Typed
<1>4. /\ actx' \in Contexts /\ aes' \in AesObjects /\ aes'.key = aes.key /\ outs' = outs
      /\ actx'.enc = actx.enc /\ (mode # "ccm" => actx'.iv = actx.iv)
  <2>1. CASE mode = "gcm"
    <3>1. GcmFinal
      BY <2>1 DEF Final
    <3> QED BY <3>1, <1>3, GcmFinalDoes
  <2>2. CASE mode = "gcm_stream"
    <3>1. StreamFinal
      BY <2>2 DEF Final
    <3> QED BY <3>1, <1>3, StreamFinalDoes
  <2>3. CASE mode = "ccm"
    <3>1. CcmFinal
      BY <2>3 DEF Final
    <3> QED BY <3>1, <2>3, CcmFinalDoes
  <2> QED BY <2>1, <2>2, <2>3, <1>2
<1>5. Typed'
  BY <1>1, <1>4 DEF Typed
<1> QED BY <1>1, <1>4, <1>5 DEF UpdateEffect

------------------------------------------------------------------------------
(* ... and that every call keeps it. *)
LEMMA Stepping ==
  ASSUME NEW M \in Nat, M > 0, NEW a \in Nat
  PROVE  ((a % M) + 1) % M = (a + 1) % M
<1> DEFINE q == a \div M
           r == a % M
<1>1. q \in Nat /\ r \in 0 .. M - 1 /\ a = M * q + r
  OBVIOUS
<1>2. r = a % M
  OBVIOUS
<1> HIDE DEF q, r
<1>3. CASE r + 1 < M
  <2>1. (r + 1) % M = r + 1 /\ (M * q + (r + 1)) % M = r + 1
    BY <1>1, <1>3
  <2>2. a + 1 = M * q + (r + 1)
    BY <1>1
  <2> QED BY <2>1, <2>2, <1>2
<1>4. CASE r + 1 = M
  <2>1. (r + 1) % M = 0
    BY <1>1, <1>4
  <2>2. PICK b \in Nat : b = q + 1
    BY <1>1
  <2>3. a + 1 = M * b + 0 /\ (M * b + 0) % M = 0
    BY <1>1, <1>4, <2>2
  <2> QED BY <2>1, <2>3, <1>2
<1> QED BY <1>1, <1>3, <1>4

LEMMA Apart ==
  ASSUME NEW M \in Nat, M > 0, NEW a \in Nat, NEW d \in Nat, 0 < d, d < M
  PROVE  a % M # (a + d) % M
<1> DEFINE p == a \div M
           q == (a + d) \div M
           r == a % M
           s == (a + d) % M
<1>1. p \in Nat /\ q \in Nat /\ r \in Nat /\ s \in Nat
      /\ a = M * p + r /\ a + d = M * q + s
  OBVIOUS
<1>2. r = a % M /\ s = (a + d) % M
  OBVIOUS
<1> HIDE DEF p, q, r, s
<1>3. r = s => d = M * (q - p)
  BY <1>1
<1>4. q - p <= 0 => M * (q - p) <= 0
  BY <1>1
<1>5. q - p >= 1 => M * (q - p) >= M
  BY <1>1
<1> QED BY <1>1, <1>2, <1>3, <1>4, <1>5

(* One IV more, and the context's a step on. *)
LEMMA GensStep ==
  ASSUME Typed, GensInOrder, Number <= MaxMessages, NEW n \in Nat, Len(gens) + 1 <= n,
         actx'.iv = Inc(actx.iv), gens' = Append(gens, actx.iv), said'.n = n,
         mode' = mode, mode # "ccm"
  PROVE  GensInOrder'
<1>1. /\ actx.iv \in IV /\ gens \in Seq(IV) /\ Len(gens) \in Nat
      /\ MaxIv \in Nat /\ MaxIv > 0
  BY Constants DEF Typed, Contexts
<1>2. /\ Inc(actx.iv)[1] = actx.iv[1] /\ Inc(actx.iv)[2] = (actx.iv[2] + 1) % MaxIv
      /\ actx.iv[2] \in Nat
  <2>1. /\ Inc(actx.iv)[1] = actx.iv[1] /\ Inc(actx.iv)[2] = (actx.iv[2] + 1) % MaxIv
    BY <1>1, IncType
  <2>2. actx.iv[2] \in 0 .. MaxIv - 1
    BY <1>1, IvParts
  <2> QED BY <2>1, <2>2, <1>1
<1>3. /\ Len(gens') = Len(gens) + 1 /\ gens'[Len(gens) + 1] = actx.iv
      /\ \A i \in 1 .. Len(gens) : gens'[i] = gens[i]
  BY <1>1
<1>4. ASSUME NEW i \in 1 .. Len(gens) + 1
      PROVE  /\ gens'[i][1] = actx'.iv[1]
             /\ (gens'[i][2] + (Len(gens') + 1 - i)) % MaxIv = actx'.iv[2]
  <2>1. CASE i = Len(gens) + 1
    <3>1. gens'[i] = actx.iv /\ Len(gens') + 1 - i = 1
      BY <1>1, <1>3, <2>1
    <3> QED BY <3>1, <1>2
  <2>2. CASE i \in 1 .. Len(gens)
    <3> DEFINE x == gens[i][2]
               k == Len(gens) + 1 - i
    <3>1. gens[i] \in IV /\ gens'[i] = gens[i] /\ gens[i][1] = actx.iv[1]
          /\ (x + k) % MaxIv = actx.iv[2]
      BY <1>1, <1>3, <2>2 DEF GensInOrder
    <3>2. x \in Nat /\ k \in Nat /\ Len(gens') + 1 - i = k + 1
      <4>1. x \in 0 .. MaxIv - 1
        BY <3>1, IvParts
      <4> QED BY <4>1, <1>1, <1>3, <2>2
    <3>3. ((x + k) + 1) % MaxIv = (((x + k) % MaxIv) + 1) % MaxIv
      <4>1. x + k \in Nat
        BY <3>2
      <4> HIDE DEF x, k
      <4> QED BY <4>1, <1>1, Stepping
    <3>4. gens'[i][2] = x
      BY <3>1
    <3> HIDE DEF x, k
    <3>5. x + (k + 1) = (x + k) + 1
      BY <3>2
    <3> QED BY <3>1, <3>2, <3>3, <3>4, <3>5, <1>2
  <2> QED BY <2>1, <2>2, <1>1
<1> QED BY <1>1, <1>3, <1>4 DEF GensInOrder

LEMMA NoGens ==
  ASSUME Typed', gens' = <<>>
  PROVE  GensInOrder'
<1>1. Len(gens') = 0 /\ said'.n \in 1 .. MaxMessages + 1
  BY DEF Typed, Messages
<1> QED BY <1>1, Constants DEF GensInOrder

LEMMA SameGens ==
  ASSUME Typed, GensInOrder, gens' = gens, said'.n = said.n, mode' = mode,
         actx'.iv[1] = actx.iv[1] /\ actx'.iv[2] = actx.iv[2]
  PROVE  GensInOrder'
BY DEF GensInOrder

LEMMA InitCallBase ==
  ASSUME Base, NEW e \in BOOLEAN, NEW k \in Key \cup {NoKey}, NEW v \in IV \cup {NoAeadIv},
         InitCall(e, k, v)
  PROVE  Base'
<1>1. /\ Typed' /\ Between /\ Number <= MaxMessages
      /\ v # NoAeadIv => said'.fixed = Zeros
      /\ v = NoAeadIv => actx'.iv = actx.iv /\ said'.fixed = said.fixed
      /\ v = NoAeadIv => said'.iv = IF phase = "setup" THEN said.iv ELSE NoAeadIv
      /\ aes'.key = (IF k # NoKey THEN k ELSE aes.key)
      /\ said'.key = (IF k # NoKey THEN k ELSE said.key)
      /\ said'.n = Number /\ said'.aad = <<>> /\ said'.data = <<>>
      /\ phase' = "setup" /\ outs' = <<>> /\ gens' = <<>>
      /\ mode' = mode /\ records' = records
  BY InitCallDoes DEF Base
<1>2. KeyTold'
  BY <1>1 DEF KeyTold, Base
<1>3. FixedTold'
  BY <1>1 DEF FixedTold, Base
<1>4. RecordTold' /\ Begun' /\ RecordWhole'
  BY <1>1 DEF RecordTold, Begun, RecordWhole, Base
<1>5. Bounded'
  BY <1>1 DEF Bounded
<1>6. GensInOrder'
  BY <1>1, NoGens
<1> QED BY <1>1, <1>2, <1>3, <1>4, <1>5, <1>6 DEF Base

(* What is set while no message is under way. *)
LEMMA SetTagLenBase ==
  ASSUME Base, SetTagLen
  PROVE  Base'
<1>1. /\ Typed' /\ actx'.iv = actx.iv /\ actx'.buf = actx.buf
      /\ UNCHANGED <<mode, aes, said, phase, outs, result, gens, records>>
  BY SetTagLenDoes DEF Base, KeepsMessage
<1> QED
  BY <1>1 DEF Base, KeyTold, FixedTold, RecordTold, Bounded, Begun, GensInOrder, RecordWhole

LEMMA SetTagBase ==
  ASSUME Base, NEW genuine \in BOOLEAN, SetTag(genuine)
  PROVE  Base'
<1>1. /\ Typed' /\ Plain /\ actx'.iv = actx.iv
      /\ said'.n = said.n /\ said'.key = said.key /\ said'.iv = said.iv
      /\ said'.fixed = said.fixed /\ said'.aad = said.aad /\ said'.data = said.data
      /\ UNCHANGED <<mode, aes, phase, outs, result, gens, records>>
  BY SetTagDoes DEF Base
<1>2. phase' # "record"
  BY <1>1 DEF Plain
<1> QED
  BY <1>1, <1>2 DEF Base, KeyTold, FixedTold, RecordTold, Bounded, Begun, GensInOrder,
    RecordWhole

LEMMA RestoreIvBase ==
  ASSUME Base, NEW v \in IV, RestoreIv(v)
  PROVE  Base'
<1>1. /\ Typed' /\ phase = "setup" /\ phase' = phase
      /\ said'.n = said.n /\ said'.key = said.key /\ said'.iv = NoAeadIv
      /\ said'.fixed = Zeros /\ said'.aad = said.aad /\ said'.data = said.data
      /\ gens' = <<>> /\ mode' = mode /\ aes' = aes /\ outs' = outs /\ records' = records
  BY RestoreIvDoes DEF Base
<1>2. GensInOrder'
  BY <1>1, NoGens
<1> QED
  BY <1>1, <1>2 DEF Base, KeyTold, FixedTold, RecordTold, Bounded, Begun, RecordWhole

LEMMA SetFixedBase ==
  ASSUME Base, NEW f \in Fixed, NEW e \in 0 .. MaxIv - 1, SetFixed(f, e)
  PROVE  Base'
<1>1. /\ Typed' /\ phase = "setup" /\ phase' = phase /\ actx'.iv[1] = f
      /\ said'.n = said.n /\ said'.key = said.key /\ said'.iv = NoAeadIv
      /\ said'.fixed = f /\ said'.aad = said.aad /\ said'.data = said.data
      /\ gens' = <<>> /\ records' = <<>> /\ mode' = mode /\ aes' = aes /\ outs' = outs
  BY SetFixedDoes DEF Base
<1>2. GensInOrder'
  BY <1>1, NoGens
<1> QED
  BY <1>1, <1>2 DEF Base, KeyTold, FixedTold, RecordTold, Bounded, Begun, RecordWhole

(* A generated IV, and the part of one that came with the packet. *)
LEMMA IvGenBase ==
  ASSUME Base, IvGen
  PROVE  Base'
<1>1. /\ Typed' /\ mode # "ccm" /\ Number <= MaxMessages
      /\ actx'.iv = Inc(actx.iv) /\ aes'.key = aes.key
      /\ said'.n = Number /\ said'.key = said.key /\ said'.iv = actx.iv
      /\ said'.fixed = said.fixed /\ said'.aad = <<>> /\ said'.data = <<>>
      /\ gens' = Append(gens, actx.iv) /\ phase' = "aad" /\ outs' = <<>>
      /\ mode' = mode /\ records' = records
  BY IvGenDoes DEF Base
<1>2. actx.iv \in IV /\ said.n \in Nat /\ Number \in Nat
      /\ Number = IF phase = "setup" THEN said.n ELSE said.n + 1
  BY Constants DEF Base, Typed, Contexts, Messages, Number
<1>3. actx'.iv[1] = actx.iv[1]
  BY <1>1, <1>2, IncType
<1>4. Len(gens) + 1 <= Number
  <2>1. CASE phase = "setup"
    <3>1. Len(gens) = 0 /\ said.n \in 1 .. MaxMessages + 1
      BY <2>1 DEF Base, Begun, Typed, Messages
    <3> QED BY <3>1, <2>1, <1>2, Constants
  <2>2. CASE phase # "setup"
    <3>1. Len(gens) <= said.n /\ Len(gens) \in Nat
      BY DEF Base, GensInOrder, Typed
    <3> QED BY <3>1, <2>2, <1>2
  <2> QED BY <2>1, <2>2
<1>5. GensInOrder'
  BY <1>1, <1>2, <1>4, GensStep DEF Base
<1> QED
  BY <1>1, <1>3, <1>5 DEF Base, KeyTold, FixedTold, RecordTold, Bounded, Begun, RecordWhole

LEMMA SetIvInvBase ==
  ASSUME Base, NEW e \in 0 .. MaxIv - 1, SetIvInv(e)
  PROVE  Base'
<1>1. /\ Typed' /\ mode # "ccm" /\ Number <= MaxMessages
      /\ actx'.iv[1] = actx.iv[1] /\ aes' = aes
      /\ said'.n = Number /\ said'.key = said.key
      /\ said'.fixed = said.fixed /\ said'.aad = <<>> /\ said'.data = <<>>
      /\ gens' = <<>> /\ phase' = "aad" /\ outs' = <<>>
      /\ mode' = mode /\ records' = records
  BY SetIvInvDoes DEF Base
<1>2. GensInOrder'
  BY <1>1, NoGens
<1> QED
  BY <1>1, <1>2 DEF Base, KeyTold, FixedTold, RecordTold, Bounded, Begun, RecordWhole

LEMMA GetTagBase ==
  ASSUME Base, GetTag
  PROVE  Base'
<1>1. /\ Typed' /\ phase = "final" /\ phase' = "done" /\ actx'.iv = actx.iv
      /\ UNCHANGED <<mode, aes, said, outs, gens, records>>
  BY GetTagDoes DEF Base
<1> QED
  BY <1>1 DEF Base, KeyTold, FixedTold, RecordTold, Bounded, Begun, GensInOrder, RecordWhole

LEMMA UpdateBase ==
  ASSUME Base, UpdateEffect
  PROVE  Base'
<1>1. /\ Typed' /\ Plain /\ mode' = mode /\ gens' = gens /\ records' = records
      /\ (mode # "ccm" => actx'.iv = actx.iv) /\ aes'.key = aes.key
      /\ said'.n = said.n /\ said'.key = said.key /\ said'.iv = said.iv
      /\ said'.fixed = said.fixed
      /\ phase' \in {"aad", "data", "final", "done", "failed"}
      /\ phase' = "aad" => outs' = outs /\ said'.data = said.data /\ phase \in {"setup", "aad"}
  BY DEF UpdateEffect
<1>2. said.iv # NoAeadIv
  BY <1>1 DEF Plain, Given
<1>3. KeyTold' /\ RecordTold' /\ Begun' /\ RecordWhole'
  BY <1>1 DEF Base, KeyTold, RecordTold, Begun, RecordWhole
<1>4. FixedTold'
  BY <1>1, <1>2 DEF Base, FixedTold
<1>5. Bounded'
  BY <1>1, <1>2 DEF Base, Bounded
<1>6. GensInOrder'
  <2>1. CASE mode = "ccm"
    <3>1. gens' = <<>>
      BY <2>1, <1>1 DEF Base, GensInOrder
    <3> QED BY <3>1, <1>1, NoGens
  <2>2. CASE mode # "ccm"
    BY <2>2, <1>1, SameGens DEF Base
  <2> QED BY <2>1, <2>2
<1> QED BY <1>1, <1>3, <1>4, <1>5, <1>6 DEF Base

(* TLS records. *)
LEMMA SetTlsAadBase ==
  ASSUME Base, SetTlsAad
  PROVE  Base'
<1>1. /\ Typed' /\ phase = "setup" /\ phase' = "record"
      /\ said.n <= MaxMessages /\ said.fixed # Zeros
      /\ actx'.iv = actx.iv /\ actx'.buf = Record(said.n)
      /\ said'.n = said.n /\ said'.key = said.key /\ said'.iv = NoAeadIv
      /\ said'.fixed = said.fixed /\ said'.aad = said.aad /\ said'.data = said.data
      /\ said'.claim = "none"
      /\ UNCHANGED <<mode, aes, outs, result, gens, records>>
  BY SetTlsAadDoes DEF Base
<1>2. GensInOrder'
  BY <1>1, SameGens DEF Base
<1> QED
  BY <1>1, <1>2 DEF Base, KeyTold, FixedTold, RecordTold, Bounded, Begun, RecordWhole

LEMMA RecordBase ==
  ASSUME Base, phase = "record", RecordEffect, RecordWhole'
  PROVE  Base'
<1>1. /\ Typed' /\ phase' = "setup" /\ mode' = mode /\ outs' = outs /\ gens' = gens
      /\ actx'.iv[1] = actx.iv[1] /\ aes'.key = aes.key
      /\ said'.key = said.key /\ said'.iv = said.iv
      /\ said'.fixed = said.fixed /\ said'.aad = said.aad /\ said'.data = said.data
  BY DEF RecordEffect
<1>2. gens' = <<>>
  BY <1>1 DEF Base, Begun
<1>3. GensInOrder'
  BY <1>1, <1>2, NoGens
<1>4. said.iv = NoAeadIv
  BY DEF Base, RecordTold
<1> QED
  BY <1>1, <1>3, <1>4 DEF Base, KeyTold, FixedTold, RecordTold, Bounded, Begun

LEMMA SealBase ==
  ASSUME Base, GcmSeal \/ CcmSeal
  PROVE  Base'
<1>1. phase = "record" /\ said.n <= MaxMessages
  <2>1. phase = "record"
    BY DEF GcmSeal, CcmSeal
  <2> QED BY <2>1 DEF Base, Bounded
<1>2. /\ RecordEffect /\ Len(records') = Len(records) + 1
      /\ \A i \in 1 .. Len(records) : records'[i] = records[i]
      /\ LET r == records'[Len(records) + 1] IN
         /\ r.n = said.n /\ r.fixed = said.fixed
         /\ r.iv = <<actx.iv[1], r.sent>> /\ r.aad = actx.buf
  <2>1. CASE GcmSeal
    <3>1. actx.iv = <<actx.iv[1], actx.iv[2]>>
      BY IvParts DEF Base, Typed, Contexts
    <3> QED BY <3>1, <2>1, <1>1, GcmSealDoes DEF Base
  <2>2. CASE CcmSeal
    BY <2>2, <1>1, CcmSealDoes DEF Base
  <2> QED BY <2>1, <2>2
<1>3. actx.iv[1] = said.fixed /\ actx.buf = Record(said.n)
  BY <1>1 DEF Base, FixedTold, RecordTold
<1>4. Len(records) \in Nat
  BY DEF Base, Typed
<1>5. RecordWhole'
  BY <1>2, <1>3, <1>4 DEF RecordWhole, Base
<1> QED BY <1>1, <1>2, <1>5, RecordBase

LEMMA OpenBase ==
  ASSUME Base, NEW e \in 0 .. MaxIv - 1, NEW genuine \in BOOLEAN,
         GcmOpen(e, genuine) \/ CcmOpen(e, genuine)
  PROVE  Base'
<1>1. phase = "record" /\ said.n <= MaxMessages
  <2>1. phase = "record"
    BY DEF GcmOpen, CcmOpen
  <2> QED BY <2>1 DEF Base, Bounded
<1>2. RecordEffect /\ records' = records
  BY <1>1, GcmOpenDoes, CcmOpenDoes DEF Base
<1>3. RecordWhole'
  BY <1>2 DEF RecordWhole, Base
<1> QED BY <1>1, <1>2, <1>3, RecordBase

LEMMA InitBase ==
  ASSUME AeadInit
  PROVE  Base
<1>1. /\ mode \in Modes /\ phase = "setup" /\ outs = <<>> /\ gens = <<>> /\ records = <<>>
      /\ said = [n |-> 1, key |-> NoKey, iv |-> NoAeadIv, fixed |-> Zeros, aad |-> <<>>,
                 data |-> <<>>, claim |-> "none", use |-> "plain"]
      /\ aes = [key |-> NoKey, reg |-> ZeroIv, on |-> FALSE, iv |-> ZeroIv,
                aad |-> <<>>, data |-> <<>>]
  BY DEF AeadInit
<1>2. actx \in Contexts
  BY Constants DEF AeadInit, Contexts
<1>3. said \in Messages /\ aes \in AesObjects
  <2>1. 1 \in 1 .. MaxMessages + 1
    BY Constants
  <2> QED BY <1>1, <2>1, Constants DEF Messages, AesObjects
<1>4. Typed
  BY <1>1, <1>2, <1>3 DEF Typed
<1>5. /\ said.key = NoKey /\ said.iv = NoAeadIv /\ said.fixed = Zeros
      /\ said.aad = <<>> /\ said.data = <<>> /\ said.n = 1 /\ aes.key = NoKey
  BY <1>1
<1>6. KeyTold /\ FixedTold /\ RecordTold /\ Bounded /\ Begun /\ RecordWhole
  BY <1>1, <1>5 DEF KeyTold, FixedTold, RecordTold, Bounded, Begun, RecordWhole
<1>7. GensInOrder
  BY <1>1, <1>5 DEF GensInOrder
<1> QED BY <1>4, <1>6, <1>7 DEF Base

LEMMA NextBase ==
  ASSUME Base, [AeadNext]_aeadVars
  PROVE  Base'
<1>1. CASE UNCHANGED aeadVars
  BY <1>1 DEF aeadVars, Base, Typed, KeyTold, FixedTold, RecordTold, Bounded, Begun,
    GensInOrder, RecordWhole
<1>2. ASSUME NEW e \in BOOLEAN, NEW k \in Key \cup {NoKey}, NEW f \in Fixed,
             NEW i \in 0 .. MaxIv - 1, InitCall(e, k, <<f, i>>)
      PROVE  Base'
  <2>1. <<f, i>> \in IV \cup {NoAeadIv}
    BY DEF IV
  <2> QED BY <1>2, <2>1, InitCallBase
<1>3. ASSUME NEW e \in BOOLEAN, NEW k \in Key, InitCall(e, k, NoAeadIv)
      PROVE  Base'
  BY <1>3, InitCallBase
<1>4. CASE SetTagLen
  BY <1>4, SetTagLenBase
<1>5. ASSUME NEW genuine \in BOOLEAN, SetTag(genuine)
      PROVE  Base'
  BY <1>5, SetTagBase
<1>6. ASSUME NEW f \in Fixed, NEW i \in 0 .. MaxIv - 1, RestoreIv(<<f, i>>) \/ SetFixed(f, i)
      PROVE  Base'
  <2>1. <<f, i>> \in IV
    BY DEF IV
  <2> QED BY <1>6, <2>1, RestoreIvBase, SetFixedBase
<1>7. ASSUME NEW i \in 0 .. MaxIv - 1, SetIvInv(i)
      PROVE  Base'
  BY <1>7, SetIvInvBase
<1>8. CASE IvGen \/ GetTag
  BY <1>8, IvGenBase, GetTagBase
<1>9. CASE UpdateAad \/ UpdateData \/ CcmCipher \/ Final
  <2>1. UpdateEffect
    BY <1>9, UpdateAadEffect, UpdateDataEffect, FinalEffect DEF Base
  <2> QED BY <2>1, UpdateBase
<1>10. CASE SetTlsAad \/ GcmSeal \/ CcmSeal
  BY <1>10, SetTlsAadBase, SealBase
<1>11. ASSUME NEW i \in 0 .. MaxIv - 1, NEW genuine \in BOOLEAN,
              GcmOpen(i, genuine) \/ CcmOpen(i, genuine)
       PROVE  Base'
  BY <1>11, OpenBase
<1> QED
  BY <1>1, <1>2, <1>3, <1>4, <1>5, <1>6, <1>7, <1>8, <1>9, <1>10, <1>11 DEF AeadNext

(* The type, the order of the generated IVs and what each record carries    *)
(* are an invariant of every context.                                       *)
THEOREM BaseInvariance == AeadSpec => []Base
<1>1. AeadInit => Base
  BY InitBase
<1>2. Base /\ [AeadNext]_aeadVars => Base'
  BY NextBase
<1> QED BY <1>1, <1>2, PTL DEF AeadSpec

(* A TLS record goes out with the invocation part it was encrypted with     *)
(* after the fixed part, and with its own AAD, whatever else the program    *)
(* has had the context do (wp_aesgcm_tls_cipher, wp_aesccm_tls_cipher).     *)
THEOREM SpecRecordWhole == AeadSpec => []RecordWhole
<1>1. Base => RecordWhole
  BY DEF Base
<1> QED BY <1>1, BaseInvariance, PTL

(* No IV that a context generates comes back before the program sets the    *)
(* IV or the key again: it generates at most one in a message, and there    *)
(* are as many invocation parts (2^64 in wp_aesgcm_get_rand_iv) as the      *)
(* context has messages.                                                    *)
THEOREM SpecGeneratedIvFresh ==
  ASSUME MaxMessages <= MaxIv
  PROVE  AeadSpec => []GeneratedIvFresh
<1>1. Base => GeneratedIvFresh
  <2> SUFFICES ASSUME Base PROVE GeneratedIvFresh
    OBVIOUS
  <2>1. gens \in Seq(IV) /\ said.n \in 1 .. MaxMessages + 1 /\ Len(gens) \in Nat
    BY DEF Base, Typed, Messages
  <2>2. Len(gens) <= MaxMessages
    <3>1. CASE phase = "setup"
      BY <3>1, Constants DEF Base, Begun
    <3>2. CASE phase # "setup"
      BY <3>2, <2>1, Constants DEF Base, Bounded, GensInOrder
    <3> QED BY <3>1, <3>2
  <2>3. ASSUME NEW i \in 1 .. Len(gens), NEW j \in 1 .. Len(gens), i < j
        PROVE  gens[i] # gens[j]
    <3> DEFINE a == gens[j][2] + (Len(gens) + 1 - j)
               b == gens[i][2] + (Len(gens) + 1 - i)
               d == j - i
    <3>1. a % MaxIv = actx.iv[2] /\ b % MaxIv = actx.iv[2]
      BY DEF Base, GensInOrder
    <3>2. gens[i] \in IV /\ gens[j] \in IV
      BY <2>1
    <3>3. gens[i][2] \in 0 .. MaxIv - 1 /\ gens[j][2] \in 0 .. MaxIv - 1
      BY <3>2, IvParts
    <3>4. a \in Nat /\ d \in Nat /\ 0 < d /\ d < MaxIv
      BY <2>1, <2>2, <2>3, <3>3, Constants
    <3>5. ASSUME gens[i] = gens[j] PROVE b = a + d
      <4> DEFINE v == gens[j][2]
                 n == Len(gens)
      <4>1. b = v + (n + 1 - i) /\ a = v + (n + 1 - j)
        BY <3>5
      <4>2. v \in Nat /\ n \in Nat
        BY <2>1, <3>3, Constants
      <4> HIDE DEF a, b, v, n
      <4> QED BY <4>1, <4>2
    <3> HIDE DEF a, b, d
    <3>6. a % MaxIv # (a + d) % MaxIv
      BY <3>4, Apart, Constants
    <3> QED BY <3>1, <3>5, <3>6
  <2> QED BY <2>1, <2>3 DEF GeneratedIvFresh, Distinct
<1> QED BY <1>1, BaseInvariance, PTL

------------------------------------------------------------------------------
(* ... and what holds when a program asks of each build what it stands: it   *)
(* abandons a message, leaves a tag or goes on after a failure only in the   *)
(* streaming build, and has an empty message only in the other.              *)
Stood ==
  Habits \subseteq ({"gcm_stream"} \X {"abandon", "leave_tag", "reuse"})
                   \cup {<<"gcm", "empty">>}

(* A tag the program has given is in the context until the message ends.    *)
ClaimIs(g) == said.claim = IF g THEN "genuine" ELSE "forged"
ClaimTold ==
  /\ \A m \in 1 .. MaxMessages + 1, g \in BOOLEAN :
       actx.buf = Claim(m, g) => m <= said.n /\ (m = said.n => ClaimIs(g))
  /\ said.claim # "none" /\ (phase \in {"aad", "data"} => ~actx.enc)
       /\ phase \in {"setup", "aad", "data"} =>
       actx.buf = Claim(said.n, said.claim = "genuine")

(* AES-GCM that keeps the message. *)
GcmTold ==
  /\ actx.authErr => phase = "failed"
  /\ phase = "setup" /\ said.iv # NoAeadIv => actx.ivState = "buffered" /\ actx.iv = said.iv
  /\ phase \in {"aad", "data"} => MessageIv(actx) = said.iv
  /\ phase \in {"setup", "record", "final", "done"} => actx.aad = <<>> /\ actx.in = <<>>
  /\ phase \in {"aad", "data"} => actx.aad = said.aad /\ actx.in = said.data
  /\ phase \in {"setup", "record", "aad", "done"} => ~actx.tagAvail
  /\ phase = "data" => (actx.tagAvail <=> actx.enc) /\ (actx.enc => actx.buf = Due(said))

(* The streaming build: wolfCrypt has the message once it has begun.        *)
StreamTold ==
  /\ phase = "setup" /\ said.iv # NoAeadIv => actx.ivState = "buffered" /\ actx.iv = said.iv
  /\ phase \in {"aad", "data"} =>
       IF actx.ivState = "buffered"
       THEN actx.iv = said.iv /\ said.aad = <<>> /\ said.data = <<>>
       ELSE aes.on /\ aes.iv = said.iv /\ aes.aad = said.aad /\ aes.data = said.data

CcmTold ==
  /\ actx.authErr => phase = "failed"
  /\ phase \in {"setup", "aad"} /\ said.iv # NoAeadIv => ~actx.ivSet /\ actx.iv = said.iv
  /\ phase \in {"setup", "record", "final", "done", "data"} => actx.aad = <<>> /\ ~actx.aadSet
  /\ phase = "aad" => actx.aad = said.aad /\ actx.aadSet
  /\ phase \in {"setup", "record", "aad", "done"} => ~actx.tagAvail
  /\ phase = "data" =>
       /\ Len(said.data) = 1 /\ (actx.enc => actx.buf = Due(said))
       /\ ~actx.enc => said.claim = "genuine" /\ ~actx.tagAvail

Told ==
  /\ mode = "gcm" => GcmTold
  /\ mode = "gcm_stream" => StreamTold
  /\ mode = "ccm" => CcmTold

FinalTold == phase = "final" => actx.enc /\ actx.buf = Due(said)
OutTold == phase \in {"setup", "aad", "data"} => Len(outs) = Len(said.data)

AeadMessage ==
  /\ ClaimTold /\ Told /\ FinalTold /\ OutTold
  /\ OutputInOrder /\ TagOfMessage /\ AnswerIsTrue

LEMMA HabitsAre ==
  ASSUME Stood, Typed
  PROVE  /\ Between => phase \in {"setup", "done", "aad", "data", "final", "failed"}
         /\ Between /\ mode # "gcm_stream" => phase \in {"setup", "done"}
         /\ mode # "gcm" => ~May("empty")
<1>1. \A h \in {"abandon", "leave_tag", "reuse"} : May(h) => mode = "gcm_stream"
  BY DEF Stood, May
<1>2. May("empty") => mode = "gcm"
  BY DEF Stood, May
<1> QED BY <1>1, <1>2 DEF Between

(* An answer that is the one due, and carries no tag. *)
LEMMA DueAnswer ==
  ASSUME NEW x \in BOOLEAN, NEW y \in BOOLEAN, Answer(x, y), x <=> y
  PROVE  TagOfMessage' /\ AnswerIsTrue' /\ (result'.ok <=> x)
<1>1. x = y
  OBVIOUS
<1>2. result'.ok = x /\ result'.due = y /\ result'.got = Zeros /\ result'.tag = Zeros
  BY DEF Answer
<1> QED BY <1>1, <1>2 DEF TagOfMessage, AnswerIsTrue

LEMMA NoOutput ==
  ASSUME outs' = <<>>, said'.data = <<>>
  PROVE  OutTold' /\ OutputInOrder'
BY DEF OutTold, OutputInOrder

(* The claim while nothing but the phase changes, and across a new message.  *)
LEMMA ClaimKept ==
  ASSUME Typed, ClaimTold, phase \in {"setup", "aad", "data"},
         phase' \notin {"setup"} \/ phase = "setup",
         said'.n = said.n, said'.claim = said.claim,
         actx'.enc = actx.enc, actx'.buf = actx.buf
  PROVE  ClaimTold'
<1>1. \A m \in 1 .. MaxMessages + 1, g \in BOOLEAN :
        actx'.buf = Claim(m, g) => m <= said'.n /\ (m = said'.n => ClaimIs(g)')
  BY DEF ClaimTold, ClaimIs
<1>2. said'.claim # "none" /\ (phase' \in {"aad", "data"} => ~actx'.enc)
        /\ phase' \in {"setup", "aad", "data"} =>
        actx'.buf = Claim(said'.n, said'.claim = "genuine")
  BY DEF ClaimTold
<1> QED BY <1>1, <1>2 DEF ClaimTold

LEMMA ClaimNext ==
  ASSUME Typed, ClaimTold, said'.n = Number, phase' \in {"setup", "aad"},
         said'.claim = IF phase = "setup" THEN said.claim ELSE "none",
         actx'.buf = actx.buf
  PROVE  ClaimTold'
<1>1. said.n \in Nat
  BY Constants DEF Typed, Messages
<1>2. CASE phase = "setup"
  <2>1. said'.n = said.n /\ said'.claim = said.claim
    BY <1>2 DEF Number
  <2>2. \A m \in 1 .. MaxMessages + 1, g \in BOOLEAN :
          actx'.buf = Claim(m, g) => m <= said'.n /\ (m = said'.n => ClaimIs(g)')
    BY <2>1 DEF ClaimTold, ClaimIs
  <2>3. said'.claim # "none" => actx'.buf = Claim(said'.n, said'.claim = "genuine")
    BY <2>1, <1>2 DEF ClaimTold
  <2> QED BY <2>2, <2>3 DEF ClaimTold
<1>3. CASE phase # "setup"
  <2>1. said'.n = said.n + 1 /\ said'.claim = "none"
    BY <1>3 DEF Number
  <2>2. \A m \in 1 .. MaxMessages + 1, g \in BOOLEAN :
          actx'.buf = Claim(m, g) => m <= said'.n /\ m # said'.n
    BY <2>1, <1>1 DEF ClaimTold
  <2> QED BY <2>1, <2>2 DEF ClaimTold
<1> QED BY <1>2, <1>3

(* A tag or the AAD of a record has taken the place of what the caller gave. *)
LEMMA ClaimGone ==
  ASSUME Typed, \A m \in 1 .. MaxMessages + 1, g \in BOOLEAN : actx'.buf # Claim(m, g),
         \/ said'.claim = "none"
         \/ actx'.enc /\ phase' # "setup"
         \/ phase' \notin {"setup", "aad", "data"}
  PROVE  ClaimTold'
BY DEF ClaimTold

(* A tag verifies just when it is genuine and covers what was given. *)
LEMMA GenuineVerifies ==
  ASSUME Typed, ClaimTold, Plain, ~actx.enc
  PROVE  actx.buf = Claim(said.n, TRUE) <=> said.claim = "genuine"
<1>1. said.n \in 1 .. MaxMessages + 1 /\ said.claim \in {"none", "genuine", "forged"}
  BY DEF Typed, Messages
<1>2. ASSUME actx.buf = Claim(said.n, TRUE)
      PROVE  said.claim = "genuine"
  BY <1>1, <1>2 DEF ClaimTold, ClaimIs
<1>3. ASSUME said.claim = "genuine"
      PROVE  actx.buf = Claim(said.n, TRUE)
  <2>1. (said.claim = "genuine") = TRUE
    BY <1>3
  <2>2. actx.buf = Claim(said.n, said.claim = "genuine")
    BY <1>3 DEF ClaimTold, Plain
  <2> QED BY <2>1, <2>2
<1> QED BY <1>2, <1>3

LEMMA InitCallMessage ==
  ASSUME Stood, Base, AeadMessage, NEW e \in BOOLEAN, NEW k \in Key \cup {NoKey},
         NEW v \in IV \cup {NoAeadIv}, InitCall(e, k, v)
  PROVE  AeadMessage'
<1>1. /\ Typed /\ Between
      /\ v # NoAeadIv => actx'.iv = v /\ actx'.ivState = "buffered" /\ ~actx'.ivSet
      /\ v = NoAeadIv =>
           /\ actx'.iv = actx.iv /\ actx'.ivState = actx.ivState /\ actx'.ivSet = actx.ivSet
      /\ KeepsMessage(actx, actx') /\ KeepsMarks(actx, actx')
      /\ said'.n = Number /\ said'.aad = <<>> /\ said'.data = <<>>
      /\ said'.iv = IF v # NoAeadIv THEN v ELSE IF phase = "setup" THEN said.iv ELSE NoAeadIv
      /\ said'.claim = IF phase = "setup" THEN said.claim ELSE "none"
      /\ phase' = "setup" /\ outs' = <<>>
      /\ result' = [ok |-> TRUE, due |-> TRUE, got |-> Zeros, tag |-> Zeros]
      /\ mode' = mode
  BY InitCallDoes DEF Base
<1>2. ClaimTold'
  BY <1>1, ClaimNext DEF AeadMessage, KeepsMessage
<1>3. /\ said'.iv # NoAeadIv /\ v = NoAeadIv => phase = "setup" /\ said'.iv = said.iv
      /\ said'.iv # NoAeadIv /\ v # NoAeadIv => said'.iv = v
  BY <1>1
<1>4. mode \in {"gcm", "ccm"} => phase \in {"setup", "done"}
  BY <1>1, HabitsAre
<1>5. ASSUME mode = "gcm" PROVE GcmTold'
  BY <1>1, <1>3, <1>4, <1>5 DEF AeadMessage, Told, GcmTold, KeepsMessage, KeepsMarks
<1>6. ASSUME mode = "gcm_stream" PROVE StreamTold'
  BY <1>1, <1>3, <1>6 DEF AeadMessage, Told, StreamTold
<1>7. ASSUME mode = "ccm" PROVE CcmTold'
  BY <1>1, <1>3, <1>4, <1>7 DEF AeadMessage, Told, CcmTold, KeepsMessage, KeepsMarks
<1>8. Told'
  BY <1>1, <1>5, <1>6, <1>7 DEF Told
<1>9. FinalTold' /\ OutTold' /\ OutputInOrder'
  BY <1>1, NoOutput DEF FinalTold
<1>10. TagOfMessage' /\ AnswerIsTrue'
  BY <1>1 DEF TagOfMessage, AnswerIsTrue
<1> QED BY <1>2, <1>8, <1>9, <1>10 DEF AeadMessage

LEMMA IvGenMessage ==
  ASSUME Stood, Base, AeadMessage, IvGen
  PROVE  AeadMessage'
<1>1. /\ Typed /\ mode # "ccm" /\ Between
      /\ actx'.ivState = "copied" /\ (mode = "gcm" => actx'.origIv = actx.iv)
      /\ KeepsMessage(actx, actx') /\ KeepsMarks(actx, actx')
      /\ mode = "gcm_stream" =>
           aes'.on /\ aes'.iv = actx.iv /\ aes'.aad = <<>> /\ aes'.data = <<>>
      /\ said'.n = Number /\ said'.iv = actx.iv
      /\ said'.aad = <<>> /\ said'.data = <<>>
      /\ said'.claim = IF phase = "setup" THEN said.claim ELSE "none"
      /\ phase' = "aad" /\ outs' = <<>>
      /\ result' = [ok |-> TRUE, due |-> TRUE, got |-> Zeros, tag |-> Zeros]
      /\ mode' = mode
  BY IvGenDoes DEF Base
<1>2. ClaimTold'
  BY <1>1, ClaimNext DEF AeadMessage, KeepsMessage
<1>3. mode = "gcm" => phase \in {"setup", "done"}
  BY <1>1, HabitsAre
<1>4. ASSUME mode = "gcm" PROVE GcmTold'
  BY <1>1, <1>3, <1>4 DEF AeadMessage, Told, GcmTold, KeepsMessage, KeepsMarks, MessageIv
<1>5. ASSUME mode = "gcm_stream" PROVE StreamTold'
  BY <1>1, <1>5 DEF StreamTold
<1>6. Told'
  BY <1>1, <1>4, <1>5 DEF Told
<1>7. FinalTold' /\ OutTold' /\ OutputInOrder'
  BY <1>1, NoOutput DEF FinalTold
<1>8. TagOfMessage' /\ AnswerIsTrue'
  BY <1>1 DEF TagOfMessage, AnswerIsTrue
<1> QED BY <1>2, <1>6, <1>7, <1>8 DEF AeadMessage

LEMMA SetIvInvMessage ==
  ASSUME Stood, Base, AeadMessage, NEW e \in 0 .. MaxIv - 1, SetIvInv(e)
  PROVE  AeadMessage'
<1>1. /\ Typed /\ mode # "ccm" /\ Between
      /\ actx'.ivState = "buffered" /\ actx'.iv = said'.iv
      /\ KeepsMessage(actx, actx') /\ KeepsMarks(actx, actx')
      /\ said'.n = Number /\ said'.aad = <<>> /\ said'.data = <<>>
      /\ said'.claim = IF phase = "setup" THEN said.claim ELSE "none"
      /\ phase' = "aad" /\ outs' = <<>>
      /\ result' = [ok |-> TRUE, due |-> TRUE, got |-> Zeros, tag |-> Zeros]
      /\ mode' = mode
  BY SetIvInvDoes DEF Base
<1>2. ClaimTold'
  BY <1>1, ClaimNext DEF AeadMessage, KeepsMessage
<1>3. mode = "gcm" => phase \in {"setup", "done"}
  BY <1>1, HabitsAre
<1>4. ASSUME mode = "gcm" PROVE GcmTold'
  BY <1>1, <1>3, <1>4 DEF AeadMessage, Told, GcmTold, KeepsMessage, KeepsMarks, MessageIv
<1>5. ASSUME mode = "gcm_stream" PROVE StreamTold'
  BY <1>1, <1>5 DEF StreamTold
<1>6. Told'
  BY <1>1, <1>4, <1>5 DEF Told
<1>7. FinalTold' /\ OutTold' /\ OutputInOrder'
  BY <1>1, NoOutput DEF FinalTold
<1>8. TagOfMessage' /\ AnswerIsTrue'
  BY <1>1 DEF TagOfMessage, AnswerIsTrue
<1> QED BY <1>2, <1>6, <1>7, <1>8 DEF AeadMessage

(* Parameters. *)
LEMMA SetTagLenMessage ==
  ASSUME Base, AeadMessage, SetTagLen
  PROVE  AeadMessage'
<1>1. /\ Typed /\ phase = "setup"
      /\ actx'.enc = actx.enc /\ actx'.iv = actx.iv /\ actx'.ivState = actx.ivState
      /\ actx'.ivSet = actx.ivSet
      /\ KeepsMessage(actx, actx') /\ KeepsMarks(actx, actx')
      /\ UNCHANGED <<mode, aes, said, phase, outs, result, gens, records>>
  BY SetTagLenDoes DEF Base
<1>2. ClaimTold'
  BY <1>1, ClaimKept DEF AeadMessage, KeepsMessage
<1>3. Told'
  BY <1>1 DEF AeadMessage, Told, GcmTold, StreamTold, CcmTold, KeepsMessage, KeepsMarks
<1>4. /\ FinalTold' /\ OutTold' /\ OutputInOrder' /\ TagOfMessage' /\ AnswerIsTrue'
  BY <1>1 DEF AeadMessage, FinalTold, OutTold, OutputInOrder, TagOfMessage, AnswerIsTrue
<1> QED BY <1>2, <1>3, <1>4 DEF AeadMessage

(* Before any data the program sets another IV, or part of one. *)
LEMMA NoIvMessage ==
  ASSUME Base, AeadMessage, phase = "setup", phase' = "setup", mode' = mode, outs' = outs,
         actx'.enc = actx.enc,
         KeepsMessage(actx, actx'), KeepsMarks(actx, actx'),
         said'.n = said.n, said'.iv = NoAeadIv, said'.data = said.data,
         said'.claim = said.claim, result' = result
  PROVE  AeadMessage'
<1>1. Typed /\ outs' = <<>> /\ said'.data = <<>>
  BY DEF Base, Begun
<1>2. ClaimTold'
  BY <1>1, ClaimKept DEF AeadMessage, KeepsMessage
<1>3. Told'
  BY DEF AeadMessage, Told, GcmTold, StreamTold, CcmTold, KeepsMessage, KeepsMarks
<1>4. FinalTold' /\ OutTold' /\ OutputInOrder' /\ TagOfMessage' /\ AnswerIsTrue'
  BY <1>1, NoOutput DEF AeadMessage, FinalTold, TagOfMessage, AnswerIsTrue
<1> QED BY <1>2, <1>3, <1>4 DEF AeadMessage

LEMMA SetTagMessage ==
  ASSUME Base, AeadMessage, NEW genuine \in BOOLEAN, SetTag(genuine)
  PROVE  AeadMessage'
<1>1. /\ Typed /\ Plain /\ ~actx.enc /\ (mode = "ccm" => phase # "data")
      /\ actx'.enc = actx.enc /\ actx'.iv = actx.iv /\ actx'.origIv = actx.origIv
      /\ actx'.ivState = actx.ivState /\ actx'.ivSet = actx.ivSet
      /\ actx'.aad = actx.aad /\ actx'.aadSet = actx.aadSet /\ actx'.in = actx.in
      /\ actx'.buf = Claim(said.n, genuine) /\ KeepsMarks(actx, actx')
      /\ said'.n = said.n /\ said'.key = said.key /\ said'.iv = said.iv
      /\ said'.aad = said.aad /\ said'.data = said.data
      /\ said'.claim = IF genuine THEN "genuine" ELSE "forged"
      /\ UNCHANGED <<mode, aes, phase, outs, result, gens, records>>
  BY SetTagDoes DEF Base
<1>2. said.n \in Nat
  BY <1>1, Constants DEF Typed, Messages
<1>3. ASSUME NEW m \in 1 .. MaxMessages + 1, NEW g \in BOOLEAN, actx'.buf = Claim(m, g)
      PROVE  m <= said'.n /\ (m = said'.n => ClaimIs(g)')
  <2>1. Claim(m, g) = Claim(said.n, genuine)
    BY <1>1, <1>3
  <2>2. m = said.n /\ g = genuine
    BY <2>1 DEF Claim
  <2> QED BY <2>2, <1>1, <1>2 DEF ClaimIs
<1>4. actx'.buf = Claim(said'.n, said'.claim = "genuine")
  <2>1. (said'.claim = "genuine") = genuine
    BY <1>1
  <2> QED BY <2>1, <1>1
<1>5. ClaimTold'
  BY <1>3, <1>4 DEF ClaimTold
<1>6. ASSUME mode = "gcm" PROVE GcmTold'
  BY <1>1, <1>6 DEF AeadMessage, Told, GcmTold, KeepsMarks, MessageIv
<1>7. ASSUME mode = "gcm_stream" PROVE StreamTold'
  BY <1>1, <1>7 DEF AeadMessage, Told, StreamTold
<1>8. ASSUME mode = "ccm" PROVE CcmTold'
  BY <1>1, <1>8 DEF AeadMessage, Told, CcmTold, KeepsMarks, Plain
<1>9. Told'
  BY <1>1, <1>6, <1>7, <1>8 DEF Told
<1>10. /\ FinalTold' /\ OutTold' /\ OutputInOrder' /\ TagOfMessage' /\ AnswerIsTrue'
  BY <1>1 DEF AeadMessage, FinalTold, OutTold, OutputInOrder, TagOfMessage, AnswerIsTrue, Plain
<1> QED BY <1>5, <1>9, <1>10 DEF AeadMessage

(* The tag of what has been encrypted. *)
LEMMA GetTagMessage ==
  ASSUME Base, AeadMessage, GetTag
  PROVE  AeadMessage'
<1>1. /\ Typed /\ phase = "final" /\ phase' = "done"
      /\ KeepsMessage(actx, actx') /\ ~actx'.tagAvail /\ actx'.authErr = actx.authErr
      /\ result' = [ok |-> TRUE, due |-> TRUE, got |-> actx.buf, tag |-> Due(said)]
      /\ UNCHANGED <<mode, aes, said, outs, gens, records>>
  BY GetTagDoes DEF Base
<1>2. ClaimTold'
  BY <1>1 DEF AeadMessage, ClaimTold, ClaimIs, KeepsMessage
<1>3. Told'
  BY <1>1 DEF AeadMessage, Told, GcmTold, StreamTold, CcmTold, KeepsMessage
<1>4. FinalTold' /\ OutTold' /\ OutputInOrder'
  BY <1>1 DEF AeadMessage, FinalTold, OutTold, OutputInOrder
<1>5. TagOfMessage' /\ AnswerIsTrue'
  BY <1>1 DEF AeadMessage, FinalTold, TagOfMessage, AnswerIsTrue
<1> QED BY <1>2, <1>3, <1>4, <1>5 DEF AeadMessage

(* TLS records. *)
LEMMA SetTlsAadMessage ==
  ASSUME Base, AeadMessage, SetTlsAad
  PROVE  AeadMessage'
<1>1. /\ Typed /\ phase = "setup" /\ phase' = "record"
      /\ actx'.aad = actx.aad /\ actx'.aadSet = actx.aadSet /\ actx'.in = actx.in
      /\ actx'.buf = Record(said.n) /\ KeepsMarks(actx, actx')
      /\ said'.iv = NoAeadIv /\ said'.data = said.data /\ said'.claim = "none"
      /\ UNCHANGED <<mode, aes, outs, result, gens, records>>
  BY SetTlsAadDoes DEF Base
<1>2. ClaimTold'
  BY <1>1, ClaimGone, ClaimsApart
<1>3. Told'
  BY <1>1 DEF AeadMessage, Told, GcmTold, StreamTold, CcmTold, KeepsMarks
<1>4. outs' = <<>> /\ said'.data = <<>>
  BY <1>1 DEF Base, Begun
<1>5. FinalTold' /\ OutTold' /\ OutputInOrder' /\ TagOfMessage' /\ AnswerIsTrue'
  BY <1>1, <1>4, NoOutput DEF AeadMessage, FinalTold, TagOfMessage, AnswerIsTrue
<1> QED BY <1>2, <1>3, <1>5 DEF AeadMessage

LEMMA RecordMessage ==
  ASSUME Base, AeadMessage, phase = "record", RecordEffect, TagOfMessage', AnswerIsTrue'
  PROVE  AeadMessage'
<1>1. /\ Typed /\ phase' = "setup" /\ mode' = mode /\ outs' = outs
      /\ KeepsMessage(actx, actx') /\ KeepsMarks(actx, actx')
      /\ said'.iv = said.iv /\ said'.data = said.data /\ said'.claim = said.claim
  BY DEF RecordEffect, Base
<1>2. said.iv = NoAeadIv /\ said.claim = "none" /\ actx.buf = Record(said.n)
      /\ outs' = <<>> /\ said'.data = <<>>
  BY <1>1 DEF Base, RecordTold, Begun
<1>3. ClaimTold'
  BY <1>1, <1>2, ClaimGone, ClaimsApart DEF KeepsMessage
<1>4. Told'
  BY <1>1, <1>2 DEF AeadMessage, Told, GcmTold, StreamTold, CcmTold, KeepsMessage, KeepsMarks
<1>5. FinalTold' /\ OutTold' /\ OutputInOrder'
  BY <1>1, <1>2, NoOutput DEF FinalTold
<1> QED BY <1>3, <1>4, <1>5 DEF AeadMessage

LEMMA SealOpenMessage ==
  ASSUME Base, AeadMessage,
         \/ GcmSeal \/ CcmSeal
         \/ \E e \in 0 .. MaxIv - 1, genuine \in BOOLEAN :
              GcmOpen(e, genuine) \/ CcmOpen(e, genuine)
  PROVE  AeadMessage'
<1>1. phase = "record" /\ said.n <= MaxMessages
  <2>1. phase = "record"
    BY DEF GcmSeal, CcmSeal, GcmOpen, CcmOpen
  <2> QED BY <2>1 DEF Base, Bounded
<1>2. actx.iv[1] = said.fixed /\ actx.buf = Record(said.n) /\ Typed
  BY <1>1 DEF Base, FixedTold, RecordTold
<1>3. CASE GcmSeal \/ CcmSeal
  <2>1. RecordEffect /\ Answer(TRUE, TRUE)
    BY <1>1, <1>2, <1>3, GcmSealDoes, CcmSealDoes
  <2>2. TagOfMessage' /\ AnswerIsTrue'
    BY <2>1, DueAnswer
  <2> QED BY <2>1, <2>2, <1>1, RecordMessage
<1>4. ASSUME NEW e \in 0 .. MaxIv - 1, NEW genuine \in BOOLEAN,
             GcmOpen(e, genuine) \/ CcmOpen(e, genuine)
      PROVE  AeadMessage'
  <2> DEFINE ok == /\ genuine /\ <<actx.iv[1], e>> = <<said.fixed, e>>
                   /\ actx.buf = Record(said.n)
  <2>1. RecordEffect /\ Answer(ok, genuine)
    BY <1>1, <1>2, <1>4, GcmOpenDoes, CcmOpenDoes
  <2>2. ok \in BOOLEAN /\ (ok <=> genuine)
    BY <1>2
  <2> HIDE DEF ok
  <2>3. TagOfMessage' /\ AnswerIsTrue'
    BY <2>1, <2>2, DueAnswer
  <2> QED BY <2>1, <2>3, <1>1, RecordMessage
<1> QED BY <1>3, <1>4

------------------------------------------------------------------------------
(* Updates and final, build by build. *)
LEMMA GcmAadMessage ==
  ASSUME Base, AeadMessage, mode = "gcm", UpdateAad
  PROVE  AeadMessage'
<1>1. /\ Typed /\ phase \in {"setup", "aad"} /\ Given /\ Len(said.aad) < MaxPieces
      /\ said'.n = said.n /\ said'.key = said.key /\ said'.iv = said.iv
      /\ said'.data = said.data /\ said'.claim = said.claim
      /\ said'.aad = Append(said.aad, Piece(said.aad))
      /\ phase' \in {"aad", "failed"} /\ mode' = mode /\ outs' = outs
  BY AadGiven DEF Base
<1>2. CachesAad /\ result' = result
  <2>1. CacheAad /\ result' = result
    BY DEF UpdateAad
  <2> QED BY <2>1, <1>1, CacheAadDoes
<1>3. outs = <<>> /\ said.data = <<>> /\ (phase = "setup" => said.aad = <<>>)
  BY <1>1 DEF Base, Begun
<1>4. ClaimTold'
  BY <1>1, <1>2, ClaimKept DEF AeadMessage, CachesAad
<1>5. MessageIv(actx') = said.iv /\ actx.aad = said.aad /\ actx.in = said.data
      /\ ~actx.authErr /\ ~actx.tagAvail
  BY <1>1, <1>2, <1>3 DEF AeadMessage, Told, GcmTold, CachesAad, MessageIv, Given
<1>6. GcmTold'
  BY <1>1, <1>2, <1>3, <1>5 DEF GcmTold, CachesAad, KeepsMarks
<1>7. Told' /\ FinalTold' /\ OutTold' /\ OutputInOrder' /\ TagOfMessage' /\ AnswerIsTrue'
  BY <1>1, <1>2, <1>3, <1>6, NoOutput DEF AeadMessage, Told, FinalTold, TagOfMessage, AnswerIsTrue
<1> QED BY <1>4, <1>7 DEF AeadMessage

(* A piece of output more, at the next place. *)
LEMMA NextOutput ==
  ASSUME Base, AeadMessage, phase \in {"setup", "aad", "data"},
         said'.iv = said.iv, said'.key = said.key,
         said'.data = Append(said.data, Piece(said.data)),
         outs' = Append(outs, [iv |-> said.iv, key |-> said.key, at |-> Len(said'.data)])
  PROVE  OutTold' /\ OutputInOrder'
<1>1. outs \in Seq(Outputs) /\ said.data \in Pieces
  BY DEF Base, Typed, Messages
<1>2. Len(said'.data) = Len(said.data) + 1 /\ Len(said.data) \in Nat
  BY <1>1 DEF Pieces
<1>3. Len(outs) = Len(said.data)
  BY DEF AeadMessage, OutTold
<1>4. /\ Len(outs') = Len(outs) + 1 /\ Len(outs) \in Nat
      /\ outs'[Len(outs) + 1] = [iv |-> said.iv, key |-> said.key, at |-> Len(outs) + 1]
      /\ \A i \in 1 .. Len(outs) : outs'[i] = outs[i]
  BY <1>1, <1>2, <1>3
<1>5. OutTold'
  BY <1>2, <1>3, <1>4 DEF OutTold
<1>6. \A i \in 1 .. Len(outs) : outs[i] = [iv |-> said.iv, key |-> said.key, at |-> i]
  BY DEF AeadMessage, OutputInOrder
<1>7. ASSUME NEW i \in 1 .. Len(outs) + 1
      PROVE  outs'[i] = [iv |-> said.iv, key |-> said.key, at |-> i]
  BY <1>4, <1>6
<1>8. OutputInOrder'
  BY <1>4, <1>7 DEF OutputInOrder
<1> QED BY <1>5, <1>8

(* What the context holds is the message as the program has given it. *)
LEMMA GcmHolds ==
  ASSUME Base, AeadMessage, mode = "gcm", Plain
  PROVE  /\ MessageIv(actx) = said.iv /\ actx.aad = said.aad /\ actx.in = said.data
         /\ aes.key = said.key /\ ~actx.authErr /\ TagNow = Due(said)
         /\ phase # "data" => ~actx.tagAvail
<1>1. said.iv # NoAeadIv /\ phase \in {"setup", "aad", "data"}
  BY DEF Plain, Given
<1>2. phase = "setup" => said.aad = <<>> /\ said.data = <<>>
  BY DEF Base, Begun
<1>3. MessageIv(actx) = said.iv /\ actx.aad = said.aad /\ actx.in = said.data
      /\ ~actx.authErr /\ (phase # "data" => ~actx.tagAvail)
  BY <1>1, <1>2 DEF AeadMessage, Told, GcmTold, MessageIv
<1>4. aes.key = said.key
  BY DEF Base, KeyTold
<1> QED BY <1>3, <1>4 DEF TagNow, Due

LEMMA GcmDataMessage ==
  ASSUME Base, AeadMessage, mode = "gcm", UpdateData
  PROVE  AeadMessage'
<1>1. /\ Typed /\ Plain /\ Len(said.data) < MaxPieces
      /\ said' = [said EXCEPT !.data = Append(@, Piece(said.data))]
      /\ mode' = mode
  <2>1. Typed /\ More /\ mode' = mode
        /\ said' = [said EXCEPT !.data = Append(@, Piece(said.data))]
    BY DEF UpdateData, Base
  <2> QED BY <2>1 DEF More
<1>2. /\ said'.n = said.n /\ said'.key = said.key /\ said'.iv = said.iv
      /\ said'.aad = said.aad /\ said'.claim = said.claim
      /\ said'.data = Append(said.data, Piece(said.data))
  BY <1>1, DataGiven
<1>3. GcmData /\ phase' = IF result'.ok THEN "data" ELSE "failed"
  BY DEF UpdateData
<1>4. /\ actx'.enc = actx.enc /\ MessageIv(actx') = MessageIv(actx)
      /\ actx'.aad = actx.aad /\ actx'.authErr = actx.authErr
      /\ actx'.in = Append(actx.in, Piece(said.data))
      /\ actx.enc =>
           /\ actx'.tagAvail
           /\ actx'.buf = Tag(aes.key, MessageIv(actx), actx.aad, actx'.in)
      /\ ~actx.enc => actx'.tagAvail = actx.tagAvail /\ actx'.buf = actx.buf
      /\ outs' = Append(outs, [iv |-> MessageIv(actx), key |-> aes.key, at |-> Len(actx'.in)])
      /\ result' = [ok |-> TRUE, due |-> TRUE, got |-> Zeros, tag |-> Zeros]
  BY <1>1, <1>3, GcmDataDoes
<1>5. /\ MessageIv(actx) = said.iv /\ actx.aad = said.aad /\ actx.in = said.data
      /\ aes.key = said.key /\ ~actx.authErr
      /\ phase # "data" => ~actx.tagAvail
  BY <1>1, GcmHolds
<1>6. phase' = "data" /\ phase \in {"setup", "aad", "data"}
  BY <1>1, <1>3, <1>4 DEF Plain
<1>7. actx'.in = said'.data
  BY <1>2, <1>4, <1>5
<1>8. actx.enc => actx'.buf = Due(said')
  BY <1>2, <1>4, <1>5, <1>7 DEF Due
<1>9. ~actx.enc => ~actx'.tagAvail
  BY <1>4, <1>5 DEF AeadMessage, Told, GcmTold
<1>10. GcmTold'
  <2>1. actx'.enc \in BOOLEAN /\ actx'.tagAvail \in BOOLEAN
    BY UpdateDataEffect DEF UpdateEffect, Base, Typed, Contexts
  <2> QED BY <2>1, <1>2, <1>4, <1>5, <1>6, <1>7, <1>8, <1>9 DEF GcmTold
<1>11. ClaimTold'
  <2>1. CASE actx.enc
    BY <2>1, <1>1, <1>4, <1>6, ClaimGone, ClaimsApart
  <2>2. CASE ~actx.enc
    BY <2>2, <1>1, <1>2, <1>4, <1>6, ClaimKept DEF AeadMessage
  <2> QED BY <2>1, <2>2
<1>12. OutTold' /\ OutputInOrder'
  BY <1>2, <1>4, <1>5, <1>6, <1>7, NextOutput
<1>13. Told' /\ FinalTold' /\ TagOfMessage' /\ AnswerIsTrue'
  BY <1>1, <1>4, <1>6, <1>10 DEF Told, FinalTold, TagOfMessage, AnswerIsTrue
<1> QED BY <1>11, <1>12, <1>13 DEF AeadMessage

LEMMA GcmFinalMessage ==
  ASSUME Base, AeadMessage, mode = "gcm", Final
  PROVE  AeadMessage'
<1>1. /\ Typed /\ Plain /\ GcmFinal /\ mode' = mode /\ said' = said
      /\ phase' = IF ~result'.ok THEN "failed" ELSE IF actx.enc THEN "final" ELSE "done"
  BY DEF Final, Base
<1>2. /\ ~actx.authErr /\ TagNow = Due(said) /\ (phase # "data" => ~actx.tagAvail)
      /\ phase \in {"setup", "aad", "data"}
  BY <1>1, GcmHolds DEF Plain
<1>3. /\ actx'.enc = actx.enc /\ outs' = outs /\ actx'.aad = <<>> /\ actx'.in = <<>>
      /\ actx.tagAvail =>
           /\ actx'.buf = actx.buf /\ actx'.tagAvail /\ ~actx'.authErr
           /\ Answer(TRUE, actx.enc \/ said.claim = "genuine")
      /\ ~actx.tagAvail /\ actx.enc =>
           /\ actx'.buf = TagNow /\ actx'.tagAvail /\ ~actx'.authErr
           /\ Answer(TRUE, TRUE)
      /\ ~actx.tagAvail /\ ~actx.enc =>
           /\ actx'.buf = actx.buf /\ ~actx'.tagAvail
           /\ actx'.authErr <=> ~Verifies(actx.buf, said, TagNow)
           /\ Answer(Verifies(actx.buf, said, TagNow), said.claim = "genuine")
  BY <1>1, <1>2, GcmFinalDoes
<1>4. actx.enc \in BOOLEAN /\ actx.tagAvail \in BOOLEAN
  BY <1>1 DEF Typed, Contexts
<1>5. actx.tagAvail => actx.enc /\ actx.buf = Due(said)
  BY <1>2 DEF AeadMessage, Told, GcmTold
<1>6. CASE actx.enc
  <2>1. Answer(TRUE, TRUE) /\ actx'.buf = Due(said) /\ ~actx'.authErr
    <3>1. CASE actx.tagAvail
      <4>1. (actx.enc \/ said.claim = "genuine") = TRUE
        BY <1>6
      <4> QED BY <4>1, <3>1, <1>3, <1>5
    <3>2. CASE ~actx.tagAvail
      BY <3>2, <1>2, <1>3, <1>6
    <3> QED BY <3>1, <3>2
  <2>2. TagOfMessage' /\ AnswerIsTrue' /\ result'.ok
    BY <2>1, DueAnswer
  <2>3. phase' = "final"
    BY <2>2, <1>1, <1>6
  <2>4. ClaimTold'
    BY <2>1, <2>3, <1>1, ClaimGone, ClaimsApart DEF Due
  <2>5. GcmTold' /\ FinalTold' /\ OutTold'
    BY <2>1, <2>3, <1>1, <1>3, <1>6 DEF GcmTold, FinalTold, OutTold, Due
  <2>6. OutputInOrder'
    BY <1>1, <1>3 DEF AeadMessage, OutputInOrder
  <2> QED BY <2>2, <2>4, <2>5, <2>6, <1>1 DEF AeadMessage, Told
<1>7. CASE ~actx.enc
  <2> DEFINE good == Verifies(actx.buf, said, TagNow)
             due == said.claim = "genuine"
  <2>1. /\ actx'.buf = actx.buf /\ ~actx'.tagAvail /\ (actx'.authErr <=> ~good)
        /\ Answer(good, due)
    BY <1>3, <1>5, <1>7
  <2>2. good \in BOOLEAN /\ due \in BOOLEAN
    BY DEF Verifies
  <2>3. good <=> due
    BY <1>1, <1>2, <1>7, GenuineVerifies DEF Verifies, AeadMessage
  <2> HIDE DEF good, due
  <2>4. TagOfMessage' /\ AnswerIsTrue' /\ (result'.ok <=> good)
    BY <2>1, <2>2, <2>3, DueAnswer
  <2>5. phase' \in {"failed", "done"} /\ (good => phase' = "done") /\ (~good => phase' = "failed")
    BY <2>4, <1>1, <1>7
  <2>6. ClaimTold'
    BY <2>1, <2>5, <1>1, <1>2, <1>3, ClaimKept DEF AeadMessage
  <2>7. GcmTold' /\ FinalTold' /\ OutTold'
    BY <2>1, <2>5, <1>3 DEF GcmTold, FinalTold, OutTold
  <2>8. OutputInOrder'
    BY <1>1, <1>3 DEF AeadMessage, OutputInOrder
  <2> QED BY <2>4, <2>6, <2>7, <2>8, <1>1 DEF AeadMessage, Told
<1> QED BY <1>6, <1>7

(* wolfCrypt's object has the message from its first piece on. *)
LEMMA StreamHolds ==
  ASSUME Base, AeadMessage, mode = "gcm_stream", Plain
  PROVE  /\ StreamStart.on /\ StreamStart.iv = said.iv /\ StreamStart.key = said.key
         /\ StreamStart.aad = said.aad /\ StreamStart.data = said.data
<1>1. said.iv # NoAeadIv /\ phase \in {"setup", "aad", "data"} /\ Typed
  BY DEF Plain, Given, Base
<1>2. phase = "setup" => said.aad = <<>> /\ said.data = <<>>
  BY DEF Base, Begun
<1>3. aes.key = said.key
  BY DEF Base, KeyTold
<1>4. /\ StreamStart.key = aes.key
      /\ actx.ivState = "buffered" =>
           /\ StreamStart.on /\ StreamStart.iv = actx.iv
           /\ StreamStart.aad = <<>> /\ StreamStart.data = <<>>
      /\ actx.ivState # "buffered" => StreamStart = aes
  BY <1>1, StreamStartDoes
<1> QED BY <1>1, <1>2, <1>3, <1>4 DEF AeadMessage, Told, StreamTold

LEMMA StreamAadMessage ==
  ASSUME Base, AeadMessage, mode = "gcm_stream", UpdateAad
  PROVE  AeadMessage'
<1>1. /\ Typed /\ phase \in {"setup", "aad"} /\ Given /\ Len(said.aad) < MaxPieces
      /\ said'.n = said.n /\ said'.key = said.key /\ said'.iv = said.iv
      /\ said'.data = said.data /\ said'.claim = said.claim
      /\ said'.aad = Append(said.aad, Piece(said.aad))
      /\ phase' \in {"aad", "failed"} /\ mode' = mode /\ outs' = outs
  BY AadGiven DEF Base
<1>2. StreamAad /\ result' = result
  BY DEF UpdateAad
<1>3. /\ StreamsOn /\ aes'.aad = Append(StreamStart.aad, Piece(said.aad))
      /\ aes'.data = StreamStart.data
  BY <1>1, <1>2, StreamAadDoes
<1>4. outs = <<>> /\ said.data = <<>>
  BY <1>1 DEF Base, Begun
<1>5. /\ StreamStart.on /\ StreamStart.iv = said.iv
      /\ StreamStart.aad = said.aad /\ StreamStart.data = said.data
  <2>1. Plain
    BY <1>1 DEF Plain
  <2> QED BY <2>1, StreamHolds
<1>6. ClaimTold'
  BY <1>1, <1>3, ClaimKept DEF AeadMessage, StreamsOn, KeepsMessage
<1>7. StreamTold'
  BY <1>1, <1>3, <1>5 DEF StreamTold, StreamsOn
<1>8. Told' /\ FinalTold' /\ OutTold' /\ OutputInOrder' /\ TagOfMessage' /\ AnswerIsTrue'
  BY <1>1, <1>2, <1>4, <1>7, NoOutput DEF AeadMessage, Told, FinalTold, TagOfMessage, AnswerIsTrue
<1> QED BY <1>6, <1>8 DEF AeadMessage

LEMMA StreamDataMessage ==
  ASSUME Base, AeadMessage, mode = "gcm_stream", UpdateData
  PROVE  AeadMessage'
<1>1. /\ Typed /\ Plain /\ Len(said.data) < MaxPieces
      /\ said' = [said EXCEPT !.data = Append(@, Piece(said.data))]
      /\ mode' = mode
  <2>1. Typed /\ More /\ mode' = mode
        /\ said' = [said EXCEPT !.data = Append(@, Piece(said.data))]
    BY DEF UpdateData, Base
  <2> QED BY <2>1 DEF More
<1>2. /\ said'.n = said.n /\ said'.key = said.key /\ said'.iv = said.iv
      /\ said'.aad = said.aad /\ said'.claim = said.claim
      /\ said'.data = Append(said.data, Piece(said.data))
  BY <1>1, DataGiven
<1>3. StreamData /\ phase' = IF result'.ok THEN "data" ELSE "failed"
  BY DEF UpdateData
<1>4. /\ StreamsOn /\ aes'.data = Append(StreamStart.data, Piece(said.data))
      /\ aes'.aad = StreamStart.aad
      /\ outs' = Append(outs, [iv |-> aes'.iv, key |-> aes'.key, at |-> Len(aes'.data)])
      /\ result' = [ok |-> TRUE, due |-> TRUE, got |-> Zeros, tag |-> Zeros]
  BY <1>1, <1>3, StreamDataDoes
<1>5. /\ StreamStart.on /\ StreamStart.iv = said.iv /\ StreamStart.key = said.key
      /\ StreamStart.aad = said.aad /\ StreamStart.data = said.data
  BY <1>1, StreamHolds
<1>6. phase' = "data" /\ phase \in {"setup", "aad", "data"}
  BY <1>1, <1>3, <1>4 DEF Plain
<1>7. aes.key = said.key
  BY DEF Base, KeyTold
<1>8. /\ aes'.data = said'.data /\ aes'.iv = said.iv /\ aes'.key = said.key
  BY <1>2, <1>4, <1>5, <1>7 DEF StreamsOn
<1>9. ClaimTold'
  BY <1>1, <1>2, <1>4, <1>6, ClaimKept DEF AeadMessage, StreamsOn, KeepsMessage
<1>10. StreamTold'
  BY <1>2, <1>4, <1>5, <1>6, <1>8 DEF StreamTold, StreamsOn
<1>11. OutTold' /\ OutputInOrder'
  BY <1>2, <1>4, <1>6, <1>8, NextOutput
<1>12. Told' /\ FinalTold' /\ TagOfMessage' /\ AnswerIsTrue'
  BY <1>1, <1>4, <1>6, <1>10 DEF Told, FinalTold, TagOfMessage, AnswerIsTrue
<1> QED BY <1>9, <1>11, <1>12 DEF AeadMessage

LEMMA StreamFinalMessage ==
  ASSUME Stood, Base, AeadMessage, mode = "gcm_stream", Final
  PROVE  AeadMessage'
<1>1. /\ Typed /\ Plain /\ StreamFinal /\ mode' = mode /\ said' = said
      /\ phase' = IF ~result'.ok THEN "failed" ELSE IF actx.enc THEN "final" ELSE "done"
      /\ said.aad = <<>> /\ said.data = <<>> => May("empty")
  BY DEF Final, Base
<1>2. ~(said.aad = <<>> /\ said.data = <<>>)
  BY <1>1, HabitsAre
<1>3. phase \in {"aad", "data"}
  BY <1>1, <1>2 DEF Plain, Base, Begun
<1>4. /\ aes.on /\ aes.iv = said.iv /\ aes.aad = said.aad /\ aes.data = said.data
      /\ aes.key = said.key
  BY <1>2, <1>3 DEF AeadMessage, Told, StreamTold, Base, KeyTold
<1>5. StreamTag = Due(said)
  BY <1>4 DEF StreamTag, Due
<1>6. /\ outs' = outs /\ actx'.enc = actx.enc
      /\ actx.enc => actx'.buf = Due(said) /\ Answer(TRUE, TRUE)
      /\ ~actx.enc =>
           /\ actx'.buf = actx.buf
           /\ \/ Answer(FALSE, FALSE)
              \/ Answer(aes.on /\ Verifies(actx.buf, said, Due(said)), said.claim = "genuine")
  BY <1>1, <1>4, <1>5, StreamFinalDoes
<1>7. actx.enc \in BOOLEAN
  BY <1>1 DEF Typed, Contexts
<1>8. TagOfMessage' /\ AnswerIsTrue' /\ (actx.enc => result'.ok)
  <2>1. CASE actx.enc
    BY <2>1, <1>6, DueAnswer
  <2>2. CASE ~actx.enc /\ Answer(FALSE, FALSE)
    BY <2>2, DueAnswer
  <2>3. ASSUME ~actx.enc,
               Answer(aes.on /\ Verifies(actx.buf, said, Due(said)), said.claim = "genuine")
        PROVE  TagOfMessage' /\ AnswerIsTrue'
    <3> DEFINE good == aes.on /\ Verifies(actx.buf, said, Due(said))
               due == said.claim = "genuine"
    <3>1. Answer(good, due)
      BY <2>3
    <3>2. good \in BOOLEAN /\ due \in BOOLEAN
      BY DEF Verifies
    <3>3. good <=> due
      BY <1>1, <1>4, <2>3, GenuineVerifies DEF Verifies, AeadMessage
    <3> HIDE DEF good, due
    <3> QED BY <3>1, <3>2, <3>3, DueAnswer
  <2> QED BY <2>1, <2>2, <2>3, <1>6
<1>9. phase' \in {"failed", "final", "done"} /\ (phase' = "final" => actx.enc)
  BY <1>1
<1>10. ClaimTold'
  <2>1. CASE actx.enc
    BY <2>1, <1>1, <1>6, <1>9, ClaimGone, ClaimsApart DEF Due
  <2>2. CASE ~actx.enc
    BY <2>2, <1>1, <1>3, <1>6, <1>9, ClaimKept DEF AeadMessage
  <2> QED BY <2>1, <2>2
<1>11. Told' /\ FinalTold' /\ OutTold'
  BY <1>1, <1>6, <1>9 DEF Told, StreamTold, FinalTold, OutTold, Due
<1>12. OutputInOrder'
  BY <1>1, <1>6 DEF AeadMessage, OutputInOrder
<1> QED BY <1>8, <1>10, <1>11, <1>12 DEF AeadMessage

(* CCM has the AAD and, when nothing is encrypted yet, the nonce.           *)
LEMMA CcmHolds ==
  ASSUME Base, AeadMessage, mode = "ccm", Plain, phase # "data"
  PROVE  /\ ~actx.ivSet /\ actx.iv = said.iv /\ actx.aad = said.aad /\ aes.key = said.key
         /\ said.data = <<>> /\ outs = <<>> /\ ~actx.authErr /\ ~actx.tagAvail
         /\ \A d : CcmTag(d) = Tag(said.key, said.iv, said.aad, d)
<1>1. said.iv # NoAeadIv /\ phase \in {"setup", "aad"}
  BY DEF Plain, Given
<1>2. /\ said.data = <<>> /\ outs = <<>> /\ (phase = "setup" => said.aad = <<>>)
  BY <1>1 DEF Base, Begun
<1>3. aes.key = said.key
  BY DEF Base, KeyTold
<1>4. ~actx.ivSet /\ actx.iv = said.iv /\ actx.aad = said.aad /\ ~actx.authErr /\ ~actx.tagAvail
  BY <1>1, <1>2 DEF AeadMessage, Told, CcmTold
<1>5. CcmNonce = said.iv
  BY <1>4 DEF CcmNonce
<1>6. \A d : CcmTag(d) = Tag(said.key, said.iv, said.aad, d)
  BY <1>3, <1>4, <1>5 DEF CcmTag
<1> QED BY <1>2, <1>3, <1>4, <1>6

LEMMA CcmAadMessage ==
  ASSUME Base, AeadMessage, mode = "ccm", UpdateAad
  PROVE  AeadMessage'
<1>1. /\ Typed /\ phase \in {"setup", "aad"} /\ Given /\ Len(said.aad) < MaxPieces
      /\ said'.n = said.n /\ said'.key = said.key /\ said'.iv = said.iv
      /\ said'.data = said.data /\ said'.claim = said.claim
      /\ said'.aad = Append(said.aad, Piece(said.aad))
      /\ phase' \in {"aad", "failed"} /\ mode' = mode /\ outs' = outs
  BY AadGiven DEF Base
<1>2. /\ ~actx.ivSet /\ actx.iv = said.iv /\ actx.aad = said.aad
      /\ said.data = <<>> /\ outs = <<>> /\ ~actx.authErr /\ ~actx.tagAvail
  <2>1. Plain /\ phase # "data"
    BY <1>1 DEF Plain
  <2> QED BY <2>1, CcmHolds
<1>3. CachesAad /\ result' = result
  <2>1. CcmAad
    BY DEF UpdateAad
  <2> QED BY <2>1, <1>1, <1>2, CcmAadDoes
<1>4. ClaimTold'
  BY <1>1, <1>3, ClaimKept DEF AeadMessage, CachesAad
<1>5. CcmTold'
  BY <1>1, <1>2, <1>3 DEF CcmTold, CachesAad, KeepsMarks
<1>6. Told' /\ FinalTold' /\ OutTold' /\ OutputInOrder' /\ TagOfMessage' /\ AnswerIsTrue'
  BY <1>1, <1>2, <1>3, <1>5, NoOutput DEF AeadMessage, Told, FinalTold, TagOfMessage, AnswerIsTrue
<1> QED BY <1>4, <1>6 DEF AeadMessage

(* One update with all the data, with final after it or on its own. *)
LEMMA CcmDataMessage ==
  ASSUME Base, AeadMessage, mode = "ccm", UpdateData \/ CcmCipher
  PROVE  AeadMessage'
<1>1. /\ Typed /\ Plain /\ Len(said.data) < 1 /\ mode' = mode
      /\ said' = [said EXCEPT !.data = Append(@, Piece(said.data))]
  <2>1. Typed /\ More /\ mode' = mode
        /\ said' = [said EXCEPT !.data = Append(@, Piece(said.data))]
    BY DEF UpdateData, CcmCipher, Base
  <2> QED BY <2>1 DEF More
<1>2. phase # "data"
  BY <1>1 DEF AeadMessage, Told, CcmTold
<1>3. /\ ~actx.ivSet /\ actx.iv = said.iv /\ actx.aad = said.aad /\ aes.key = said.key
      /\ said.data = <<>> /\ outs = <<>> /\ ~actx.authErr /\ ~actx.tagAvail
      /\ \A d : CcmTag(d) = Tag(said.key, said.iv, said.aad, d)
  BY <1>1, <1>2, CcmHolds
<1>4. /\ said'.n = said.n /\ said'.key = said.key /\ said'.iv = said.iv
      /\ said'.aad = said.aad /\ said'.claim = said.claim
      /\ said'.data = Append(said.data, Piece(said.data))
  <2>1. Len(said.data) < MaxPieces
    BY <1>3, Constants
  <2> QED BY <2>1, <1>1, DataGiven
<1>5. said'.data = OnePiece /\ Len(said'.data) = 1
  BY <1>3, <1>4 DEF OnePiece
<1>6. PICK whole \in BOOLEAN :
        /\ CcmData(whole)
        /\ phase' = IF ~result'.ok THEN "failed"
                    ELSE IF ~whole THEN "data" ELSE IF actx.enc THEN "final" ELSE "done"
  <2>1. CASE UpdateData
    <3>1. CcmData(FALSE) /\ phase' = IF result'.ok THEN "data" ELSE "failed"
      BY <2>1 DEF UpdateData
    <3> QED BY <3>1
  <2>2. CASE CcmCipher
    <3>1. CcmData(TRUE)
          /\ phase' = IF ~result'.ok THEN "failed" ELSE IF actx.enc THEN "final" ELSE "done"
      BY <2>2 DEF CcmCipher
    <3> QED BY <3>1
  <2> QED BY <2>1, <2>2
<1> DEFINE good == CcmGood(OnePiece)
           due == said.claim = "genuine"
<1>7. /\ actx'.enc = actx.enc /\ actx'.aad = <<>> /\ ~actx'.aadSet
      /\ actx.enc =>
           /\ actx'.buf = CcmTag(OnePiece) /\ actx'.authErr = actx.authErr
           /\ Answer(whole => ~actx.authErr, TRUE)
      /\ ~actx.enc =>
           /\ actx'.buf = actx.buf /\ ~actx'.tagAvail
           /\ actx'.authErr <=> actx.authErr \/ ~good
           /\ Answer(good /\ (whole => ~actx.authErr), due)
      /\ good =>
           outs' = Append(outs, [iv |-> CcmTag(OnePiece).iv, key |-> aes.key, at |-> 1])
      /\ ~good => outs' = outs
  BY <1>1, <1>3, <1>6, CcmDataDoes
<1>8. CcmTag(OnePiece) = Due(said') /\ CcmTag(OnePiece).iv = said.iv
  BY <1>3, <1>4, <1>5 DEF Due, Tag
<1>9. good \in BOOLEAN /\ due \in BOOLEAN /\ (actx.enc => good) /\ actx.enc \in BOOLEAN
  BY <1>1 DEF CcmGood, Verifies, Typed, Contexts
<1>10. ~actx.enc => (good <=> due)
  <2>1. [said EXCEPT !.data = OnePiece] = said'
    BY <1>1, <1>3, <1>5 DEF Typed, Messages, OnePiece
  <2>2. ~actx.enc => (good <=> Verifies(actx.buf, said', Due(said')))
    BY <2>1, <1>8 DEF CcmGood
  <2> QED BY <2>2, <1>1, <1>4, GenuineVerifies DEF Verifies, AeadMessage
<1> HIDE DEF good, due
<1>11. TagOfMessage' /\ AnswerIsTrue' /\ (result'.ok <=> good)
  <2>1. CASE actx.enc
    <3>1. (whole => ~actx.authErr) = TRUE
      BY <1>3
    <3> QED BY <3>1, <2>1, <1>7, <1>9, DueAnswer
  <2>2. CASE ~actx.enc
    <3>1. (good /\ (whole => ~actx.authErr)) = good
      BY <1>3, <1>9
    <3> QED BY <3>1, <2>2, <1>7, <1>9, <1>10, DueAnswer
  <2> QED BY <2>1, <2>2, <1>9
<1>12. /\ ~good => phase' = "failed"
       /\ good => phase' = IF ~whole THEN "data" ELSE IF actx.enc THEN "final" ELSE "done"
  BY <1>6, <1>9, <1>11
<1>13. ClaimTold'
  <2>1. CASE actx.enc
    BY <2>1, <1>1, <1>7, <1>8, <1>9, <1>12, ClaimGone, ClaimsApart DEF Due
  <2>2. CASE ~actx.enc
    BY <2>2, <1>1, <1>4, <1>7, <1>9, <1>12, ClaimKept DEF AeadMessage, Plain
  <2> QED BY <2>1, <2>2, <1>9
<1>14. CcmTold'
  BY <1>3, <1>4, <1>5, <1>7, <1>8, <1>9, <1>10, <1>12 DEF CcmTold, due
<1>15. FinalTold'
  BY <1>7, <1>8, <1>9, <1>12 DEF FinalTold
<1>16. OutTold' /\ OutputInOrder'
  <2>1. CASE good
    <3>1. outs' = <<[iv |-> said.iv, key |-> said.key, at |-> 1]>>
      BY <2>1, <1>3, <1>7, <1>8
    <3> QED BY <3>1, <1>4, <1>5 DEF OutTold, OutputInOrder
  <2>2. CASE ~good
    BY <2>2, <1>3, <1>7, <1>12 DEF OutTold, OutputInOrder
  <2> QED BY <2>1, <2>2
<1> QED BY <1>1, <1>11, <1>13, <1>14, <1>15, <1>16 DEF AeadMessage, Told

LEMMA CcmFinalMessage ==
  ASSUME Stood, Base, AeadMessage, mode = "ccm", Final
  PROVE  AeadMessage'
<1>1. /\ Typed /\ Plain /\ CcmFinal /\ mode' = mode /\ said' = said
      /\ phase' = IF ~result'.ok THEN "failed" ELSE IF actx.enc THEN "final" ELSE "done"
      /\ said.aad = <<>> /\ said.data = <<>> => May("empty")
  BY DEF Final, Base
<1>2. ~(said.aad = <<>> /\ said.data = <<>>)
  BY <1>1, HabitsAre
<1>3. phase \in {"aad", "data"} /\ ~actx.authErr /\ actx.enc \in BOOLEAN
  BY <1>1, <1>2 DEF Plain, Base, Begun, AeadMessage, Told, CcmTold, Typed, Contexts
<1>4. actx'.enc = actx.enc /\ outs' = outs
  BY <1>1, CcmFinalDoes
<1>5. CASE phase = "data"
  <2>1. /\ ~actx.aadSet /\ actx.aad = <<>> /\ (actx.enc => actx.buf = Due(said))
        /\ ~actx.enc => said.claim = "genuine"
    BY <1>5 DEF AeadMessage, Told, CcmTold
  <2>2. /\ actx'.buf = actx.buf /\ actx'.aad = actx.aad /\ ~actx'.aadSet /\ ~actx'.authErr
        /\ Answer(TRUE, actx.enc \/ said.claim = "genuine")
        /\ actx'.tagAvail = actx.tagAvail
    BY <2>1, <1>1, <1>3, CcmFinalDoes
  <2>3. (actx.enc \/ said.claim = "genuine") = TRUE
    BY <2>1
  <2>4. TagOfMessage' /\ AnswerIsTrue' /\ result'.ok
    BY <2>2, <2>3, DueAnswer
  <2>5. phase' = IF actx.enc THEN "final" ELSE "done"
    BY <2>4, <1>1
  <2>6. ClaimTold'
    BY <2>2, <2>5, <1>1, <1>3, <1>4, <1>5, ClaimKept DEF AeadMessage
  <2>7. ~actx.enc => ~actx.tagAvail
    BY <1>5 DEF AeadMessage, Told, CcmTold
  <2>8. CcmTold' /\ FinalTold' /\ OutTold'
    BY <2>1, <2>2, <2>5, <2>7, <1>1, <1>3, <1>4 DEF CcmTold, FinalTold, OutTold
  <2>9. OutputInOrder'
    BY <1>1, <1>4 DEF AeadMessage, OutputInOrder
  <2> QED BY <2>4, <2>6, <2>8, <2>9, <1>1 DEF AeadMessage, Told
<1>6. CASE phase = "aad"
  <2>1. /\ said.data = <<>> /\ ~actx.tagAvail
        /\ CcmTag(<<>>) = Due(said)
    BY <1>1, <1>6, CcmHolds DEF Due
  <2>2. actx.aadSet
    BY <1>6 DEF AeadMessage, Told, CcmTold
  <2> DEFINE good == CcmGood(<<>>)
             due == said.claim = "genuine"
  <2>3. /\ actx'.aad = <<>> /\ ~actx'.aadSet /\ actx'.tagAvail = actx.tagAvail
        /\ actx.enc => actx'.buf = CcmTag(<<>>) /\ ~actx'.authErr /\ Answer(TRUE, TRUE)
        /\ ~actx.enc =>
             /\ actx'.buf = actx.buf /\ (actx'.authErr <=> ~good) /\ Answer(good, due)
    BY <2>2, <1>1, <1>3, CcmFinalDoes
  <2>4. good \in BOOLEAN /\ due \in BOOLEAN
    BY DEF CcmGood, Verifies
  <2>5. ~actx.enc => (good <=> due)
    <3>1. [said EXCEPT !.data = <<>>] = said
      BY <2>1, <1>1 DEF Typed, Messages
    <3>2. ~actx.enc => (good <=> Verifies(actx.buf, said, Due(said)))
      BY <3>1, <2>1, <1>3 DEF CcmGood
    <3> QED BY <3>2, <1>1, GenuineVerifies DEF Verifies, AeadMessage
  <2> HIDE DEF good, due
  <2>6. CASE actx.enc
    <3>1. TagOfMessage' /\ AnswerIsTrue' /\ result'.ok
      BY <2>3, <2>6, DueAnswer
    <3>2. phase' = "final" /\ actx'.buf = Due(said)
      BY <3>1, <2>1, <2>3, <2>6, <1>1
    <3>3. ClaimTold'
      BY <3>2, <1>1, ClaimGone, ClaimsApart DEF Due
    <3>4. CcmTold' /\ FinalTold' /\ OutTold'
      BY <3>2, <2>1, <2>3, <2>6, <1>1, <1>4 DEF CcmTold, FinalTold, OutTold, Due
    <3>5. OutputInOrder'
      BY <1>1, <1>4 DEF AeadMessage, OutputInOrder
    <3> QED BY <3>1, <3>3, <3>4, <3>5, <1>1 DEF AeadMessage, Told
  <2>7. CASE ~actx.enc
    <3>1. TagOfMessage' /\ AnswerIsTrue' /\ (result'.ok <=> good)
      BY <2>3, <2>4, <2>5, <2>7, DueAnswer
    <3>2. (good => phase' = "done") /\ (~good => phase' = "failed")
      BY <3>1, <2>4, <2>7, <1>1
    <3>3. phase' \in {"done", "failed"}
      BY <3>2
    <3>4. ClaimTold'
      BY <3>3, <2>3, <2>7, <1>1, <1>4, <1>6, ClaimKept DEF AeadMessage
    <3>5. CcmTold' /\ FinalTold' /\ OutTold'
      BY <3>2, <3>3, <2>1, <2>3, <2>7 DEF CcmTold, FinalTold, OutTold
    <3>6. OutputInOrder'
      BY <1>1, <1>4 DEF AeadMessage, OutputInOrder
    <3> QED BY <3>1, <3>4, <3>5, <3>6, <1>1 DEF AeadMessage, Told
  <2> QED BY <2>6, <2>7
<1> QED BY <1>3, <1>5, <1>6

LEMMA InitMessage ==
  ASSUME AeadInit
  PROVE  AeadMessage
<1>1. /\ phase = "setup" /\ outs = <<>>
      /\ said = [n |-> 1, key |-> NoKey, iv |-> NoAeadIv, fixed |-> Zeros, aad |-> <<>>,
                 data |-> <<>>, claim |-> "none", use |-> "plain"]
      /\ result = [ok |-> TRUE, due |-> TRUE, got |-> Zeros, tag |-> Zeros]
  BY DEF AeadInit
<1>2. /\ actx.buf = Zeros /\ actx.aad = <<>> /\ actx.in = <<>> /\ ~actx.aadSet
      /\ ~actx.tagAvail /\ ~actx.authErr
  BY DEF AeadInit
<1>3. said.iv = NoAeadIv /\ said.data = <<>> /\ said.claim = "none"
  BY <1>1
<1>4. \A m \in 1 .. MaxMessages + 1, g \in BOOLEAN : actx.buf # Claim(m, g)
  BY <1>2, ClaimsApart
<1>5. ClaimTold
  BY <1>3, <1>4 DEF ClaimTold
<1>6. Told
  BY <1>1, <1>2, <1>3 DEF Told, GcmTold, StreamTold, CcmTold
<1>7. FinalTold /\ OutTold /\ OutputInOrder /\ TagOfMessage /\ AnswerIsTrue
  BY <1>1, <1>3 DEF FinalTold, OutTold, OutputInOrder, TagOfMessage, AnswerIsTrue
<1> QED BY <1>5, <1>6, <1>7 DEF AeadMessage

LEMMA UpdateMessage ==
  ASSUME Stood, Base, AeadMessage, UpdateAad \/ UpdateData \/ CcmCipher \/ Final
  PROVE  AeadMessage'
<1>1. mode \in {"gcm", "gcm_stream", "ccm"}
  BY Constants DEF Base, Typed
<1>2. CASE mode = "gcm"
  <2>1. ~CcmCipher
    BY <1>2 DEF CcmCipher
  <2> QED BY <2>1, <1>2, GcmAadMessage, GcmDataMessage, GcmFinalMessage
<1>3. CASE mode = "gcm_stream"
  <2>1. ~CcmCipher
    BY <1>3 DEF CcmCipher
  <2> QED BY <2>1, <1>3, StreamAadMessage, StreamDataMessage, StreamFinalMessage
<1>4. CASE mode = "ccm"
  BY <1>4, CcmAadMessage, CcmDataMessage, CcmFinalMessage
<1> QED BY <1>1, <1>2, <1>3, <1>4

LEMMA NextMessageKept ==
  ASSUME Stood, Base, AeadMessage, [AeadNext]_aeadVars
  PROVE  AeadMessage'
<1>1. CASE UNCHANGED aeadVars
  BY <1>1 DEF aeadVars, AeadMessage, ClaimTold, ClaimIs, Told, GcmTold, StreamTold, CcmTold,
    MessageIv, Due, FinalTold, OutTold, OutputInOrder, TagOfMessage, AnswerIsTrue
<1>2. ASSUME NEW e \in BOOLEAN, NEW k \in Key \cup {NoKey}, NEW f \in Fixed,
             NEW i \in 0 .. MaxIv - 1, InitCall(e, k, <<f, i>>)
      PROVE  AeadMessage'
  <2>1. <<f, i>> \in IV \cup {NoAeadIv}
    BY DEF IV
  <2> QED BY <1>2, <2>1, InitCallMessage
<1>3. ASSUME NEW e \in BOOLEAN, NEW k \in Key, InitCall(e, k, NoAeadIv)
      PROVE  AeadMessage'
  BY <1>3, InitCallMessage
<1>4. CASE SetTagLen
  BY <1>4, SetTagLenMessage
<1>5. ASSUME NEW genuine \in BOOLEAN, SetTag(genuine)
      PROVE  AeadMessage'
  BY <1>5, SetTagMessage
<1>6. ASSUME NEW f \in Fixed, NEW i \in 0 .. MaxIv - 1, RestoreIv(<<f, i>>)
      PROVE  AeadMessage'
  <2>1. <<f, i>> \in IV
    BY DEF IV
  <2>2. /\ phase = "setup" /\ phase' = "setup" /\ mode' = mode /\ outs' = outs
        /\ actx'.enc = actx.enc /\ KeepsMessage(actx, actx') /\ KeepsMarks(actx, actx')
        /\ said'.n = said.n /\ said'.iv = NoAeadIv /\ said'.data = said.data
        /\ said'.claim = said.claim /\ result' = result
    BY <1>6, <2>1, RestoreIvDoes DEF Base
  <2> QED BY <2>2, NoIvMessage
<1>7. ASSUME NEW f \in Fixed, NEW i \in 0 .. MaxIv - 1, SetFixed(f, i)
      PROVE  AeadMessage'
  <2>1. /\ phase = "setup" /\ phase' = "setup" /\ mode' = mode /\ outs' = outs
        /\ actx'.enc = actx.enc /\ KeepsMessage(actx, actx') /\ KeepsMarks(actx, actx')
        /\ said'.n = said.n /\ said'.iv = NoAeadIv /\ said'.data = said.data
        /\ said'.claim = said.claim /\ result' = result
    BY <1>7, SetFixedDoes DEF Base
  <2> QED BY <2>1, NoIvMessage
<1>8. ASSUME NEW i \in 0 .. MaxIv - 1, SetIvInv(i)
      PROVE  AeadMessage'
  BY <1>8, SetIvInvMessage
<1>9. CASE IvGen \/ GetTag
  BY <1>9, IvGenMessage, GetTagMessage
<1>10. CASE UpdateAad \/ UpdateData \/ CcmCipher \/ Final
  BY <1>10, UpdateMessage
<1>11. CASE SetTlsAad
  BY <1>11, SetTlsAadMessage
<1>12. CASE GcmSeal \/ CcmSeal
  BY <1>12, SealOpenMessage
<1>13. ASSUME NEW i \in 0 .. MaxIv - 1, NEW genuine \in BOOLEAN,
              GcmOpen(i, genuine) \/ CcmOpen(i, genuine)
       PROVE  AeadMessage'
  BY <1>13, SealOpenMessage
<1> QED
  BY <1>1, <1>2, <1>3, <1>4, <1>5, <1>6, <1>7, <1>8, <1>9, <1>10, <1>11, <1>12, <1>13
  DEF AeadNext

(* What the context and wolfCrypt hold is the message as the program has     *)
(* given it, in each build at each point of a message.                       *)
THEOREM MessageInvariance ==
  ASSUME Stood
  PROVE  AeadSpec => []AeadMessage
<1>1. AeadInit => AeadMessage
  BY InitMessage
<1>2. Base /\ Base' /\ AeadMessage /\ [AeadNext]_aeadVars => AeadMessage'
  BY NextMessageKept
<1> QED BY <1>1, <1>2, BaseInvariance, PTL DEF AeadSpec

(* All that comes out of a message is made with its key and its IV, each     *)
(* piece at its own place, and the tag the program fetches covers its key,   *)
(* its IV, all its AAD and its data, and nothing of the messages before.     *)
THEOREM SpecMessageWhole ==
  ASSUME Stood
  PROVE  AeadSpec => []MessageWhole
<1>1. AeadMessage => MessageWhole
  BY DEF AeadMessage, MessageWhole
<1> QED BY <1>1, MessageInvariance, PTL

(* A call answers 0 for a message or a record that is not genuine, or for    *)
(* which the program has given no tag, and for no other reason; no           *)
(* decryption of another ends with 1.                                        *)
THEOREM SpecAnswerIsTrue ==
  ASSUME Stood
  PROVE  AeadSpec => []AnswerIsTrue
<1>1. AeadMessage => AnswerIsTrue
  BY DEF AeadMessage
<1> QED BY <1>1, MessageInvariance, PTL

(* What a context keeps of a message is no longer than a message.           *)
Small == Len(actx.in) <= MaxPieces /\ Len(actx.aad) <= MaxPieces

LEMMA OneMoreFits ==
  ASSUME Typed, NEW s \in Pieces, Len(s) < MaxPieces
  PROVE  Len(Append(s, Piece(s))) <= MaxPieces
<1>1. Len(Append(s, Piece(s))) = Len(s) + 1 /\ Len(s) \in Nat
  BY PieceType DEF Pieces
<1> QED BY <1>1, Constants

LEMMA UpdateSmall ==
  ASSUME Stood, Base, AeadMessage, Small, UpdateAad \/ UpdateData \/ CcmCipher \/ Final
  PROVE  Small'
<1>1. /\ mode \in {"gcm", "gcm_stream", "ccm"} /\ Typed
      /\ actx \in Contexts /\ said.aad \in Pieces /\ said.data \in Pieces
  BY Constants DEF Base, Typed, Messages
<1>2. Len(<<>>) <= MaxPieces
  BY Constants
<1>3. CASE UpdateAad
  <2>1. Plain /\ phase # "data" /\ Len(said.aad) < MaxPieces
    BY <1>1, <1>3, AadGiven DEF Plain
  <2>2. CASE mode = "gcm"
    <3>1. CacheAad /\ actx.aad = said.aad
      BY <1>3, <2>1, <2>2, GcmHolds DEF UpdateAad
    <3>2. CachesAad
      BY <3>1, <2>1, <1>1, CacheAadDoes
    <3> QED BY <3>1, <3>2, <2>1, <1>1, OneMoreFits DEF CachesAad, Small
  <2>3. CASE mode = "gcm_stream"
    BY <1>1, <1>3, <2>1, <2>3, StreamAadDoes DEF UpdateAad, StreamsOn, KeepsMessage, Small
  <2>4. CASE mode = "ccm"
    <3>1. CcmAad /\ actx.aad = said.aad /\ ~actx.tagAvail
      BY <1>3, <2>1, <2>4, CcmHolds DEF UpdateAad
    <3>2. CachesAad
      BY <3>1, <2>1, <1>1, CcmAadDoes
    <3> QED BY <3>1, <3>2, <2>1, <1>1, OneMoreFits DEF CachesAad, Small
  <2> QED BY <2>2, <2>3, <2>4, <1>1
<1>4. CASE UpdateData \/ CcmCipher
  <2>1. Plain /\ Len(said.data) < IF mode = "ccm" THEN 1 ELSE MaxPieces
    BY <1>4 DEF UpdateData, CcmCipher, More
  <2>2. CASE mode = "gcm"
    <3>1. GcmData /\ actx.in = said.data
      BY <1>4, <2>1, <2>2, GcmHolds DEF UpdateData, CcmCipher
    <3>2. actx'.in = Append(actx.in, Piece(said.data)) /\ actx'.aad = actx.aad
      BY <3>1, <2>1, <2>2, <1>1, GcmDataDoes
    <3> QED BY <3>1, <3>2, <2>1, <2>2, <1>1, OneMoreFits DEF Small
  <2>3. CASE mode = "gcm_stream"
    <3>1. StreamData
      BY <1>4, <2>3 DEF UpdateData, CcmCipher
    <3> QED BY <3>1, <1>1, <2>1, <2>3, StreamDataDoes DEF StreamsOn, KeepsMessage, Small
  <2>4. CASE mode = "ccm"
    <3>1. CcmData(TRUE) \/ CcmData(FALSE)
      BY <1>4, <2>4 DEF UpdateData, CcmCipher
    <3>2. /\ actx'.in = actx.in
          /\ actx.tagAvail => actx' = actx
          /\ ~actx.tagAvail => actx'.aad = <<>>
      BY <3>1, <2>1, <2>4, <1>1, CcmDataDoes
    <3> QED BY <3>2, <1>2 DEF Small
  <2> QED BY <2>2, <2>3, <2>4, <1>1
<1>5. CASE Final
  <2>1. Plain
    BY <1>5 DEF Final
  <2>2. CASE mode = "gcm"
    <3>1. GcmFinal /\ ~actx.authErr
      BY <1>5, <2>1, <2>2, GcmHolds DEF Final
    <3>2. actx'.aad = <<>> /\ actx'.in = <<>>
      BY <3>1, <1>1, GcmFinalDoes
    <3> QED BY <3>2, <1>2 DEF Small
  <2>3. CASE mode = "gcm_stream"
    BY <1>1, <1>5, <2>3, StreamFinalDoes DEF Final, Small
  <2>4. CASE mode = "ccm"
    <3>1. CcmFinal
      BY <1>5, <2>4 DEF Final
    <3>2. /\ actx'.in = actx.in
          /\ actx.authErr => actx' = actx
          /\ ~actx.authErr /\ actx.aadSet => actx'.aad = <<>>
          /\ ~actx.authErr /\ ~actx.aadSet => actx'.aad = actx.aad
      BY <3>1, <1>1, CcmFinalDoes
    <3> QED BY <3>2, <1>2 DEF Small
  <2> QED BY <2>2, <2>3, <2>4, <1>1
<1> QED BY <1>3, <1>4, <1>5

LEMMA NextSmall ==
  ASSUME Stood, Base, AeadMessage, Small, [AeadNext]_aeadVars
  PROVE  Small'
<1>1. ASSUME actx'.in = actx.in, actx'.aad = actx.aad
      PROVE  Small'
  BY <1>1 DEF Small
<1>2. CASE UNCHANGED aeadVars
  BY <1>2 DEF aeadVars, Small
<1>3. ASSUME NEW e \in BOOLEAN, NEW k \in Key \cup {NoKey}, NEW v \in IV \cup {NoAeadIv},
             InitCall(e, k, v)
      PROVE  Small'
  BY <1>1, <1>3, InitCallDoes DEF Base, KeepsMessage
<1>4. CASE SetTagLen \/ IvGen \/ GetTag \/ SetTlsAad
  BY <1>1, <1>4, SetTagLenDoes, IvGenDoes, GetTagDoes, SetTlsAadDoes DEF Base, KeepsMessage
<1>5. ASSUME NEW genuine \in BOOLEAN, SetTag(genuine)
      PROVE  Small'
  BY <1>1, <1>5, SetTagDoes DEF Base
<1>6. ASSUME NEW v \in IV, RestoreIv(v)
      PROVE  Small'
  BY <1>1, <1>6, RestoreIvDoes DEF Base, KeepsMessage
<1>7. ASSUME NEW f \in Fixed, NEW i \in 0 .. MaxIv - 1, SetFixed(f, i) \/ SetIvInv(i)
      PROVE  Small'
  BY <1>1, <1>7, SetFixedDoes, SetIvInvDoes DEF Base, KeepsMessage
<1>8. ASSUME NEW i \in 0 .. MaxIv - 1, SetIvInv(i)
      PROVE  Small'
  BY <1>1, <1>8, SetIvInvDoes DEF Base, KeepsMessage
<1>9. CASE UpdateAad \/ UpdateData \/ CcmCipher \/ Final
  BY <1>9, UpdateSmall
<1>10. ASSUME \/ GcmSeal \/ CcmSeal
              \/ \E i \in 0 .. MaxIv - 1, genuine \in BOOLEAN :
                   GcmOpen(i, genuine) \/ CcmOpen(i, genuine)
       PROVE  Small'
  <2>1. phase = "record"
    BY <1>10 DEF GcmSeal, CcmSeal, GcmOpen, CcmOpen
  <2>2. said.n <= MaxMessages
    BY <2>1 DEF Base, Bounded
  <2>3. RecordEffect
    BY <2>2, <1>10, GcmSealDoes, CcmSealDoes, GcmOpenDoes, CcmOpenDoes DEF Base
  <2> QED BY <2>3, <1>1 DEF RecordEffect, KeepsMessage
<1>11. ASSUME NEW f \in Fixed, NEW i \in 0 .. MaxIv - 1
       PROVE  <<f, i>> \in IV
  BY DEF IV
<1>12. NoAeadIv \in IV \cup {NoAeadIv} /\ Key \subseteq Key \cup {NoKey}
       /\ IV \subseteq IV \cup {NoAeadIv}
  OBVIOUS
<1>13. CASE \E e \in BOOLEAN, k \in Key \cup {NoKey}, f \in Fixed, i \in 0 .. MaxIv - 1 :
              InitCall(e, k, <<f, i>>)
  BY <1>13, <1>3, <1>11, <1>12
<1>14. CASE \E e \in BOOLEAN, k \in Key : InitCall(e, k, NoAeadIv)
  BY <1>14, <1>3, <1>12
<1>15. CASE \E f \in Fixed, i \in 0 .. MaxIv - 1 : RestoreIv(<<f, i>>) \/ SetFixed(f, i)
  BY <1>15, <1>6, <1>7, <1>11
<1> QED
  BY <1>2, <1>4, <1>5, <1>8, <1>9, <1>10, <1>13, <1>14, <1>15 DEF AeadNext

(* The state keeps its type; in particular what the context caches of a      *)
(* message never grows past it, because each message starts from nothing     *)
(* (wp_aead_cache_aad, wp_aead_cache_in).                                    *)
THEOREM SpecAeadTypeOK ==
  ASSUME Stood
  PROVE  AeadSpec => []AeadTypeOK
<1>1. AeadInit => Small
  <2> SUFFICES ASSUME AeadInit PROVE Small
    OBVIOUS
  <2>1. actx.in = <<>> /\ actx.aad = <<>>
    BY DEF AeadInit
  <2> QED BY <2>1, Constants DEF Small
<1>2. Base /\ AeadMessage /\ Small /\ [AeadNext]_aeadVars => Small'
  BY NextSmall
<1>3. Base /\ Small => AeadTypeOK
  <2> SUFFICES ASSUME Base, Small PROVE AeadTypeOK
    OBVIOUS
  <2>1. Typed
    BY DEF Base
  <2>2. Bufs(actx.buf)
    BY <2>1 DEF Typed, Contexts, Buffers, Bufs
  <2>3. actx \in [enc : BOOLEAN, keySet : BOOLEAN, iv : IV, origIv : IV,
              ivState : {"uninitialised", "copied", "buffered", "finished"},
              ivGen : BOOLEAN, ivSet : BOOLEAN, tagSet : BOOLEAN, tls : BOOLEAN,
              buf : {actx.buf}, aad : Pieces, aadSet : BOOLEAN, in : Pieces,
              tagAvail : BOOLEAN, authErr : BOOLEAN]
    BY <2>1 DEF Typed, Contexts
  <2>4. said.n \in 1 .. MaxMessages + 1
    BY <2>1 DEF Typed, Messages
  <2> QED BY <2>1, <2>2, <2>3, <2>4 DEF AeadTypeOK, Typed, AesObjects, Small
<1> QED BY <1>1, <1>2, <1>3, BaseInvariance, MessageInvariance, PTL DEF AeadSpec

------------------------------------------------------------------------------

(* Induction: a set with 0 that has the next number with each has them all. *)
LEMMA AllNumbers ==
  ASSUME NEW S, 0 \in S, \A k \in Nat : k \in S => k + 1 \in S
  PROVE  \A k \in Nat : k \in S
<1> DEFINE R == {ss \in Nat \X Nat : ss[1] < ss[2]}
           T == Nat \ S
<1>1. IsWellFoundedOn(R, Nat)
  BY NatLessThanWellFounded DEF OpToRel
<1> HIDE DEF R
<1>2. SUFFICES ASSUME T # {} PROVE FALSE
  OBVIOUS
<1>3. T \subseteq Nat
  OBVIOUS
<1> HIDE DEF T
<1>4. PICK m \in T : \A y \in T : ~(<<y, m>> \in R)
  BY <1>1, <1>2, <1>3, WFMin
<1>5. m \in Nat /\ m # 0
  BY DEF T
<1>6. m - 1 \in Nat /\ m - 1 \notin T
  <2>1. m - 1 \in Nat /\ <<m - 1, m>> \in R
    BY <1>5 DEF R
  <2> QED BY <1>4, <2>1
<1>7. m - 1 + 1 \in S
  BY <1>5, <1>6 DEF T
<1> QED BY <1>5, <1>7 DEF T

(* The empty string, of names that are not set. *)
NoName == ""

(* Data as rows of units, whatever a unit is. *)
Row(s, n) == n \in Nat /\ s = [i \in 1 .. n |-> s[i]]

LEMMA RowIs ==
  ASSUME NEW s, NEW n, Row(s, n)
  PROVE  n \in Nat /\ Len(s) = n /\ s \in Seq({s[i] : i \in 1 .. n})
<1> DEFINE S == {s[i] : i \in 1 .. n}
<1>1. n \in Nat /\ s \in [1 .. n -> S]
  <2>1. \A i \in 1 .. n : s[i] \in S
    OBVIOUS
  <2> HIDE DEF S
  <2> QED BY <2>1 DEF Row
<1> HIDE DEF S
<1> QED BY <1>1

LEMMA RowsEqual ==
  ASSUME NEW s, NEW t, NEW n, Row(s, n), Row(t, n), \A i \in 1 .. n : s[i] = t[i]
  PROVE  s = t
<1>1. [i \in 1 .. n |-> s[i]] = [i \in 1 .. n |-> t[i]]
  OBVIOUS
<1> QED BY <1>1 DEF Row

(* Two rows, one after the other.                                            *)
Join(s, t) == s \o t
LEMMA Cat ==
  ASSUME NEW s, NEW m, Row(s, m), NEW t, NEW n, Row(t, n)
  PROVE  /\ Row(Join(s, t), m + n)
         /\ \A i \in 1 .. m : Join(s, t)[i] = s[i]
         /\ \A i \in 1 .. n : Join(s, t)[m + i] = t[i]
<1> DEFINE S == {s[i] : i \in 1 .. m} \cup {t[i] : i \in 1 .. n}
           w == s \o t
<1>1. m \in Nat /\ n \in Nat /\ Len(s) = m /\ Len(t) = n
  BY RowIs
<1>2. s \in Seq(S) /\ t \in Seq(S)
  <2>1. s \in Seq({s[i] : i \in 1 .. m}) /\ t \in Seq({t[i] : i \in 1 .. n})
    BY RowIs
  <2>2. {s[i] : i \in 1 .. m} \subseteq S /\ {t[i] : i \in 1 .. n} \subseteq S
    OBVIOUS
  <2> HIDE DEF S
  <2> QED BY <2>1, <2>2, SeqMonotonic
<1> HIDE DEF S
<1>3. /\ w \in Seq(S) /\ Len(w) = m + n
      /\ \A i \in 1 .. m + n : w[i] = IF i <= m THEN s[i] ELSE t[i - m]
  BY <1>1, <1>2, ConcatProperties
<1>4. Join(s, t) = w
  BY DEF Join
<1> HIDE DEF w
<1>5. Row(w, m + n)
  BY <1>1, <1>3, LenProperties DEF Row
<1>6. \A i \in 1 .. n : w[m + i] = t[i]
  <2> TAKE i \in 1 .. n
  <2>1. m + i \in 1 .. m + n /\ ~(m + i <= m) /\ (m + i) - m = i
    BY <1>1
  <2> QED BY <1>3, <2>1
<1> QED BY <1>1, <1>3, <1>4, <1>5, <1>6

(* A part of a row.                                                          *)
LEMMA SubRow ==
  ASSUME NEW s, NEW a \in Nat \ {0}, NEW b \in Int, a <= b + 1
  PROVE  /\ Row(SubSeq(s, a, b), (b - a) + 1)
         /\ \A i \in 1 .. (b - a) + 1 : SubSeq(s, a, b)[i] = s[(a + i) - 1]
<1> DEFINE S == {s[i] : i \in a .. b}
           t == SubSeq(s, a, b)
<1>1. \A i \in a .. b : s[i] \in S
  OBVIOUS
<1> HIDE DEF S
<1>2. /\ t \in Seq(S) /\ Len(t) = (IF a <= b THEN b - a + 1 ELSE 0)
      /\ \A i \in 1 .. b - a + 1 : t[i] = s[a + i - 1]
  BY <1>1, SubSeqProperties
<1> HIDE DEF t
<1>3. (b - a) + 1 \in Nat /\ Len(t) = (b - a) + 1
  BY <1>2
<1>4. Row(t, (b - a) + 1)
  BY <1>2, <1>3, LenProperties DEF Row
<1> QED BY <1>2, <1>4 DEF t

LEMMA CutFirst ==
  ASSUME NEW s, NEW l, NEW x, l \in Nat, x = SubSeq(s, 1, l)
  PROVE  Row(x, l) /\ \A i \in 1 .. l : x[i] = s[i]
<1> DEFINE S == {s[i] : i \in 1 .. l}
<1>1. \A i \in 1 .. l : s[i] \in S
  OBVIOUS
<1> HIDE DEF S
<1>2. /\ x \in Seq(S) /\ Len(x) = (IF 1 <= l THEN l - 1 + 1 ELSE 0)
      /\ \A i \in 1 .. l - 1 + 1 : x[i] = s[1 + i - 1]
  BY <1>1, SubSeqProperties
<1>3. Len(x) = l /\ l - 1 + 1 = l /\ \A i \in 1 .. l : 1 + i - 1 = i
  BY <1>2
<1>4. Row(x, l)
  BY <1>2, <1>3, LenProperties DEF Row
<1> QED BY <1>2, <1>3, <1>4

LEMMA NoRow == Row(<<>>, 0)
BY DEF Row

------------------------------------------------------------------------------
(* CTR and CFB.  Division by the block, rounding up.                         *)
LEMMA Quotient ==
  ASSUME NEW a \in Nat, NEW b \in Nat \ {0}
  PROVE  /\ a \div b \in Nat /\ b * (a \div b) <= a /\ a < b * (a \div b) + b
         /\ a % b \in 0 .. b - 1 /\ a = b * (a \div b) + (a % b)
OBVIOUS

LEMMA Multiples ==
  ASSUME NEW b \in Nat \ {0}, NEW p \in Int, NEW q \in Int, p < q
  PROVE  b * p \in Int /\ b * q \in Int /\ b * p + b <= b * q
<1> DEFINE d == q - (p + 1)
<1>1. d \in Nat /\ q = p + 1 + d
  OBVIOUS
<1> HIDE DEF d
<1>2. b * d \in Nat /\ b * q = b * p + b + b * d
  BY <1>1
<1> QED BY <1>2

LEMMA QuotientIs ==
  ASSUME NEW a \in Nat, NEW b \in Nat \ {0}, NEW q \in Int, b * q <= a, a < b * q + b
  PROVE  a \div b = q
<1> DEFINE d == a \div b
<1>1. d \in Nat /\ b * d <= a /\ a < b * d + b
  BY Quotient
<1> HIDE DEF d
<1>2. ~(d < q)
  <2> SUFFICES ASSUME d < q PROVE FALSE
    OBVIOUS
  <2>1. b * d \in Int /\ b * q \in Int /\ b * d + b <= b * q
    BY <1>1, Multiples
  <2> QED BY <1>1, <2>1
<1>3. ~(q < d)
  <2> SUFFICES ASSUME q < d PROVE FALSE
    OBVIOUS
  <2>1. b * d \in Int /\ b * q \in Int /\ b * q + b <= b * d
    BY <1>1, Multiples
  <2> QED BY <1>1, <2>1
<1> QED BY <1>1, <1>2, <1>3 DEF d

(* n blocks have been made, and left units of the last are unused.           *)
Made(n, left, p) == n \in Nat /\ left \in 0 .. Block - 1 /\ n * Block - left = p

LEMMA MadeFor ==
  ASSUME NEW p \in Nat
  PROVE  LET n == (p + Block - 1) \div Block IN Made(n, (n * Block) - p, p)
<1> DEFINE n == (p + Block - 1) \div Block
<1>1. Block \in Nat \ {0} /\ p + Block - 1 \in Nat
  BY StreamAssumption
<1>2. n \in Nat /\ Block * n <= p + Block - 1 /\ p + Block - 1 < Block * n + Block
  BY <1>1, Quotient
<1> HIDE DEF n
<1>3. n * Block = Block * n /\ n * Block \in Nat
  BY <1>1, <1>2
<1>4. (n * Block) - p \in 0 .. Block - 1 /\ n * Block - ((n * Block) - p) = p
  BY <1>1, <1>2, <1>3
<1> QED BY <1>2, <1>4 DEF Made, n

LEMMA MadeOnce ==
  ASSUME NEW p \in Nat, NEW n, NEW left, Made(n, left, p)
  PROVE  /\ (p + Block - 1) \div Block = n /\ n * Block \in Nat /\ Made(n, 0, n * Block)
<1>1. Block \in Nat \ {0} /\ p + Block - 1 \in Nat /\ n \in Nat /\ left \in 0 .. Block - 1
  BY StreamAssumption DEF Made
<1>2. n * Block = Block * n /\ Block * n \in Nat /\ n * Block - left = p
  BY <1>1 DEF Made
<1>3. Block * n <= p + Block - 1 /\ p + Block - 1 < Block * n + Block
  BY <1>1, <1>2
<1>4. (p + Block - 1) \div Block = n
  BY <1>1, <1>3, QuotientIs
<1>5. 0 \in 0 .. Block - 1 /\ n * Block - 0 = n * Block
  BY <1>1, <1>2
<1> QED BY <1>1, <1>2, <1>4, <1>5 DEF Made

(* Units p to p + n - 1 of the stream of a key and an IV, and an object that *)
(* stands at place p of it.                                                  *)
Units(k, name, p, n) == [i \in 1 .. n |-> <<k, name, p + i - 1>>]
StandsAt(o, k, name, p) ==
  /\ o \in [key : {k}, dir : {o.dir}, reg : {o.reg}, left : {o.left}]
  /\ o.reg \in [name : {name}, n : {o.reg.n}]
  /\ Made(o.reg.n, o.left, p)

(* A call of wolfCrypt gives the units that follow, and ends where they end. *)
LEMMA KeystreamIs ==
  ASSUME NEW o, NEW k, NEW name, NEW p \in Nat, NEW n \in Nat, StandsAt(o, k, name, p)
  PROVE  LET r == Keystream(o, n)
         IN /\ r = [out |-> Units(k, name, p, n), aes |-> r.aes]
            /\ StandsAt(r.aes, k, name, p + n)
<1> DEFINE start == (o.reg.n * Block) - o.left
           end == start + n
           blocks == (end + Block - 1) \div Block
           now == [o EXCEPT !.reg.n = blocks, !.left = (blocks * Block) - end]
           out == [i \in 1 .. n |-> KeyUnit(o.key, o.reg, start + i - 1)]
<1>1. Keystream(o, n) = [out |-> out, aes |-> now]
  BY DEF Keystream
<1>2. start = p /\ end = p + n /\ end \in Nat
  BY DEF StandsAt, Made
<1>3. Made(blocks, (blocks * Block) - end, end)
  BY <1>2, MadeFor
<1>4. out = Units(k, name, p, n)
  <2>1. o.key = k /\ o.reg.name = name
    BY DEF StandsAt
  <2> HIDE DEF start
  <2> QED BY <1>2, <2>1 DEF Units, KeyUnit
<1> HIDE DEF start, end, out, blocks
<1> DEFINE left == (blocks * Block) - end
<1> HIDE DEF left
<1>5. StandsAt(now, k, name, end)
  <2>1. now = [o EXCEPT !.reg.n = blocks, !.left = left]
    BY DEF left
  <2> HIDE DEF now
  <2>2. now.reg = [o.reg EXCEPT !.n = blocks] /\ now.left = left /\ now.dir = o.dir
    BY <2>1 DEF StandsAt
  <2>3. now \in [key : {k}, dir : {now.dir}, reg : {now.reg}, left : {now.left}]
    BY <2>1 DEF StandsAt
  <2>4. now.reg.n = blocks /\ now.reg \in [name : {name}, n : {now.reg.n}]
    BY <2>2 DEF StandsAt
  <2>5. Made(now.reg.n, now.left, end)
    BY <1>3, <2>2, <2>4 DEF left
  <2> QED BY <2>3, <2>4, <2>5 DEF StandsAt
<1> HIDE DEF now
<1> QED BY <1>1, <1>2, <1>4, <1>5

(* The units up to m with those that follow them are the units of the whole. *)
LEMMA UnitsFollow ==
  ASSUME NEW k, NEW name, NEW p, NEW m, NEW n, NEW q, NEW l,
         p \in Nat, m \in Nat, n \in Nat, q = p + m, l = m + n
  PROVE  Join(Units(k, name, p, m), Units(k, name, q, n)) = Units(k, name, p, l)
<1> DEFINE s == Units(k, name, p, m)
           t == Units(k, name, p + m, n)
           u == Units(k, name, p, m + n)
<1>1. Row(s, m) /\ Row(t, n) /\ Row(u, m + n)
  BY DEF Units, Row
<1>2. /\ \A i \in 1 .. m : s[i] = <<k, name, p + i - 1>>
      /\ \A i \in 1 .. n : t[i] = <<k, name, (p + m) + i - 1>>
      /\ \A i \in 1 .. m + n : u[i] = <<k, name, p + i - 1>>
  BY DEF Units
<1> HIDE DEF s, t, u
<1> DEFINE w == Join(s, t)
<1>3. /\ Row(w, m + n)
      /\ \A i \in 1 .. m : w[i] = s[i]
      /\ \A i \in 1 .. n : w[m + i] = t[i]
  BY <1>1, Cat
<1> HIDE DEF w
<1>4. ASSUME NEW i \in 1 .. m + n PROVE w[i] = u[i]
  <2>1. CASE i <= m
    BY <1>2, <1>3, <2>1
  <2>2. CASE m < i
    <3>1. i - m \in 1 .. n /\ m + (i - m) = i /\ (p + m) + (i - m) - 1 = p + i - 1
      BY <2>2
    <3> QED BY <1>2, <1>3, <3>1
  <2> QED BY <2>1, <2>2
<1>5. w = u
  BY <1>1, <1>3, <1>4, RowsEqual
<1> QED BY <1>5 DEF s, t, u, w

(* So do the calls of the chunks a long message is given in.                 *)
LEMMA ChunksAre ==
  ASSUME NEW o, NEW k, NEW name, NEW p \in Nat, NEW n \in Nat, StandsAt(o, k, name, p)
  PROVE  LET r == ByChunks(o, n)
         IN /\ r = [out |-> Units(k, name, p, n), aes |-> r.aes]
            /\ StandsAt(r.aes, k, name, p + n)
<1> DEFINE most == ChunkBlocks * Block
           rounds == (n + most - 1) \div most
           Some(q) == IF q * most < n THEN most ELSE n - ((q - 1) * most)
           first == [out |-> <<>>, aes |-> o]
           Step(q, x) == LET r == Keystream(x.aes, Some(q))
                         IN [out |-> x.out \o r.out, aes |-> r.aes]
           at[q \in 0 .. rounds] == IF q = 0 THEN first
             ELSE LET r == Keystream(at[q - 1].aes,
                                     IF q * most < n THEN most ELSE n - ((q - 1) * most))
                  IN [out |-> at[q - 1].out \o r.out, aes |-> r.aes]
<1>1. ByChunks(o, n) = at[rounds]
  BY DEF ByChunks
<1>2. most \in Nat \ {0}
  BY StreamAssumption
<1>3. /\ rounds \in Nat /\ n <= rounds * most /\ (n = 0 => rounds = 0)
      /\ \A q \in 1 .. rounds : (q - 1) * most \in Nat /\ (q - 1) * most < n
  <2> HIDE DEF most
  <2>1. n + most - 1 \in Nat
    BY <1>2
  <2>2. rounds \in Nat /\ most * rounds <= n + most - 1 /\ n + most - 1 < most * rounds + most
    BY <1>2, <2>1, Quotient
  <2> HIDE DEF rounds
  <2>3. most * rounds = rounds * most /\ most * rounds \in Nat
    BY <1>2, <2>2
  <2>4. n <= rounds * most
    BY <1>2, <2>2, <2>3
  <2>5. n = 0 => rounds = 0
    <3> SUFFICES ASSUME n = 0, 0 < rounds PROVE FALSE
      BY <2>2
    <3>1. most * 0 + most <= most * rounds
      BY <1>2, <2>2, Multiples
    <3> QED BY <1>2, <2>2, <3>1
  <2>6. ASSUME NEW q \in 1 .. rounds PROVE (q - 1) * most \in Nat /\ (q - 1) * most < n
    <3>1. q - 1 \in Nat /\ q - 1 < rounds
      BY <2>2
    <3>2. most * (q - 1) + most <= most * rounds /\ most * (q - 1) \in Nat
      BY <1>2, <2>2, <3>1, Multiples
    <3>3. (q - 1) * most = most * (q - 1)
      BY <1>2, <3>1
    <3> QED BY <1>2, <2>2, <3>2, <3>3
  <2> QED BY <2>2, <2>4, <2>5, <2>6
<1> HIDE DEF most, rounds
<1>4. at[0] = first /\ \A q \in 1 .. rounds : at[q] = Step(q, at[q - 1])
  <2> HIDE DEF Step, first
  <2> DEFINE Runs(g, m) == g = [q \in 0 .. m |-> IF q = 0 THEN first ELSE Step(q, g[q - 1])]
             D == {m \in Nat : \E g : Runs(g, m)}
  <2>1. 0 \in D
    <3>1. Runs([q \in 0 .. 0 |-> first], 0)
      OBVIOUS
    <3> QED BY <3>1
  <2>2. ASSUME NEW m \in Nat, m \in D PROVE m + 1 \in D
    <3>1. PICK g : Runs(g, m)
      BY <2>2
    <3> DEFINE h == [q \in 0 .. m + 1 |-> IF q = m + 1 THEN Step(m + 1, g[m]) ELSE g[q]]
    <3>2. \A q \in 0 .. m : h[q] = g[q]
      OBVIOUS
    <3>3. ASSUME NEW q \in 0 .. m + 1
          PROVE  h[q] = IF q = 0 THEN first ELSE Step(q, h[q - 1])
      <4>1. CASE q = m + 1
        <5>1. (m + 1) - 1 = m /\ m \in 0 .. m /\ m + 1 # 0
          OBVIOUS
        <5>2. h[m + 1] = Step(m + 1, g[m])
          OBVIOUS
        <5> HIDE DEF h
        <5> QED BY <3>2, <4>1, <5>1, <5>2
      <4>2. CASE q # m + 1
        <5>1. q \in 0 .. m /\ (q # 0 => q - 1 \in 0 .. m)
          BY <4>2
        <5>2. g[q] = IF q = 0 THEN first ELSE Step(q, g[q - 1])
          BY <3>1, <5>1
        <5> HIDE DEF h
        <5> QED BY <3>2, <5>1, <5>2
      <4> QED BY <4>1, <4>2
    <3>4. Runs(h, m + 1)
      <4>1. h = [q \in 0 .. m + 1 |-> h[q]]
        OBVIOUS
      <4> HIDE DEF h
      <4> QED BY <3>3, <4>1
    <3> HIDE DEF h, Runs
    <3> QED BY <3>4
  <2> HIDE DEF D
  <2>3. rounds \in D
    BY <1>3, <2>1, <2>2, AllNumbers
  <2>4. \E g : Runs(g, rounds)
    BY <2>3 DEF D
  <2>5. Runs(at, rounds)
    <3> USE DEF Step, first
    <3> QED BY <2>4, Zenon
  <2> HIDE DEF at
  <2> QED BY <1>3, <2>5
<1> HIDE DEF at
<1> DEFINE End(q) == IF q * most < n THEN q * most ELSE n
           Ready(q) == /\ at[q] = [out |-> Units(k, name, p, End(q)), aes |-> at[q].aes]
                      /\ StandsAt(at[q].aes, k, name, p + End(q))
           G == {q \in Nat : q <= rounds => Ready(q)}
<1>5. 0 \in G
  <2>1. 0 * most = 0 /\ End(0) = 0
    BY <1>2
  <2>2. Units(k, name, p, 0) = <<>>
    BY DEF Units
  <2> HIDE DEF End
  <2>3. Ready(0)
    BY <1>4, <2>1, <2>2
  <2> QED BY <2>3
<1>6. ASSUME NEW q \in Nat, q \in G PROVE q + 1 \in G
  <2> SUFFICES ASSUME q + 1 <= rounds PROVE Ready(q + 1)
    OBVIOUS
  <2> DEFINE some == Some(q + 1)
  <2>1. q * most \in Nat /\ q * most < n /\ End(q) = q * most
    <3>1. q + 1 \in 1 .. rounds /\ (q + 1) - 1 = q
      BY <1>3
    <3> QED BY <1>3, <3>1
  <2>2. some \in Nat /\ End(q + 1) = q * most + some
    <3>1. (q + 1) * most = q * most + most /\ (q + 1) - 1 = q
      BY <1>2
    <3> QED BY <1>2, <2>1, <3>1
  <2>3. Ready(q)
    BY <1>3, <1>6
  <2> HIDE DEF some, End
  <2> DEFINE r == Keystream(at[q].aes, some)
             mid == q * most
  <2> HIDE DEF mid
  <2>4. mid \in Nat /\ p + mid \in Nat /\ End(q) = mid /\ End(q + 1) = mid + some
    BY <2>1, <2>2 DEF mid
  <2>5. /\ r = [out |-> Units(k, name, p + mid, some), aes |-> r.aes]
        /\ StandsAt(r.aes, k, name, (p + mid) + some)
    BY <2>2, <2>3, <2>4, KeystreamIs
  <2>6. at[q + 1] = [out |-> at[q].out \o r.out, aes |-> r.aes]
    <3>1. q + 1 \in 1 .. rounds /\ (q + 1) - 1 = q
      BY <1>3
    <3>2. at[q + 1] = Step(q + 1, at[q])
      BY <1>4, <3>1
    <3> QED BY <3>2 DEF some
  <2> HIDE DEF r
  <2>7. at[q].out \o r.out = Units(k, name, p, mid + some)
    <3>1. at[q].out = Units(k, name, p, mid) /\ r.out = Units(k, name, p + mid, some)
      BY <2>3, <2>4, <2>5
    <3>2. Join(Units(k, name, p, mid), Units(k, name, p + mid, some))
          = Units(k, name, p, mid + some)
      <4> DEFINE e == p + mid
                 l == mid + some
      <4>1. mid \in Nat /\ some \in Nat /\ e = p + mid /\ l = mid + some
        BY <2>2, <2>4
      <4> HIDE DEF e, l
      <4>2. Join(Units(k, name, p, mid), Units(k, name, e, some)) = Units(k, name, p, l)
        BY <4>1, UnitsFollow
      <4> QED BY <4>2 DEF e, l
    <3>3. at[q].out \o r.out = Join(at[q].out, r.out)
      BY DEF Join
    <3> QED BY <3>1, <3>2, <3>3, Zenon
  <2>8. (p + mid) + some = p + (mid + some)
    BY <2>2, <2>4
  <2> QED BY <2>4, <2>5, <2>6, <2>7, <2>8
<1> HIDE DEF G
<1>7. rounds \in G
  BY <1>3, <1>5, <1>6, AllNumbers
<1>8. Ready(rounds) /\ End(rounds) = n
  BY <1>2, <1>3, <1>7 DEF G
<1> QED BY <1>1, <1>8

------------------------------------------------------------------------------
(* CTS.  Rows in blocks.                                                     *)
LEMMA BlockIs ==
  ASSUME NEW s, NEW i, i \in Nat \ {0}
  PROVE  /\ Row(BlockOf(s, i), Block) /\ (i - 1) * Block \in Nat
         /\ \A j \in 1 .. Block : BlockOf(s, i)[j] = s[((i - 1) * Block) + j]
<1> DEFINE a == (i - 1) * Block
           b == i * Block
<1>1. a \in Nat /\ b = a + Block /\ Block \in Nat \ {0}
  BY StreamAssumption
<1>2. BlockOf(s, i) = SubSeq(s, a + 1, b)
  BY DEF BlockOf
<1> HIDE DEF a, b
<1> DEFINE f == a + 1
<1>3. f \in Nat \ {0} /\ b \in Int /\ f <= b + 1 /\ (b - f) + 1 = Block
  BY <1>1
<1>4. /\ Row(SubSeq(s, f, b), (b - f) + 1)
      /\ \A j \in 1 .. (b - f) + 1 : SubSeq(s, f, b)[j] = s[(f + j) - 1]
  BY <1>3, SubRow
<1> DEFINE t == SubSeq(s, f, b)
<1>5. t = BlockOf(s, i)
  BY <1>2
<1> HIDE DEF t
<1>6. Row(t, Block) /\ \A j \in 1 .. Block : t[j] = s[(f + j) - 1]
  BY <1>3, <1>4 DEF t
<1>7. \A j \in 1 .. Block : (f + j) - 1 = a + j
  BY <1>1
<1>8. \A j \in 1 .. Block : t[j] = s[a + j]
  BY <1>6, <1>7
<1> QED BY <1>1, <1>5, <1>6, <1>8 DEF a

(* The place of a unit in its block.                                         *)
LEMMA PlaceInBlock ==
  ASSUME NEW m, NEW x, m \in Nat, x \in 1 .. m * Block
  PROVE  \E i \in 1 .. m, j \in 1 .. Block : x = ((i - 1) * Block) + j
<1> DEFINE q == (x - 1) \div Block
           r == (x - 1) % Block
<1>1. Block \in Nat \ {0} /\ x - 1 \in Nat /\ m * Block \in Nat /\ x <= m * Block
  BY StreamAssumption
<1>2. q \in Nat /\ r \in 0 .. Block - 1 /\ x - 1 = Block * q + r
  BY <1>1, Quotient
<1> HIDE DEF q, r
<1>3. q < m
  <2> SUFFICES ASSUME m <= q PROVE FALSE
    BY <1>2
  <2>1. m * Block <= Block * q
    <3>1. CASE m = q
      BY <1>1, <1>2, <3>1
    <3>2. CASE m < q
      <4>1. Block * m + Block <= Block * q
        BY <1>1, <1>2, <3>2, Multiples
      <4> QED BY <1>1, <1>2, <4>1
    <3> QED BY <1>2, <3>1, <3>2
  <2> QED BY <1>1, <1>2, <2>1
<1>4. q + 1 \in 1 .. m /\ r + 1 \in 1 .. Block /\ (q + 1) - 1 = q
  BY <1>1, <1>2, <1>3
<1>5. x = (((q + 1) - 1) * Block) + (r + 1)
  <2>1. q * Block = Block * q
    BY <1>1, <1>2
  <2> QED BY <1>1, <1>2, <1>4, <2>1
<1> QED BY <1>4, <1>5

LEMMA InRow ==
  ASSUME NEW m, NEW i, NEW j, m \in Nat, i \in 1 .. m, j \in 1 .. Block
  PROVE  ((i - 1) * Block) + j \in 1 .. m * Block
<1>1. Block \in Nat \ {0} /\ i - 1 < m /\ i - 1 \in Nat
  BY StreamAssumption
<1>2. Block * (i - 1) + Block <= Block * m /\ Block * (i - 1) \in Nat
  BY <1>1, Multiples
<1>3. (i - 1) * Block = Block * (i - 1) /\ m * Block = Block * m
  BY <1>1
<1> QED BY <1>1, <1>2, <1>3

(* Rows of the same blocks are the same, and blocks make up a row.           *)
LEMMA BlocksEqual ==
  ASSUME NEW s, NEW t, NEW m, m \in Nat, Row(s, m * Block), Row(t, m * Block),
         \A i \in 1 .. m : BlockOf(s, i) = BlockOf(t, i)
  PROVE  s = t
<1>1. ASSUME NEW x \in 1 .. m * Block PROVE s[x] = t[x]
  <2>1. PICK i \in 1 .. m, j \in 1 .. Block : x = ((i - 1) * Block) + j
    BY PlaceInBlock
  <2>2. BlockOf(s, i)[j] = s[((i - 1) * Block) + j] /\ BlockOf(t, i)[j] = t[((i - 1) * Block) + j]
    BY BlockIs
  <2> QED BY <2>1, <2>2
<1> QED BY <1>1, RowsEqual

LEMMA BlocksJoin ==
  ASSUME NEW s, NEW m, m \in Nat, Row(s, m * Block), NEW t, NEW n, Row(t, n)
  PROVE  /\ \A i \in 1 .. m : BlockOf(Join(s, t), i) = BlockOf(s, i)
         /\ n = Block => BlockOf(Join(s, t), m + 1) = t
<1> DEFINE w == Join(s, t)
           l == m * Block
<1> HIDE DEF w, l
<1>1. /\ \A x \in 1 .. l : w[x] = s[x]
      /\ \A x \in 1 .. n : w[l + x] = t[x]
  BY Cat DEF w, l
<1>2. ASSUME NEW i \in 1 .. m PROVE BlockOf(w, i) = BlockOf(s, i)
  <2>1. /\ Row(BlockOf(w, i), Block) /\ Row(BlockOf(s, i), Block)
        /\ \A j \in 1 .. Block : BlockOf(w, i)[j] = w[((i - 1) * Block) + j]
        /\ \A j \in 1 .. Block : BlockOf(s, i)[j] = s[((i - 1) * Block) + j]
    BY BlockIs
  <2>2. \A j \in 1 .. Block : ((i - 1) * Block) + j \in 1 .. l
    BY InRow DEF l
  <2>3. \A j \in 1 .. Block : BlockOf(w, i)[j] = BlockOf(s, i)[j]
    BY <1>1, <2>1, <2>2
  <2> QED BY <2>1, <2>3, RowsEqual
<1>3. ASSUME n = Block PROVE BlockOf(w, m + 1) = t
  <2> DEFINE i == m + 1
  <2>1. i \in Nat \ {0} /\ (i - 1) * Block = l
    BY DEF l
  <2> HIDE DEF i
  <2>2. /\ Row(BlockOf(w, i), Block)
        /\ \A j \in 1 .. Block : BlockOf(w, i)[j] = w[((i - 1) * Block) + j]
    BY <2>1, BlockIs
  <2>3. \A j \in 1 .. Block : BlockOf(w, i)[j] = t[j]
    BY <1>1, <1>3, <2>1, <2>2
  <2>4. BlockOf(w, i) = t
    BY <1>3, <2>2, <2>3, RowsEqual
  <2> QED BY <2>4 DEF i
<1> QED BY <1>2, <1>3 DEF w

(* Chains of blocks. *)
OneBlock(x) == Row(x, Block)
LEMMA XorIs ==
  ASSUME NEW x, NEW y
  PROVE  OneBlock(Xor(x, y)) /\ \A j \in 1 .. Block : Xor(x, y)[j] = XorUnit(x[j], y[j])
BY StreamAssumption DEF OneBlock, Row, Xor

(* What is added twice is gone.                                              *)
LEMMA XorTwice ==
  ASSUME NEW x, NEW y, OneBlock(x)
  PROVE  Xor(Xor(x, y), y) = x
<1> DEFINE z == Xor(Xor(x, y), y)
<1>1. ASSUME NEW a, NEW b PROVE XorUnit(XorUnit(a, b), b) = a
  BY DEF XorUnit
<1>2. OneBlock(z) /\ \A j \in 1 .. Block : z[j] = XorUnit(XorUnit(x[j], y[j]), y[j])
  BY XorIs
<1> HIDE DEF z
<1>3. \A j \in 1 .. Block : z[j] = x[j]
  BY <1>1, <1>2
<1>4. z = x
  BY <1>2, <1>3, RowsEqual DEF OneBlock
<1> QED BY <1>4 DEF z

(* What a key makes of a block, and what takes it back.                      *)
Ciphered(key, x) == Through("E", key, x)
LEMMA CipherIs ==
  ASSUME NEW k, NEW x
  PROVE  /\ OneBlock(Ciphered(k.key, x))
         /\ k.dir = "enc" => Encrypt(k, x) = Ciphered(k.key, x)
         /\ k.dir = "dec" => Decrypt(k, Ciphered(k.key, x)) = x
<1>1. OneBlock(Ciphered(k.key, x))
  BY StreamAssumption DEF OneBlock, Row, Ciphered, Through
<1>2. k.dir = "enc" => Encrypt(k, x) = Ciphered(k.key, x)
  BY DEF Encrypt, Ciphered
<1>3. ASSUME k.dir = "dec" PROVE Decrypt(k, Ciphered(k.key, x)) = x
  <2> DEFINE y == Ciphered(k.key, x)
  <2>1. 1 \in 1 .. Block
    BY StreamAssumption
  <2>2. y[1] = {<<"E", k.key, x, 1>>}
    BY <2>1 DEF Ciphered, Through
  <2>3. (CHOOSE a \in y[1] : TRUE) = <<"E", k.key, x, 1>>
    BY <2>2
  <2>4. Source(y) = x
    <3> DEFINE z == CHOOSE a \in y[1] : TRUE
    <3>1. Source(y) = z[3]
      BY Zenon DEF Source
    <3> HIDE DEF z, y
    <3>2. z = <<"E", k.key, x, 1>>
      BY <2>3 DEF z
    <3> QED BY <3>1, <3>2
  <2>5. y = MadeFrom(k.key, Source(y))
    BY <2>4 DEF MadeFrom, Ciphered
  <2>6. y[1] # {}
    BY <2>2
  <2> HIDE DEF y
  <2>7. Decrypt(k, y) = x
    BY <1>3, <2>4, <2>5, <2>6 DEF Decrypt
  <2> QED BY <2>7 DEF y
<1> QED BY <1>1, <1>2, <1>3

(* The blocks of CBC: each is the cipher of the block of s and the one before. *)
CbcChain(c, key, reg, s, m) ==
  /\ c = [i \in 0 .. m |-> c[i]] /\ c[0] = reg
  /\ \A i \in 1 .. m : c[i] = Ciphered(key, Xor(BlockOf(s, i), c[i - 1]))

(* CBC encryption gives the chain, by induction over its blocks.             *)
LEMMA CbcEncryptIs ==
  ASSUME NEW k, NEW reg, NEW m, NEW s, NEW l, NEW r, k.dir = "enc", m \in Nat, l = m * Block,
         Row(s, l), r = CbcEncrypt(k, reg, s)
  PROVE  /\ Row(r.out, l)
         /\ \E c : /\ CbcChain(c, k.key, reg, s, m) /\ r.reg = c[m]
                   /\ \A i \in 1 .. m : BlockOf(r.out, i) = c[i]
<1> DEFINE first == [out |-> <<>>, reg |-> reg]
           Step(i, x) == LET c == Encrypt(k, Xor(BlockOf(s, i), x.reg))
                         IN [out |-> x.out \o c, reg |-> c]
           n == Len(s) \div Block
           at[i \in 0 .. n] ==
             IF i = 0 THEN [out |-> <<>>, reg |-> reg]
             ELSE LET c == Encrypt(k, Xor(BlockOf(s, i), at[i - 1].reg))
                  IN [out |-> at[i - 1].out \o c, reg |-> c]
<1>1. CbcEncrypt(k, reg, s) = at[n]
  BY DEF CbcEncrypt
<1>2. n = m
  <2>1. Block \in Nat \ {0} /\ l \in Nat /\ l = Block * m
    BY StreamAssumption
  <2>2. Len(s) = l
    BY <2>1, RowIs
  <2> QED BY <2>1, <2>2, QuotientIs
<1> HIDE DEF n
<1>3. at[0] = first /\ \A i \in 1 .. n : at[i] = Step(i, at[i - 1])
  <2> HIDE DEF Step, first
  <2> DEFINE Runs(g, b) == g = [i \in 0 .. b |-> IF i = 0 THEN first ELSE Step(i, g[i - 1])]
             D == {b \in Nat : \E g : Runs(g, b)}
  <2>1. 0 \in D
    <3>1. Runs([i \in 0 .. 0 |-> first], 0)
      OBVIOUS
    <3> QED BY <3>1
  <2>2. ASSUME NEW b \in Nat, b \in D PROVE b + 1 \in D
    <3>1. PICK g : Runs(g, b)
      BY <2>2
    <3> DEFINE h == [i \in 0 .. b + 1 |-> IF i = b + 1 THEN Step(b + 1, g[b]) ELSE g[i]]
    <3>2. \A i \in 0 .. b : h[i] = g[i]
      OBVIOUS
    <3>3. ASSUME NEW i \in 0 .. b + 1
          PROVE  h[i] = IF i = 0 THEN first ELSE Step(i, h[i - 1])
      <4>1. CASE i = b + 1
        <5>1. (b + 1) - 1 = b /\ b \in 0 .. b /\ b + 1 # 0
          OBVIOUS
        <5>2. h[b + 1] = Step(b + 1, g[b])
          OBVIOUS
        <5> HIDE DEF h
        <5> QED BY <3>2, <4>1, <5>1, <5>2
      <4>2. CASE i # b + 1
        <5>1. i \in 0 .. b /\ (i # 0 => i - 1 \in 0 .. b)
          BY <4>2
        <5>2. g[i] = IF i = 0 THEN first ELSE Step(i, g[i - 1])
          BY <3>1, <5>1
        <5> HIDE DEF h
        <5> QED BY <3>2, <5>1, <5>2
      <4> QED BY <4>1, <4>2
    <3>4. Runs(h, b + 1)
      <4>1. h = [i \in 0 .. b + 1 |-> h[i]]
        OBVIOUS
      <4> HIDE DEF h
      <4> QED BY <3>3, <4>1
    <3> HIDE DEF h, Runs
    <3> QED BY <3>4
  <2> HIDE DEF D
  <2>3. n \in D
    BY <1>2, <2>1, <2>2, AllNumbers
  <2>4. \E g : Runs(g, n)
    BY <2>3 DEF D
  <2>5. Runs(at, n)
    <3> USE DEF Step, first
    <3> QED BY <2>4, Zenon
  <2> HIDE DEF at
  <2> QED BY <1>2, <2>5
<1> HIDE DEF at
<1> DEFINE c == [i \in 0 .. m |-> at[i].reg]
<1>4. ASSUME NEW i \in 1 .. m
      PROVE  c[i] = Ciphered(k.key, Xor(BlockOf(s, i), c[i - 1])) /\ OneBlock(c[i])
             /\ at[i].out = Join(at[i - 1].out, c[i])
  <2>1. i \in 0 .. m /\ i - 1 \in 0 .. m /\ at[i] = Step(i, at[i - 1])
    <3> HIDE DEF Step
    <3> QED BY <1>2, <1>3
  <2> DEFINE e == Encrypt(k, Xor(BlockOf(s, i), at[i - 1].reg))
  <2>2. at[i].reg = e /\ at[i].out = at[i - 1].out \o e
    <3> DEFINE o == at[i - 1].out \o e
    <3>1. at[i] = [out |-> o, reg |-> e]
      BY <2>1, Zenon
    <3> HIDE DEF o, e
    <3>2. at[i].reg = e /\ at[i].out = o
      BY <3>1
    <3> QED BY <3>2, Zenon DEF o
  <2>3. e = Ciphered(k.key, Xor(BlockOf(s, i), at[i - 1].reg)) /\ OneBlock(e)
    BY CipherIs
  <2> HIDE DEF e
  <2>4. c[i] = e /\ c[i - 1] = at[i - 1].reg
    BY <2>1, <2>2
  <2> HIDE DEF c
  <2> QED BY <2>2, <2>3, <2>4, Zenon DEF Join
<1>5. c[0] = reg /\ c = [i \in 0 .. m |-> c[i]]
  BY <1>3
<1> HIDE DEF c
<1>6. CbcChain(c, k.key, reg, s, m)
  BY <1>4, <1>5 DEF CbcChain
<1> DEFINE Ready(i) == /\ Row(at[i].out, i * Block)
                      /\ \A j \in 1 .. i : BlockOf(at[i].out, j) = c[j]
           G == {i \in Nat : i <= m => Ready(i)}
<1>7. 0 \in G
  <2>1. at[0].out = <<>> /\ 0 * Block = 0
    BY <1>3, StreamAssumption
  <2> QED BY <2>1, NoRow
<1>8. ASSUME NEW i \in Nat, i \in G PROVE i + 1 \in G
  <2> SUFFICES ASSUME i + 1 <= m PROVE Ready(i + 1)
    OBVIOUS
  <2>1. Row(at[i].out, i * Block) /\ \A j \in 1 .. i : BlockOf(at[i].out, j) = c[j]
    BY <1>8
  <2>2. i + 1 \in 1 .. m /\ (i + 1) - 1 = i
    OBVIOUS
  <2>3. Row(c[i + 1], Block) /\ at[i + 1].out = Join(at[i].out, c[i + 1])
    BY <1>4, <2>2 DEF OneBlock
  <2>4. Row(Join(at[i].out, c[i + 1]), i * Block + Block)
    BY <2>1, <2>3, Cat
  <2>5. i * Block + Block = (i + 1) * Block
    BY StreamAssumption
  <2>6. /\ \A j \in 1 .. i : BlockOf(Join(at[i].out, c[i + 1]), j) = c[j]
        /\ BlockOf(Join(at[i].out, c[i + 1]), i + 1) = c[i + 1]
    BY <2>1, <2>3, BlocksJoin
  <2>7. \A j \in 1 .. i + 1 : j \in 1 .. i \/ j = i + 1
    OBVIOUS
  <2>8. Row(at[i + 1].out, (i + 1) * Block)
    BY <2>3, <2>4, <2>5
  <2>9. \A j \in 1 .. i + 1 : BlockOf(at[i + 1].out, j) = c[j]
    BY <2>3, <2>6, <2>7
  <2> QED BY <2>8, <2>9
<1> HIDE DEF G
<1>9. m \in G
  BY <1>7, <1>8, AllNumbers
<1>10. Ready(m)
  BY <1>9 DEF G
<1>11. at[m].reg = c[m]
  BY DEF c
<1> QED BY <1>1, <1>2, <1>6, <1>10, <1>11

(* What CBC decryption gives: [out, reg], for m blocks, l units.             *)
Back(r, k, reg, s, m, l) ==
  /\ Row(r.out, l) /\ r.reg = IF m = 0 THEN reg ELSE BlockOf(s, m)
  /\ \A i \in 1 .. m : BlockOf(r.out, i) = Xor(Decrypt(k, BlockOf(s, i)),
                                              IF i = 1 THEN reg ELSE BlockOf(s, i - 1))
(* CBC decryption takes each block back and adds the one before.             *)
LEMMA CbcDecryptIs ==
  ASSUME NEW k, NEW reg, NEW m, NEW s, NEW l, NEW r, m \in Nat, l = m * Block, Row(s, l),
         r = CbcDecrypt(k, reg, s)
  PROVE  Back(r, k, reg, s, m, l)
<1> DEFINE first == [out |-> <<>>, reg |-> reg]
           Step(i, x) == [out |-> x.out \o Xor(Decrypt(k, BlockOf(s, i)), x.reg),
                          reg |-> BlockOf(s, i)]
           n == Len(s) \div Block
           at[i \in 0 .. n] ==
             IF i = 0 THEN [out |-> <<>>, reg |-> reg]
             ELSE [out |-> at[i - 1].out \o Xor(Decrypt(k, BlockOf(s, i)), at[i - 1].reg),
                   reg |-> BlockOf(s, i)]
<1>1. CbcDecrypt(k, reg, s) = at[n]
  BY DEF CbcDecrypt
<1>2. n = m
  <2>1. Block \in Nat \ {0} /\ l \in Nat /\ l = Block * m
    BY StreamAssumption
  <2>2. Len(s) = l
    BY <2>1, RowIs
  <2> QED BY <2>1, <2>2, QuotientIs
<1> HIDE DEF n
<1>3. at[0] = first /\ \A i \in 1 .. n : at[i] = Step(i, at[i - 1])
  <2> HIDE DEF Step, first
  <2> DEFINE Runs(g, b) == g = [i \in 0 .. b |-> IF i = 0 THEN first ELSE Step(i, g[i - 1])]
             D == {b \in Nat : \E g : Runs(g, b)}
  <2>1. 0 \in D
    <3>1. Runs([i \in 0 .. 0 |-> first], 0)
      OBVIOUS
    <3> QED BY <3>1
  <2>2. ASSUME NEW b \in Nat, b \in D PROVE b + 1 \in D
    <3>1. PICK g : Runs(g, b)
      BY <2>2
    <3> DEFINE h == [i \in 0 .. b + 1 |-> IF i = b + 1 THEN Step(b + 1, g[b]) ELSE g[i]]
    <3>2. \A i \in 0 .. b : h[i] = g[i]
      OBVIOUS
    <3>3. ASSUME NEW i \in 0 .. b + 1
          PROVE  h[i] = IF i = 0 THEN first ELSE Step(i, h[i - 1])
      <4>1. CASE i = b + 1
        <5>1. (b + 1) - 1 = b /\ b \in 0 .. b /\ b + 1 # 0
          OBVIOUS
        <5>2. h[b + 1] = Step(b + 1, g[b])
          OBVIOUS
        <5> HIDE DEF h
        <5> QED BY <3>2, <4>1, <5>1, <5>2
      <4>2. CASE i # b + 1
        <5>1. i \in 0 .. b /\ (i # 0 => i - 1 \in 0 .. b)
          BY <4>2
        <5>2. g[i] = IF i = 0 THEN first ELSE Step(i, g[i - 1])
          BY <3>1, <5>1
        <5> HIDE DEF h
        <5> QED BY <3>2, <5>1, <5>2
      <4> QED BY <4>1, <4>2
    <3>4. Runs(h, b + 1)
      <4>1. h = [i \in 0 .. b + 1 |-> h[i]]
        OBVIOUS
      <4> HIDE DEF h
      <4> QED BY <3>3, <4>1
    <3> HIDE DEF h, Runs
    <3> QED BY <3>4
  <2> HIDE DEF D
  <2>3. n \in D
    BY <1>2, <2>1, <2>2, AllNumbers
  <2>4. \E g : Runs(g, n)
    BY <2>3 DEF D
  <2>5. Runs(at, n)
    <3> USE DEF Step, first
    <3> QED BY <2>4, Zenon
  <2> HIDE DEF at
  <2> QED BY <1>2, <2>5
<1> HIDE DEF at
<1> DEFINE Before(i) == IF i = 0 THEN reg ELSE BlockOf(s, i)
           p(i) == Xor(Decrypt(k, BlockOf(s, i)), Before(i - 1))
<1>4. ASSUME NEW i \in 0 .. m PROVE at[i].reg = Before(i)
  <2>1. CASE i = 0
    BY <1>3, <2>1
  <2>2. CASE i # 0
    <3>1. i \in 1 .. n
      BY <1>2, <2>2
    <3>2. at[i] = Step(i, at[i - 1])
      <4> HIDE DEF Step
      <4> QED BY <1>3, <3>1
    <3> DEFINE o == at[i - 1].out \o Xor(Decrypt(k, BlockOf(s, i)), at[i - 1].reg)
    <3>3. at[i] = [out |-> o, reg |-> BlockOf(s, i)]
      BY <3>2, Zenon
    <3> HIDE DEF o
    <3> QED BY <2>2, <3>3
  <2> QED BY <2>1, <2>2
<1>5. ASSUME NEW i \in 1 .. m
      PROVE  OneBlock(p(i)) /\ at[i].out = Join(at[i - 1].out, p(i))
  <2>1. i - 1 \in 0 .. m /\ i \in 1 .. n
    BY <1>2
  <2>2. at[i] = Step(i, at[i - 1])
    <3> HIDE DEF Step
    <3> QED BY <1>3, <2>1
  <2>3. at[i - 1].reg = Before(i - 1)
    BY <1>4, <2>1
  <2> DEFINE e == Xor(Decrypt(k, BlockOf(s, i)), at[i - 1].reg)
             o == at[i - 1].out \o e
  <2>4. at[i] = [out |-> o, reg |-> BlockOf(s, i)]
    BY <2>2, Zenon
  <2>5. e = p(i)
    BY <2>3, Zenon
  <2> HIDE DEF o
  <2>6. at[i].out = o
    BY <2>4
  <2>7. OneBlock(e)
    BY XorIs
  <2> HIDE DEF e, p
  <2>8. at[i].out = at[i - 1].out \o e
    BY <2>6, Zenon DEF o
  <2> QED BY <2>5, <2>7, <2>8, Zenon DEF Join
<1> HIDE DEF p
<1> DEFINE Ready(i) == /\ Row(at[i].out, i * Block)
                      /\ \A j \in 1 .. i : BlockOf(at[i].out, j) = p(j)
           G == {i \in Nat : i <= m => Ready(i)}
<1>7. 0 \in G
  <2>1. at[0].out = <<>> /\ 0 * Block = 0
    BY <1>3, StreamAssumption
  <2> QED BY <2>1, NoRow
<1>8. ASSUME NEW i \in Nat, i \in G PROVE i + 1 \in G
  <2> SUFFICES ASSUME i + 1 <= m PROVE Ready(i + 1)
    OBVIOUS
  <2>1. Row(at[i].out, i * Block) /\ \A j \in 1 .. i : BlockOf(at[i].out, j) = p(j)
    BY <1>8
  <2>2. i + 1 \in 1 .. m /\ (i + 1) - 1 = i
    OBVIOUS
  <2>3. Row(p(i + 1), Block) /\ at[i + 1].out = Join(at[i].out, p(i + 1))
    BY <1>5, <2>2 DEF OneBlock
  <2>4. Row(Join(at[i].out, p(i + 1)), i * Block + Block)
    BY <2>1, <2>3, Cat
  <2>5. i * Block + Block = (i + 1) * Block
    BY StreamAssumption
  <2>6. /\ \A j \in 1 .. i : BlockOf(Join(at[i].out, p(i + 1)), j) = p(j)
        /\ BlockOf(Join(at[i].out, p(i + 1)), i + 1) = p(i + 1)
    BY <2>1, <2>3, BlocksJoin
  <2>7. \A j \in 1 .. i + 1 : j \in 1 .. i \/ j = i + 1
    OBVIOUS
  <2>8. Row(at[i + 1].out, (i + 1) * Block)
    BY <2>3, <2>4, <2>5
  <2>9. \A j \in 1 .. i + 1 : BlockOf(at[i + 1].out, j) = p(j)
    BY <2>3, <2>6, <2>7
  <2> QED BY <2>8, <2>9
<1> HIDE DEF G
<1>9. m \in G
  BY <1>7, <1>8, AllNumbers
<1>10. Ready(m)
  BY <1>9 DEF G
<1>11. at[m].reg = IF m = 0 THEN reg ELSE BlockOf(s, m)
  BY <1>4
<1>12. ASSUME NEW i \in 1 .. m
       PROVE  p(i) = Xor(Decrypt(k, BlockOf(s, i)), IF i = 1 THEN reg ELSE BlockOf(s, i - 1))
  <2>1. i - 1 = 0 <=> i = 1
    OBVIOUS
  <2> QED BY <2>1 DEF p
<1> HIDE DEF Before
<1> QED BY <1>1, <1>2, <1>10, <1>11, <1>12 DEF Back

(* A chain is one of its blocks.                                             *)
LEMMA ChainOnce ==
  ASSUME NEW key, NEW reg, NEW c, NEW s, NEW m, CbcChain(c, key, reg, s, m),
         NEW d, NEW t, NEW l, CbcChain(d, key, reg, t, l), l \in Nat, m \in Nat, l <= m,
         \A i \in 1 .. l : BlockOf(t, i) = BlockOf(s, i)
  PROVE  \A i \in 0 .. l : d[i] = c[i]
<1> DEFINE G == {i \in Nat : i <= l => d[i] = c[i]}
<1>1. 0 \in G
  BY DEF CbcChain
<1>2. ASSUME NEW i \in Nat, i \in G PROVE i + 1 \in G
  <2> SUFFICES ASSUME i + 1 <= l PROVE d[i + 1] = c[i + 1]
    OBVIOUS
  <2>1. i + 1 \in 1 .. l /\ i + 1 \in 1 .. m /\ (i + 1) - 1 = i /\ d[i] = c[i]
    BY <1>2
  <2>2. d[i + 1] = Ciphered(key, Xor(BlockOf(t, i + 1), d[i]))
    BY <2>1 DEF CbcChain
  <2>3. c[i + 1] = Ciphered(key, Xor(BlockOf(s, i + 1), c[i]))
    BY <2>1 DEF CbcChain
  <2> QED BY <2>1, <2>2, <2>3
<1> HIDE DEF G
<1>3. \A i \in Nat : i \in G
  BY <1>1, <1>2, AllNumbers
<1> QED BY <1>3 DEF G

LEMMA ChainWhole ==
  ASSUME NEW c, NEW key, NEW reg, NEW s, NEW m, CbcChain(c, key, reg, s, m)
  PROVE  \A i \in 1 .. m : OneBlock(c[i])
<1> TAKE i \in 1 .. m
<1> DEFINE k == [key |-> key]
<1>1. c[i] = Ciphered(k.key, Xor(BlockOf(s, i), c[i - 1]))
  BY DEF CbcChain
<1> HIDE DEF k
<1> QED BY <1>1, CipherIs

(* The blocks before the last two, and the units of the last.                *)
First(n) == Others(n) * Block
Part(n) == n - (First(n) + Block)

LEMMA Sizes ==
  ASSUME NEW n, n \in Nat, Block < n
  PROVE  /\ Others(n) \in Nat /\ (n + Block - 1) \div Block = Others(n) + 2
         /\ First(n) \in Nat /\ Part(n) \in 1 .. Block /\ n = First(n) + Block + Part(n)
         /\ (Others(n) + 2) * Block = First(n) + 2 * Block
         /\ (Others(n) + 1) * Block = First(n) + Block
         /\ Part(n) = IF n % Block = 0 THEN Block ELSE n % Block
<1> DEFINE m == (n + Block - 1) \div Block
           o == m - 2
           f == o * Block
<1>1. Block \in Nat \ {0} /\ n + Block - 1 \in Nat
  BY StreamAssumption
<1>2. m \in Nat /\ Block * m <= n + Block - 1 /\ n + Block - 1 < Block * m + Block
  BY <1>1, Quotient
<1>3. Others(n) = o /\ First(n) = f
  BY DEF Others, First
<1> HIDE DEF m
<1>4. 1 < m
  <2> SUFFICES ASSUME m <= 1 PROVE FALSE
    BY <1>2
  <2>1. m = 0 \/ m = 1
    BY <1>2
  <2> QED BY <1>1, <1>2, <2>1
<1>5. o \in Nat /\ o + 2 = m
  BY <1>2, <1>4
<1> HIDE DEF o
<1>6. /\ f \in Nat /\ (o + 2) * Block = f + 2 * Block /\ (o + 1) * Block = f + Block
      /\ Block * m = f + 2 * Block
  <2>1. f \in Nat /\ (o + 2) * Block = f + 2 * Block /\ (o + 1) * Block = f + Block
    BY <1>1, <1>5
  <2>2. Block * m = (o + 2) * Block
    BY <1>1, <1>5
  <2> QED BY <2>1, <2>2
<1> DEFINE p == n - (f + Block)
<1>7. p \in 1 .. Block /\ n = f + Block + p
  BY <1>1, <1>2, <1>6
<1>8. p = IF n % Block = 0 THEN Block ELSE n % Block
  <2> DEFINE q == n \div Block
             r == n % Block
  <2>1. q \in Nat /\ r \in 0 .. Block - 1 /\ n = Block * q + r
    BY <1>1, Quotient
  <2>2. q = IF p = Block THEN o + 2 ELSE o + 1
    <3>1. CASE p = Block
      <4>1. Block * (o + 2) = n /\ o + 2 \in Int
        <5>1. Block * (o + 2) = (o + 2) * Block
          BY <1>1, <1>5
        <5> QED BY <1>1, <1>5, <1>6, <1>7, <3>1, <5>1
      <4>2. Block * (o + 2) <= n /\ n < Block * (o + 2) + Block
        BY <1>1, <4>1
      <4> QED BY <1>1, <3>1, <4>1, <4>2, QuotientIs
    <3>2. CASE p # Block
      <4>1. Block * (o + 1) = f + Block /\ o + 1 \in Int
        <5>1. Block * (o + 1) = (o + 1) * Block
          BY <1>1, <1>5
        <5> QED BY <1>5, <1>6, <5>1
      <4>2. Block * (o + 1) <= n /\ n < Block * (o + 1) + Block
        BY <1>1, <1>6, <1>7, <3>2, <4>1
      <4> QED BY <1>1, <3>2, <4>1, <4>2, QuotientIs
    <3> QED BY <3>1, <3>2
  <2> HIDE DEF q, r
  <2>3. Block * q = IF p = Block THEN n ELSE f + Block
    <3>1. Block * (o + 2) = (o + 2) * Block /\ Block * (o + 1) = (o + 1) * Block
      BY <1>1, <1>5
    <3>2. CASE p = Block
      <4>1. Block * q = Block * (o + 2)
        BY <2>2, <3>2
      <4> QED BY <1>6, <1>7, <3>1, <3>2, <4>1
    <3>3. CASE p # Block
      <4>1. Block * q = Block * (o + 1)
        BY <2>2, <3>3
      <4> QED BY <1>6, <3>1, <3>3, <4>1
    <3> QED BY <3>2, <3>3
  <2>4. r = n - Block * q
    BY <1>1, <2>1
  <2>5. p = IF r = 0 THEN Block ELSE r
    BY <1>1, <1>6, <1>7, <2>3, <2>4
  <2> QED BY <2>5 DEF r
<1>9. Part(n) = p
  BY <1>3 DEF Part
<1> HIDE DEF f, p
<1> QED BY <1>3, <1>5, <1>6, <1>7, <1>8, <1>9 DEF m

(* The message, filled up with zeros to whole blocks.                        *)
Filled(n) == [i \in 1 .. (Others(n) + 2) * Block |-> IF i <= n THEN Message(n)[i] ELSE {}]
LEMMA FilledIs ==
  ASSUME NEW n, n \in Nat, Block < n
  PROVE  /\ Row(Message(n), n) /\ Row(Filled(n), (Others(n) + 2) * Block)
         /\ Message(n) \o [j \in 1 .. ((Others(n) + 2) * Block) - n |-> {}] = Filled(n)
         /\ \A i \in 1 .. n : Filled(n)[i] = Message(n)[i]
         /\ \A i \in 1 .. First(n) + 2 * Block : n < i => Filled(n)[i] = {}
<1> DEFINE l == (Others(n) + 2) * Block
           z == [j \in 1 .. l - n |-> {}]
           f == Filled(n)
           s == Message(n)
<1>1. l \in Nat /\ n <= l /\ l = First(n) + 2 * Block
  BY Sizes, StreamAssumption
<1>2. Row(s, n)
  BY DEF Row, Message
<1>3. f = [i \in 1 .. l |-> IF i <= n THEN s[i] ELSE {}]
  BY DEF Filled
<1> HIDE DEF l, f, s
<1>4. Row(f, l) /\ Row(z, l - n)
  BY <1>1, <1>3 DEF Row
<1>5. \A j \in 1 .. l - n : z[j] = {}
  OBVIOUS
<1> HIDE DEF z
<1> DEFINE w == Join(s, z)
<1>6. /\ Row(w, n + (l - n)) /\ \A i \in 1 .. n : w[i] = s[i]
      /\ \A i \in 1 .. l - n : w[n + i] = z[i]
  BY <1>2, <1>4, Cat
<1> HIDE DEF w
<1>7. Row(w, l)
  BY <1>1, <1>6
<1>8. ASSUME NEW i \in 1 .. l PROVE w[i] = f[i]
  <2>1. CASE i <= n
    BY <1>3, <1>6, <2>1
  <2>2. CASE n < i
    <3>1. i - n \in 1 .. l - n /\ n + (i - n) = i
      BY <1>1, <2>2
    <3>2. w[i] = {}
      BY <1>5, <1>6, <3>1
    <3> QED BY <1>3, <2>2, <3>2
  <2> QED BY <2>1, <2>2
<1>9. w = f
  BY <1>4, <1>7, <1>8, RowsEqual
<1>10. s \o z = f
  BY <1>9 DEF w, Join
<1>11. \A i \in 1 .. n : f[i] = s[i]
  BY <1>1, <1>3
<1>12. \A i \in 1 .. l : n < i => f[i] = {}
  BY <1>1, <1>3
<1> QED BY <1>1, <1>2, <1>4, <1>10, <1>11, <1>12 DEF l, z, f, s

(* Ciphertext with the last two blocks the other way round.                  *)
Stolen(out, c, n) ==
  /\ Row(out, n)
  /\ \A i \in 1 .. Others(n) : BlockOf(out, i) = c[i]
  /\ \A j \in 1 .. Block : out[First(n) + j] = c[Others(n) + 2][j]
  /\ \A j \in 1 .. Part(n) : out[(First(n) + Block) + j] = c[Others(n) + 1][j]

(* The chain put out that way, in whatever parts, is that one row.           *)
LEMMA StolenJoin ==
  ASSUME NEW n, n \in Nat, Block < n, NEW c, OneBlock(c[Others(n) + 2]),
         NEW x, Row(x, First(n)), \A i \in 1 .. Others(n) : BlockOf(x, i) = c[i],
         NEW z, Row(z, Part(n)), \A j \in 1 .. Part(n) : z[j] = c[Others(n) + 1][j]
  PROVE  Stolen(Join(Join(x, c[Others(n) + 2]), z), c, n)
<1> DEFINE o == Others(n)
           f == First(n)
           p == Part(n)
           y == c[o + 2]
           a == Join(x, y)
           b == Join(a, z)
<1>1. o \in Nat /\ f \in Nat /\ p \in 1 .. Block /\ n = (f + Block) + p /\ f = o * Block
  BY Sizes DEF First
<1>2. Block \in Nat \ {0}
  BY StreamAssumption
<1> HIDE DEF o, f, p
<1>3. Row(x, f) /\ Row(y, Block) /\ Row(z, p)
  BY DEF f, p, o, OneBlock
<1> HIDE DEF y
<1>4. /\ Row(a, f + Block) /\ \A i \in 1 .. f : a[i] = x[i]
      /\ \A i \in 1 .. Block : a[f + i] = y[i]
  BY <1>3, Cat
<1>5. \A i \in 1 .. o : BlockOf(a, i) = BlockOf(x, i)
  BY <1>1, <1>3, BlocksJoin
<1> HIDE DEF a
<1>6. /\ Row(b, (f + Block) + p) /\ \A i \in 1 .. f + Block : b[i] = a[i]
      /\ \A i \in 1 .. p : b[(f + Block) + i] = z[i]
  <2> DEFINE l == f + Block
  <2>1. Row(a, l)
    BY <1>4
  <2> HIDE DEF l
  <2>2. /\ Row(b, l + p) /\ \A i \in 1 .. l : b[i] = a[i] /\ \A j \in 1 .. p : b[l + j] = z[j]
    BY <1>3, <2>1, Cat
  <2>3. Row(b, l + p) /\ \A i \in 1 .. l : b[i] = a[i]
    BY <1>3, <2>1, Cat
  <2>4. \A i \in 1 .. p : b[l + i] = z[i]
    BY <1>3, <2>1, Cat
  <2> QED BY <2>3, <2>4 DEF l
<1>7. \A i \in 1 .. o : BlockOf(b, i) = BlockOf(a, i)
  <2>1. (o + 1) * Block = f + Block /\ o + 1 \in Nat
    BY <1>1, <1>2
  <2>2. Row(a, (o + 1) * Block)
    BY <1>4, <2>1
  <2> DEFINE q == o + 1
  <2>3. q \in Nat /\ Row(a, q * Block) /\ \A i \in 1 .. o : i \in 1 .. q
    BY <1>1, <2>1, <2>2
  <2> HIDE DEF q
  <2> QED BY <1>3, <2>3, BlocksJoin
<1> HIDE DEF b
<1>8. \A j \in 1 .. Block : b[f + j] = y[j]
  <2> TAKE j \in 1 .. Block
  <2>1. f + j \in 1 .. f + Block
    BY <1>1, <1>2
  <2> QED BY <1>4, <1>6, <2>1
<1>9. Row(b, n) /\ \A i \in 1 .. o : BlockOf(b, i) = c[i]
  <2>1. \A i \in 1 .. o : BlockOf(x, i) = c[i]
    BY DEF o
  <2> QED BY <1>1, <1>5, <1>6, <1>7, <2>1
<1>10. \A j \in 1 .. p : b[(f + Block) + j] = c[o + 1][j]
  <2>1. \A j \in 1 .. p : z[j] = c[o + 1][j]
    BY DEF p, o
  <2> QED BY <1>6, <2>1
<1>11. Stolen(b, c, n)
  BY <1>8, <1>9, <1>10 DEF Stolen, o, f, p, y
<1> QED BY <1>11 DEF b, a, y, o

LEMMA StolenOnce ==
  ASSUME NEW n, n \in Nat, Block < n, NEW c, NEW s, Stolen(s, c, n), NEW t, Stolen(t, c, n)
  PROVE  s = t
<1> DEFINE o == Others(n)
           f == First(n)
           p == Part(n)
<1>1. o \in Nat /\ f \in Nat /\ p \in 1 .. Block /\ n = (f + Block) + p /\ f = o * Block
  BY Sizes DEF First
<1>2. Block \in Nat \ {0}
  BY StreamAssumption
<1>3. /\ Row(s, n) /\ Row(t, n)
      /\ \A i \in 1 .. o : BlockOf(s, i) = BlockOf(t, i)
      /\ \A j \in 1 .. Block : s[f + j] = t[f + j]
      /\ \A j \in 1 .. p : s[(f + Block) + j] = t[(f + Block) + j]
  BY DEF Stolen
<1> HIDE DEF o, f, p
<1>4. ASSUME NEW x \in 1 .. n PROVE s[x] = t[x]
  <2>1. CASE x <= f
    <3>1. x \in 1 .. o * Block
      BY <1>1, <2>1
    <3>2. PICK i \in 1 .. o, j \in 1 .. Block : x = ((i - 1) * Block) + j
      BY <1>1, <3>1, PlaceInBlock
    <3>3. i \in Nat \ {0}
      BY <1>1
    <3>4. BlockOf(s, i)[j] = s[((i - 1) * Block) + j] /\ BlockOf(t, i)[j] = t[((i - 1) * Block) + j]
      BY <3>3, BlockIs
    <3> QED BY <1>3, <3>2, <3>4
  <2>2. CASE f < x /\ x <= f + Block
    <3>1. x - f \in 1 .. Block /\ f + (x - f) = x
      BY <1>1, <1>2, <2>2
    <3> QED BY <1>3, <3>1
  <2>3. CASE f + Block < x
    <3>1. x - (f + Block) \in 1 .. p /\ (f + Block) + (x - (f + Block)) = x
      BY <1>1, <1>2, <2>3
    <3> QED BY <1>3, <3>1
  <2> QED BY <1>1, <1>2, <2>1, <2>2, <2>3
<1> QED BY <1>3, <1>4, RowsEqual

(* The definition of CS3 gives that of the chain of the filled message.      *)
LEMMA Cs3Is ==
  ASSUME NEW n, n \in Nat, Block < n, NEW key, NEW iv
  PROVE  LET r == Cs3(key, iv, n)
         IN \E c : /\ CbcChain(c, key, iv, Filled(n), Others(n) + 2)
                   /\ r.reg = c[Others(n) + 2] /\ Stolen(r.out, c, n)
<1> DEFINE o == Others(n)
           f == First(n)
           p == Part(n)
           m == (n + Block - 1) \div Block
           k == [key |-> key, dir |-> "enc"]
           s == Message(n) \o [j \in 1 .. (m * Block) - n |-> {}]
           cbc == CbcEncrypt(k, iv, s)
<1>1. /\ o \in Nat /\ f \in Nat /\ p \in 1 .. Block /\ n = (f + Block) + p /\ f = o * Block
      /\ m = o + 2 /\ (o + 2) * Block = f + 2 * Block /\ (o + 1) * Block = f + Block
  BY Sizes DEF First
<1>2. Block \in Nat \ {0}
  BY StreamAssumption
<1>3. Cs3(key, iv, n) =
        [reg |-> cbc.reg,
         out |-> IF m = 1 THEN cbc.out
                 ELSE SubSeq(cbc.out, 1, (m - 2) * Block) \o BlockOf(cbc.out, m)
                        \o SubSeq(BlockOf(cbc.out, m - 1), 1, n - ((m - 1) * Block))]
  BY DEF Cs3
<1>4. s = Filled(n) /\ Row(Filled(n), m * Block)
  <2> HIDE DEF m
  <2>1. m = Others(n) + 2
    BY <1>1
  <2> QED BY <2>1, FilledIs
<1> DEFINE q == o + 2
<1>5. q \in Nat /\ Row(Filled(n), q * Block)
  BY <1>1, <1>4
<1> HIDE DEF m, q
<1>6. cbc = CbcEncrypt(k, iv, Filled(n))
  BY <1>4
<1>7. k.dir = "enc" /\ k.key = key
  OBVIOUS
<1> HIDE DEF k, s, cbc
<1>8. PICK c : /\ CbcChain(c, key, iv, Filled(n), q) /\ cbc.reg = c[q]
               /\ \A i \in 1 .. q : BlockOf(cbc.out, i) = c[i]
  <2> DEFINE g == Filled(n)
             l == q * Block
  <2>1. Row(g, l)
    BY <1>5
  <2> HIDE DEF g, l
  <2>2. l = q * Block /\ cbc = CbcEncrypt(k, iv, g)
    BY <1>6 DEF l, g
  <2>3. /\ \E c : /\ CbcChain(c, k.key, iv, g, q) /\ cbc.reg = c[q]
                  /\ \A i \in 1 .. q : BlockOf(cbc.out, i) = c[i]
    BY <1>5, <1>7, <2>1, <2>2, CbcEncryptIs
  <2>4. \E c : /\ CbcChain(c, key, iv, g, q) /\ cbc.reg = c[q]
              /\ \A i \in 1 .. q : BlockOf(cbc.out, i) = c[i]
    BY <1>7, <2>3, Zenon
  <2> QED BY <2>4 DEF g
<1>9. m = q /\ q = o + 2 /\ (m - 2) * Block = f /\ n - ((m - 1) * Block) = p /\ m # 1
  <2>1. m - 1 = o + 1 /\ m - 2 = o
    BY <1>1
  <2> QED BY <1>1, <1>2, <2>1 DEF q
<1> DEFINE x == SubSeq(cbc.out, 1, f)
           y == c[q]
           z == SubSeq(c[o + 1], 1, p)
<1>10. Cs3(key, iv, n) = [reg |-> c[q], out |-> (x \o y) \o z]
  <2>1. BlockOf(cbc.out, m) = y /\ BlockOf(cbc.out, m - 1) = c[o + 1]
    <3>1. m \in 1 .. q /\ m - 1 \in 1 .. q /\ m - 1 = o + 1
      BY <1>1, <1>9
    <3> QED BY <1>8, <1>9, <3>1
  <2>2. SubSeq(BlockOf(cbc.out, m - 1), 1, n - ((m - 1) * Block)) = z
    BY <1>9, <2>1, Zenon
  <2>3. SubSeq(cbc.out, 1, (m - 2) * Block) = x
    BY <1>9, Zenon
  <2> DEFINE w1 == SubSeq(BlockOf(cbc.out, m - 1), 1, n - ((m - 1) * Block))
             w2 == SubSeq(cbc.out, 1, (m - 2) * Block)
             w3 == BlockOf(cbc.out, m)
  <2>4. Cs3(key, iv, n) = [reg |-> cbc.reg, out |-> IF m = 1 THEN cbc.out ELSE w2 \o w3 \o w1]
    BY <1>3, Zenon
  <2>5. w1 = z /\ w2 = x /\ w3 = y
    BY <2>1, <2>2, <2>3
  <2> HIDE DEF w1, w2, w3, x, y, z
  <2>6. Cs3(key, iv, n) = [reg |-> cbc.reg, out |-> w2 \o w3 \o w1]
    BY <1>9, <2>4, Zenon
  <2>7. Cs3(key, iv, n) = [reg |-> cbc.reg, out |-> x \o y \o z]
    BY <2>5, <2>6, Zenon
  <2> QED BY <1>8, <2>7, Zenon
<1>11. Row(x, f) /\ \A i \in 1 .. o : BlockOf(x, i) = c[i]
  <2> DEFINE e == cbc.out
             g == f
  <2>1. x = SubSeq(e, 1, g) /\ g \in Nat
    BY <1>1
  <2> HIDE DEF x, e, g
  <2>2. Row(x, g) /\ \A i \in 1 .. g : x[i] = e[i]
    BY <2>1, CutFirst
  <2>3. Row(x, f) /\ \A i \in 1 .. f : x[i] = cbc.out[i]
    BY <2>2 DEF e, g
  <2>4. ASSUME NEW i \in 1 .. o PROVE BlockOf(x, i) = BlockOf(cbc.out, i)
    <3>1. i \in Nat \ {0}
      BY <1>1
    <3>2. /\ Row(BlockOf(x, i), Block) /\ Row(BlockOf(cbc.out, i), Block)
          /\ \A j \in 1 .. Block : BlockOf(x, i)[j] = x[((i - 1) * Block) + j]
          /\ \A j \in 1 .. Block : BlockOf(cbc.out, i)[j] = cbc.out[((i - 1) * Block) + j]
      BY <3>1, BlockIs
    <3>3. \A j \in 1 .. Block : ((i - 1) * Block) + j \in 1 .. f
      BY <1>1, InRow
    <3>4. \A j \in 1 .. Block : BlockOf(x, i)[j] = BlockOf(cbc.out, i)[j]
      BY <2>3, <3>2, <3>3
    <3> QED BY <3>2, <3>4, RowsEqual
  <2>5. \A i \in 1 .. o : i \in 1 .. q
    BY <1>1, <1>9
  <2> QED BY <1>8, <2>3, <2>4, <2>5
<1>12. Row(z, p) /\ \A j \in 1 .. p : z[j] = c[o + 1][j]
  <2> DEFINE e == c[o + 1]
  <2>1. z = SubSeq(e, 1, p) /\ p \in Nat
    BY <1>1, <1>2
  <2> HIDE DEF z, e
  <2>2. Row(z, p) /\ \A j \in 1 .. p : z[j] = e[j]
    BY <2>1, CutFirst
  <2> QED BY <2>2 DEF e
<1>13. OneBlock(y)
  <2>1. q \in 1 .. q
    BY <1>1, <1>9
  <2> QED BY <1>8, <2>1, ChainWhole
<1> HIDE DEF x, z
<1>14. Stolen(Join(Join(x, c[o + 2]), z), c, n)
  BY <1>9, <1>11, <1>12, <1>13, StolenJoin
<1>15. Stolen((x \o y) \o z, c, n)
  BY <1>9, <1>14, Zenon DEF Join
<1> DEFINE out == (x \o y) \o z
<1>16. Cs3(key, iv, n) = [reg |-> c[q], out |-> out] /\ Stolen(out, c, n)
  BY <1>10, <1>15
<1> HIDE DEF out
<1> QED BY <1>8, <1>9, <1>16

(* A row filled up with zeros to two blocks.                                 *)
LEMMA FillUp ==
  ASSUME NEW rest, NEW l, Row(rest, l), l <= 2 * Block
  PROVE  /\ Row(Padded(rest), 2 * Block)
         /\ \A j \in 1 .. l : Padded(rest)[j] = rest[j]
         /\ \A j \in 1 .. 2 * Block : l < j => Padded(rest)[j] = {}
<1> DEFINE z == [j \in 1 .. 2 * Block - l |-> {}]
           w == Join(rest, z)
<1>1. l \in Nat /\ Len(rest) = l /\ Block \in Nat
  BY RowIs, StreamAssumption
<1> DEFINE u == 2 * Block - l
<1>2. u \in Nat /\ l + u = 2 * Block
  BY <1>1
<1>3. Row(z, u) /\ \A j \in 1 .. u : z[j] = {}
  BY <1>2 DEF Row
<1>4. Padded(rest) = w
  <2>1. Padded(rest) = rest \o z
    BY <1>1, Zenon DEF Padded, z
  <2> QED BY <2>1, Zenon DEF Join, w
<1> HIDE DEF z, u
<1>5. /\ Row(w, l + u) /\ \A j \in 1 .. l : w[j] = rest[j]
      /\ \A j \in 1 .. u : w[l + j] = z[j]
  BY <1>3, Cat
<1> HIDE DEF w
<1>6. Row(w, 2 * Block)
  BY <1>2, <1>5
<1>7. ASSUME NEW j \in 1 .. 2 * Block, l < j PROVE w[j] = {}
  <2>1. j - l \in 1 .. u /\ l + (j - l) = j
    BY <1>1, <1>2, <1>7
  <2> QED BY <1>3, <1>5, <2>1
<1> QED BY <1>4, <1>5, <1>6, <1>7

(* The last two blocks of what is in, filled up with zeros.                  *)
Rest(in, n) == SubSeq(in, First(n) + 1, n)
LEMMA LastTwo ==
  ASSUME NEW n, n \in Nat, Block < n, NEW in, Row(in, n), NEW rest, rest = Rest(in, n)
  PROVE  /\ Len(rest) = Block + Part(n) /\ Row(rest, Block + Part(n)) /\ Row(Padded(rest), 2 * Block)
         /\ \A j \in 1 .. Block + Part(n) : Padded(rest)[j] = in[First(n) + j]
         /\ \A j \in 1 .. 2 * Block : Block + Part(n) < j => Padded(rest)[j] = {}
<1> DEFINE f == First(n)
           p == Part(n)
           l == Block + p
           a == f + 1
<1>1. f \in Nat /\ p \in 1 .. Block /\ n = (f + Block) + p /\ Block \in Nat \ {0}
  BY Sizes, StreamAssumption
<1> HIDE DEF f, p
<1>2. l \in Nat /\ a \in Nat \ {0} /\ n \in Int /\ a <= n + 1 /\ (n - a) + 1 = l /\ l <= 2 * Block
  BY <1>1
<1>3. rest = SubSeq(in, a, n)
  BY DEF f, Rest
<1> HIDE DEF a
<1> DEFINE t == SubSeq(in, a, n)
<1>4. Row(t, (n - a) + 1) /\ \A j \in 1 .. (n - a) + 1 : t[j] = in[(a + j) - 1]
  BY <1>2, SubRow
<1> HIDE DEF t
<1>5. Row(t, l) /\ \A j \in 1 .. l : t[j] = in[f + j]
  <2>1. \A j \in 1 .. l : (a + j) - 1 = f + j
    BY <1>1, <1>2 DEF a
  <2>2. \A j \in 1 .. l : t[j] = in[(a + j) - 1]
    BY <1>2, <1>4
  <2> QED BY <1>2, <1>4, <2>1, <2>2
<1> HIDE DEF l
<1>6. Len(t) = l
  BY <1>5, RowIs
<1>7. /\ Row(Padded(t), 2 * Block)
      /\ \A j \in 1 .. l : Padded(t)[j] = t[j]
      /\ \A j \in 1 .. 2 * Block : l < j => Padded(t)[j] = {}
  BY <1>2, <1>5, FillUp
<1> DEFINE v == Padded(t)
<1>8. v = Padded(rest) /\ t = rest
  BY <1>3 DEF t
<1>9. Row(v, 2 * Block) /\ \A j \in 1 .. 2 * Block : l < j => v[j] = {}
  BY <1>7
<1>10. \A j \in 1 .. l : v[j] = in[f + j]
  BY <1>5, <1>7
<1>11. Len(rest) = l /\ Row(rest, l)
  BY <1>5, <1>6, <1>8, Zenon
<1> HIDE DEF v
<1>12. Row(Padded(rest), 2 * Block) /\ \A j \in 1 .. 2 * Block : l < j => Padded(rest)[j] = {}
  BY <1>8, <1>9, Zenon
<1>13. \A j \in 1 .. l : Padded(rest)[j] = in[f + j]
  BY <1>8, <1>10, Zenon
<1> QED BY <1>11, <1>12, <1>13, Zenon DEF l, p, f

(* The blocks of it are the last two of the filled message.                  *)
LEMMA LastTwoFilled ==
  ASSUME NEW n, n \in Nat, Block < n, NEW in, in = Message(n), NEW rest, rest = Rest(in, n)
  PROVE  /\ BlockOf(Padded(rest), 1) = BlockOf(Filled(n), Others(n) + 1)
         /\ BlockOf(Padded(rest), 2) = BlockOf(Filled(n), Others(n) + 2)
<1> DEFINE f == First(n)
           p == Part(n)
           o == Others(n)
           t == Padded(rest)
           s == Filled(n)
<1>1. /\ f \in Nat /\ p \in 1 .. Block /\ n = (f + Block) + p /\ Block \in Nat \ {0} /\ o \in Nat
      /\ o * Block = f /\ (o + 1) * Block = f + Block
  BY Sizes, StreamAssumption DEF First
<1>2. /\ Row(in, n) /\ \A i \in 1 .. n : s[i] = in[i]
      /\ \A i \in 1 .. f + 2 * Block : n < i => s[i] = {}
  BY FilledIs
<1>3. /\ \A j \in 1 .. Block + p : t[j] = in[f + j]
      /\ \A j \in 1 .. 2 * Block : Block + p < j => t[j] = {}
  <2>1. Row(in, n)
    BY <1>2
  <2> HIDE DEF s
  <2>2. \A j \in 1 .. Block + Part(n) : Padded(rest)[j] = in[First(n) + j]
    BY <2>1, LastTwo
  <2>3. \A j \in 1 .. 2 * Block : Block + Part(n) < j => Padded(rest)[j] = {}
    BY <2>1, LastTwo
  <2> QED BY <2>2, <2>3, Zenon
<1>4. BlockOf(t, 1) = BlockOf(s, o + 1) /\ BlockOf(t, 2) = BlockOf(s, o + 2)
  <2> HIDE DEF f, p, o, t, s
  <2>1. ASSUME NEW j \in 1 .. 2 * Block PROVE t[j] = s[f + j]
    <3>1. CASE j <= Block + p
      <4>1. f + j \in 1 .. n /\ j \in 1 .. Block + p
        BY <1>1, <3>1
      <4> QED BY <1>2, <1>3, <4>1
    <3>2. CASE Block + p < j
      <4>1. f + j \in 1 .. f + 2 * Block /\ n < f + j
        BY <1>1, <3>2
      <4> QED BY <1>2, <1>3, <3>2, <4>1
    <3> QED BY <1>1, <3>1, <3>2
  <2> DEFINE q == o + 1
             v == o + 2
  <2>2. /\ q \in Nat \ {0} /\ v \in Nat \ {0} /\ (q - 1) * Block = f /\ (v - 1) * Block = f + Block
        /\ (1 - 1) * Block = 0 /\ (2 - 1) * Block = Block
    <3>1. q - 1 = o /\ v - 1 = o + 1
      BY <1>1
    <3> QED BY <1>1, <3>1
  <2> HIDE DEF q, v
  <2>3. /\ Row(BlockOf(s, q), Block) /\ \A j \in 1 .. Block : BlockOf(s, q)[j] = s[f + j]
    BY <2>2, BlockIs
  <2>4. /\ Row(BlockOf(s, v), Block) /\ \A j \in 1 .. Block : BlockOf(s, v)[j] = s[(f + Block) + j]
    BY <2>2, BlockIs
  <2>5. /\ Row(BlockOf(t, 1), Block) /\ \A j \in 1 .. Block : BlockOf(t, 1)[j] = t[0 + j]
    BY <2>2, BlockIs
  <2>6. /\ Row(BlockOf(t, 2), Block) /\ \A j \in 1 .. Block : BlockOf(t, 2)[j] = t[Block + j]
    BY <2>2, BlockIs
  <2>7. ASSUME NEW j \in 1 .. Block PROVE BlockOf(t, 1)[j] = BlockOf(s, q)[j]
    <3>1. 0 + j = j /\ j \in 1 .. 2 * Block
      BY <1>1
    <3> QED BY <2>1, <2>3, <2>5, <3>1
  <2>8. ASSUME NEW j \in 1 .. Block PROVE BlockOf(t, 2)[j] = BlockOf(s, v)[j]
    <3>1. Block + j \in 1 .. 2 * Block /\ f + (Block + j) = (f + Block) + j
      BY <1>1
    <3>2. t[Block + j] = s[f + (Block + j)]
      BY <2>1, <3>1
    <3> QED BY <2>4, <2>6, <3>1, <3>2
  <2>9. BlockOf(t, 1) = BlockOf(s, q) /\ BlockOf(t, 2) = BlockOf(s, v)
    BY <2>3, <2>4, <2>5, <2>6, <2>7, <2>8, RowsEqual
  <2> QED BY <2>9 DEF q, v
<1> QED BY <1>4

(* What CTS encrypts first, and the last two blocks it encrypts together, go *)
(* along the chain of the filled message.                                    *)
LEMMA SameBlocks ==
  ASSUME NEW s, NEW t, NEW l, NEW m, m \in Nat, l = m * Block, \A x \in 1 .. l : s[x] = t[x]
  PROVE  \A i \in 1 .. m : BlockOf(s, i) = BlockOf(t, i)
<1> TAKE i \in 1 .. m
<1>1. i \in Nat \ {0}
  OBVIOUS
<1>2. /\ Row(BlockOf(s, i), Block) /\ Row(BlockOf(t, i), Block)
      /\ \A j \in 1 .. Block : BlockOf(s, i)[j] = s[((i - 1) * Block) + j]
      /\ \A j \in 1 .. Block : BlockOf(t, i)[j] = t[((i - 1) * Block) + j]
  BY <1>1, BlockIs
<1>3. \A j \in 1 .. Block : ((i - 1) * Block) + j \in 1 .. l
  BY InRow
<1>4. \A j \in 1 .. Block : BlockOf(s, i)[j] = BlockOf(t, i)[j]
  BY <1>2, <1>3
<1> QED BY <1>2, <1>4, RowsEqual

(* What is encrypted first, and what that gives.                             *)
Start(in, n) == SubSeq(in, 1, First(n))
LEMMA FirstBlocks ==
  ASSUME NEW n, n \in Nat, Block < n, NEW a, a = Start(Message(n), n)
  PROVE  /\ Row(a, First(n)) /\ \A i \in 1 .. First(n) : a[i] = Message(n)[i]
         /\ \A i \in 1 .. Others(n) : BlockOf(a, i) = BlockOf(Filled(n), i)
<1> DEFINE in == Message(n)
           f == First(n)
           o == Others(n)
           s == Filled(n)
<1>1. f \in Nat /\ o \in Nat /\ f = o * Block /\ f <= n
  <2>1. f \in Nat /\ o \in Nat /\ Part(n) \in 1 .. Block /\ n = f + Block + Part(n)
    BY Sizes
  <2>2. f = o * Block
    BY DEF First
  <2> HIDE DEF f, o
  <2>3. f <= n
    BY <2>1, StreamAssumption
  <2> QED BY <2>1, <2>2, <2>3
<1>2. \A i \in 1 .. n : s[i] = in[i]
  BY FilledIs
<1> DEFINE w == SubSeq(in, 1, f)
<1>3. a = w
  BY DEF Start
<1> HIDE DEF in, f, o, s
<1>4. Row(a, f) /\ \A i \in 1 .. f : a[i] = in[i]
  <2>1. w = SubSeq(in, 1, f) /\ f \in Nat
    BY <1>1
  <2> HIDE DEF w
  <2>2. Row(w, f) /\ \A i \in 1 .. f : w[i] = in[i]
    BY <2>1, CutFirst
  <2> QED BY <1>3, <2>2
<1>5. \A x \in 1 .. f : a[x] = s[x]
  BY <1>1, <1>2, <1>4
<1>6. \A i \in 1 .. o : BlockOf(a, i) = BlockOf(s, i)
  BY <1>1, <1>5, SameBlocks
<1> QED BY <1>4, <1>6 DEF f, in, o, s

FilledChain(c, key, iv, n) == CbcChain(c, key, iv, Filled(n), Others(n) + 2)
FirstOf(k, iv, n) ==
  IF Others(n) > 0 THEN CbcEncrypt(k, iv, Start(Message(n), n)) ELSE [out |-> <<>>, reg |-> iv]
LEMMA FirstEncrypted ==
  ASSUME NEW n, n \in Nat, Block < n, NEW k, k.dir = "enc", NEW iv, NEW c,
         FilledChain(c, k.key, iv, n), NEW first, first = FirstOf(k, iv, n)
  PROVE  /\ Row(first.out, First(n)) /\ first.reg = c[Others(n)]
         /\ \A i \in 1 .. Others(n) : BlockOf(first.out, i) = c[i]
<1> DEFINE a == Start(Message(n), n)
           f == First(n)
           o == Others(n)
           s == Filled(n)
<1>1. f \in Nat /\ o \in Nat /\ f = o * Block
  BY Sizes, StreamAssumption DEF First
<1>2. Row(a, f) /\ \A i \in 1 .. o : BlockOf(a, i) = BlockOf(s, i)
  BY FirstBlocks
<1>3. first = IF o > 0 THEN CbcEncrypt(k, iv, a) ELSE [out |-> <<>>, reg |-> iv]
  BY DEF FirstOf
<1>4. CbcChain(c, k.key, iv, s, o + 2)
  BY DEF FilledChain
<1> HIDE DEF a, f, o, s
<1>5. CASE 0 < o
  <2>1. first = CbcEncrypt(k, iv, a)
    BY <1>3, <1>5
  <2>2. Row(first.out, f)
    BY <1>1, <1>2, <2>1, CbcEncryptIs
  <2>3. PICK d : /\ CbcChain(d, k.key, iv, a, o) /\ first.reg = d[o]
                 /\ \A i \in 1 .. o : BlockOf(first.out, i) = d[i]
    BY <1>1, <1>2, <2>1, CbcEncryptIs
  <2> DEFINE m == o + 2
  <2>4. m \in Nat /\ o <= m /\ CbcChain(c, k.key, iv, s, m)
    BY <1>1, <1>4
  <2> HIDE DEF m
  <2>5. \A i \in 0 .. o : d[i] = c[i]
    BY <1>1, <1>2, <2>3, <2>4, ChainOnce
  <2>6. first.reg = c[o] /\ \A i \in 1 .. o : BlockOf(first.out, i) = c[i]
    BY <1>1, <2>3, <2>5
  <2> QED BY <2>2, <2>6 DEF f, o
<1>6. CASE ~(0 < o)
  <2>1. o = 0 /\ f = 0 /\ first.out = <<>> /\ first.reg = iv
    BY <1>1, <1>3, <1>6, StreamAssumption
  <2>2. c[0] = iv
    BY <1>4 DEF CbcChain
  <2>3. Row(first.out, f) /\ first.reg = c[o] /\ \A i \in 1 .. o : BlockOf(first.out, i) = c[i]
    BY <2>1, <2>2, NoRow
  <2> QED BY <2>3 DEF f, o
<1> QED BY <1>5, <1>6

LEMMA PairEncrypted ==
  ASSUME NEW n, n \in Nat, Block < n, NEW k, k.dir = "enc", NEW iv, NEW c,
         FilledChain(c, k.key, iv, n), NEW reg, reg = c[Others(n)],
         NEW pair, pair = CbcEncrypt(k, reg, Padded(Rest(Message(n), n)))
  PROVE  /\ Row(pair.out, 2 * Block) /\ pair.reg = c[Others(n) + 2]
         /\ BlockOf(pair.out, 1) = c[Others(n) + 1] /\ BlockOf(pair.out, 2) = c[Others(n) + 2]
<1> DEFINE t == Padded(Rest(Message(n), n))
           o == Others(n)
           s == Filled(n)
           l == 2 * Block
<1>1. o \in Nat /\ o + 1 \in 1 .. o + 2 /\ o + 2 \in 1 .. o + 2 /\ (o + 2) - 1 = o + 1
      /\ (o + 1) - 1 = o
  BY Sizes
<1>2. /\ Row(t, l) /\ BlockOf(t, 1) = BlockOf(s, o + 1) /\ BlockOf(t, 2) = BlockOf(s, o + 2)
  BY FilledIs, LastTwo, LastTwoFilled
<1>3. CbcChain(c, k.key, iv, s, o + 2) /\ reg = c[o] /\ pair = CbcEncrypt(k, reg, t)
  BY DEF FilledChain
<1> HIDE DEF t, o, s, l
<1>4. Row(pair.out, l) /\ \E d : /\ CbcChain(d, k.key, reg, t, 2) /\ pair.reg = d[2]
                                /\ \A i \in 1 .. 2 : BlockOf(pair.out, i) = d[i]
  <2>1. l = 2 * Block /\ 2 \in Nat
    BY DEF l
  <2>2. Row(pair.out, l)
    BY <1>2, <1>3, <2>1, CbcEncryptIs
  <2>3. \E d : /\ CbcChain(d, k.key, reg, t, 2) /\ pair.reg = d[2]
               /\ \A i \in 1 .. 2 : BlockOf(pair.out, i) = d[i]
    BY <1>2, <1>3, <2>1, CbcEncryptIs
  <2> QED BY <2>2, <2>3
<1>5. PICK d : /\ CbcChain(d, k.key, reg, t, 2) /\ pair.reg = d[2]
               /\ \A i \in 1 .. 2 : BlockOf(pair.out, i) = d[i]
  BY <1>4
<1>6. /\ d[1] = Ciphered(k.key, Xor(BlockOf(t, 1), reg))
      /\ d[2] = Ciphered(k.key, Xor(BlockOf(t, 2), d[1]))
  <2>1. 1 \in 1 .. 2 /\ 2 \in 1 .. 2 /\ 1 - 1 = 0 /\ 2 - 1 = 1
    OBVIOUS
  <2>2. /\ d[1] = Ciphered(k.key, Xor(BlockOf(t, 1), d[1 - 1]))
        /\ d[2] = Ciphered(k.key, Xor(BlockOf(t, 2), d[2 - 1])) /\ d[0] = reg
    BY <1>5, <2>1 DEF CbcChain
  <2> QED BY <2>1, <2>2
<1>7. /\ c[o + 1] = Ciphered(k.key, Xor(BlockOf(s, o + 1), c[o]))
      /\ c[o + 2] = Ciphered(k.key, Xor(BlockOf(s, o + 2), c[o + 1]))
  <2>1. /\ c[o + 1] = Ciphered(k.key, Xor(BlockOf(s, o + 1), c[(o + 1) - 1]))
        /\ c[o + 2] = Ciphered(k.key, Xor(BlockOf(s, o + 2), c[(o + 2) - 1]))
    BY <1>1, <1>3 DEF CbcChain
  <2> QED BY <1>1, <2>1
<1>8. d[1] = c[o + 1]
  BY <1>2, <1>3, <1>6, <1>7
<1>9. d[2] = c[o + 2]
  BY <1>2, <1>6, <1>7, <1>8
<1>10. /\ pair.reg = c[o + 2] /\ BlockOf(pair.out, 1) = c[o + 1] /\ BlockOf(pair.out, 2) = c[o + 2]
  BY <1>5, <1>8, <1>9
<1> QED BY <1>4, <1>10 DEF o, l

(* The first l units of a row.                                               *)
Taken(s, l) == SubSeq(s, 1, l)
LEMMA TakenIs ==
  ASSUME NEW s, NEW l, l \in Nat
  PROVE  Row(Taken(s, l), l) /\ \A i \in 1 .. l : Taken(s, l)[i] = s[i]
<1> DEFINE x == Taken(s, l)
<1>1. x = SubSeq(s, 1, l)
  BY DEF Taken
<1> HIDE DEF x
<1>2. Row(x, l) /\ \A i \in 1 .. l : x[i] = s[i]
  BY <1>1, CutFirst
<1> QED BY <1>2 DEF x

(* What an update of CTS comes to: it gave out, and left the chain of made in
   its context and g in the registers of its cipher.                         *)
CtsGives(r, c, n, made, out, g) ==
  r = [ok |-> TRUE, out |-> out, c |-> [c EXCEPT !.iv = made.reg, !.aes.reg = g]]

(* What CTS encrypts is what CS3 makes of the message.                       *)
LEMMA CtsEncryptIs ==
  ASSUME NEW n, n \in Nat, Block < n, NEW c, c.aes.dir = "enc", c.aes.reg = c.iv,
         NEW made, made = Cs3(c.aes.key, c.iv, n), NEW r, r = CtsEncrypt(c, Message(n))
  PROVE  CtsGives(r, c, n, made, made.out, made.reg)
<1> DEFINE in == Message(n)
           k == c.aes
           iv == c.iv
           o == Others(n)
           f == First(n)
           p == Part(n)
           first == FirstOf(k, iv, n)
           rest == Rest(in, n)
           pair == CbcEncrypt(k, first.reg, Padded(rest))
           x == first.out
           y == BlockOf(pair.out, 2)
           z == Taken(pair.out, p)
           out == (x \o y) \o z
<1>1. /\ o \in Nat /\ f \in Nat /\ p \in 1 .. Block /\ n = f + Block + p
      /\ Block \in Nat \ {0}
  BY Sizes, StreamAssumption
<1>2. Len(in) = n /\ Row(in, n)
  BY FilledIs, RowIs
<1>3. r = [ok |-> TRUE, out |-> out, c |-> [c EXCEPT !.iv = pair.reg, !.aes.reg = pair.reg]]
  <2> DEFINE b0 == Others(Len(in))
             most0 == IF b0 > 0 THEN b0 * Block ELSE 0
             first0 == IF b0 > 0 THEN CbcEncrypt(c.aes, c.iv, SubSeq(in, 1, most0))
                       ELSE [out |-> <<>>, reg |-> c.aes.reg]
             rest0 == SubSeq(in, most0 + 1, Len(in))
             pair0 == CbcEncrypt(c.aes, first0.reg, Padded(rest0))
             y0 == BlockOf(pair0.out, 2)
             z0 == SubSeq(pair0.out, 1, Len(rest0) - Block)
  <2>1. CtsEncrypt(c, in) =
          [ok |-> TRUE, out |-> (first0.out \o y0) \o z0,
           c |-> [c EXCEPT !.iv = pair0.reg, !.aes.reg = pair0.reg]]
    BY Zenon DEF CtsEncrypt
  <2>2. b0 = o /\ most0 = f
    <3>1. b0 = o
      BY <1>2
    <3> HIDE DEF b0
    <3>2. CASE o > 0
      BY <3>1, <3>2 DEF First
    <3>3. CASE ~(o > 0)
      <4>1. o = 0
        BY <1>1, <3>3
      <4> QED BY <1>1, <3>1, <4>1 DEF First
    <3> QED BY <3>1, <3>2, <3>3
  <2> HIDE DEF b0, most0
  <2>3. first0 = first
    <3>1. SubSeq(in, 1, most0) = Start(in, n)
      BY <2>2, Zenon DEF Start
    <3> QED BY <2>2, <3>1, Zenon DEF FirstOf
  <2> HIDE DEF first0, first
  <2>4. rest0 = rest
    BY <1>2, <2>2, Zenon DEF Rest
  <2> HIDE DEF rest0, rest
  <2>5. pair0 = pair
    BY <2>3, <2>4, Zenon
  <2> HIDE DEF pair0, pair
  <2>6. y0 = y
    BY <2>5, Zenon
  <2>7. Len(rest0) = Block + p
    BY <1>2, <2>4, LastTwo DEF rest
  <2>8. Len(rest0) - Block = p
    BY <1>1, <2>7
  <2>9. z0 = z
    BY <2>5, <2>8, Zenon DEF Taken
  <2> HIDE DEF y0, z0, y, z
  <2>10. CtsEncrypt(c, in) = [ok |-> TRUE, out |-> (first.out \o y) \o z,
                             c |-> [c EXCEPT !.iv = pair.reg, !.aes.reg = pair.reg]]
    BY <2>1, <2>3, <2>5, <2>6, <2>9, Zenon
  <2> QED BY <2>10, Zenon
<1>4. PICK d : FilledChain(d, k.key, iv, n) /\ made.reg = d[o + 2] /\ Stolen(made.out, d, n)
  BY Cs3Is DEF FilledChain
<1> HIDE DEF in
<1>5. first = FirstOf(k, iv, n)
  OBVIOUS
<1>6. pair = CbcEncrypt(k, first.reg, Padded(Rest(Message(n), n)))
  BY DEF in
<1>7. k.dir = "enc"
  OBVIOUS
<1> HIDE DEF first, rest, pair, k, iv
<1>8. /\ Row(x, f) /\ first.reg = d[o] /\ \A i \in 1 .. o : BlockOf(x, i) = d[i]
  BY <1>4, <1>5, <1>7, FirstEncrypted
<1>9. /\ Row(pair.out, 2 * Block) /\ pair.reg = d[o + 2]
      /\ BlockOf(pair.out, 1) = d[o + 1] /\ y = d[o + 2]
  BY <1>4, <1>6, <1>7, <1>8, PairEncrypted
<1>10. Row(z, p) /\ \A j \in 1 .. p : z[j] = d[o + 1][j]
  <2> DEFINE e == pair.out
             g == p
  <2>1. z = Taken(e, g) /\ g \in Nat
    BY <1>1
  <2> HIDE DEF z, e, g
  <2>2. Row(z, g) /\ \A i \in 1 .. g : z[i] = e[i]
    BY <2>1, TakenIs
  <2>3. \A j \in 1 .. Block : BlockOf(e, 1)[j] = e[((1 - 1) * Block) + j]
    BY BlockIs
  <2>4. \A j \in 1 .. Block : BlockOf(e, 1)[j] = e[j]
    <3>1. \A j \in 1 .. Block : ((1 - 1) * Block) + j = j
      BY <1>1
    <3> QED BY <2>3, <3>1
  <2>5. BlockOf(e, 1) = d[o + 1]
    BY <1>9 DEF e
  <2>6. \A j \in 1 .. g : j \in 1 .. Block
    BY <1>1 DEF g
  <2>7. \A j \in 1 .. g : z[j] = d[o + 1][j]
    BY <2>2, <2>4, <2>5, <2>6
  <2> QED BY <2>2, <2>7 DEF g
<1>11. OneBlock(d[o + 2])
  <2>1. o + 2 \in 1 .. o + 2
    BY <1>1
  <2> QED BY <1>4, <2>1, ChainWhole DEF FilledChain
<1> HIDE DEF x, z
<1>12. Stolen(Join(Join(x, d[o + 2]), z), d, n)
  BY <1>8, <1>10, <1>11, StolenJoin
<1>13. out = Join(Join(x, d[o + 2]), z)
  BY <1>9, Zenon DEF Join
<1> HIDE DEF out, y
<1>14. out = made.out
  <2>1. Stolen(out, d, n)
    BY <1>12, <1>13, Zenon
  <2> QED BY <1>4, <2>1, StolenOnce
<1>15. pair.reg = made.reg
  BY <1>4, <1>9, Zenon
<1>16. r = [ok |-> TRUE, out |-> made.out, c |-> [c EXCEPT !.iv = made.reg, !.aes.reg = made.reg]]
  BY <1>3, <1>14, <1>15, Zenon
<1> QED BY <1>16, Zenon DEF CtsGives

(* What decrypts a block of the chain, and with the one before gives the     *)
(* block of the message.                                                     *)
Undone(d, k, n, i, h) ==
  /\ Decrypt(k, d[i]) = Xor(BlockOf(Filled(n), i), d[h])
  /\ Xor(Decrypt(k, d[i]), d[h]) = BlockOf(Filled(n), i)
LEMMA ChainUndone ==
  ASSUME NEW n, n \in Nat, Block < n, NEW k, k.dir = "dec", NEW iv, NEW d,
         FilledChain(d, k.key, iv, n), NEW i, i \in 1 .. Others(n) + 2,
         NEW h, h = i - 1
  PROVE  Undone(d, k, n, i, h)
<1> DEFINE b == BlockOf(Filled(n), i)
<1>1. d[i] = Ciphered(k.key, Xor(b, d[i - 1]))
  BY DEF FilledChain, CbcChain
<1>2. i \in Nat \ {0}
  BY Sizes
<1>3. OneBlock(b)
  BY <1>2, BlockIs DEF OneBlock
<1> HIDE DEF b
<1>4. Decrypt(k, d[i]) = Xor(b, d[i - 1])
  BY <1>1, CipherIs
<1>5. Xor(Decrypt(k, d[i]), d[i - 1]) = b
  BY <1>3, <1>4, XorTwice
<1> QED BY <1>4, <1>5 DEF Undone, b

(* What CTS decrypts first.                                                  *)
FirstBack(k, iv, in, n) ==
  IF Others(n) > 0 THEN CbcDecrypt(k, iv, Start(in, n)) ELSE [out |-> <<>>, reg |-> iv]
LEMMA FirstDecrypted ==
  ASSUME NEW n, n \in Nat, Block < n, NEW k, k.dir = "dec", NEW iv, NEW d,
         FilledChain(d, k.key, iv, n), NEW in, Stolen(in, d, n),
         NEW first, first = FirstBack(k, iv, in, n)
  PROVE  /\ Row(first.out, First(n)) /\ first.reg = d[Others(n)]
         /\ \A i \in 1 .. Others(n) : BlockOf(first.out, i) = BlockOf(Filled(n), i)
<1> DEFINE a == Start(in, n)
           f == First(n)
           o == Others(n)
           s == Filled(n)
<1>1. f \in Nat /\ o \in Nat /\ f = o * Block
  BY Sizes, StreamAssumption DEF First
<1>2. first = IF o > 0 THEN CbcDecrypt(k, iv, a) ELSE [out |-> <<>>, reg |-> iv]
  BY DEF FirstBack
<1>3. d[0] = iv
  BY DEF FilledChain, CbcChain
<1>4. \A i \in 1 .. o : Xor(Decrypt(k, d[i]), d[i - 1]) = BlockOf(s, i)
  <2> TAKE i \in 1 .. o
  <2>1. i \in 1 .. Others(n) + 2
    BY <1>1
  <2>2. Xor(Decrypt(k, d[i]), d[i - 1]) = BlockOf(Filled(n), i)
    <3> DEFINE h == i - 1
    <3>1. h = i - 1
      OBVIOUS
    <3> HIDE DEF h
    <3>2. Undone(d, k, n, i, h)
      BY <2>1, <3>1, ChainUndone
    <3> QED BY <3>2 DEF Undone, h
  <2> QED BY <2>2
<1>5. \A i \in 1 .. o : BlockOf(in, i) = d[i]
  BY DEF Stolen
<1>6. a = Taken(in, f)
  BY DEF Start, Taken
<1> HIDE DEF a, f, o, s
<1>7. Row(a, f) /\ \A x \in 1 .. f : a[x] = in[x]
  BY <1>1, <1>6, TakenIs
<1>8. \A i \in 1 .. o : BlockOf(a, i) = BlockOf(in, i)
  BY <1>1, <1>7, SameBlocks
<1>9. CASE o > 0
  <2>1. first = CbcDecrypt(k, iv, a)
    BY <1>2, <1>9
  <2>2. /\ Row(first.out, f) /\ first.reg = IF o = 0 THEN iv ELSE BlockOf(a, o)
        /\ \A i \in 1 .. o : BlockOf(first.out, i) = Xor(Decrypt(k, BlockOf(a, i)),
                                                        IF i = 1 THEN iv ELSE BlockOf(a, i - 1))
    <3>1. Back(first, k, iv, a, o, f)
      BY <1>1, <1>7, <2>1, CbcDecryptIs
    <3> QED BY <3>1 DEF Back
  <2>3. ASSUME NEW i \in 1 .. o PROVE BlockOf(first.out, i) = BlockOf(s, i)
    <3>1. BlockOf(a, i) = d[i]
      BY <1>5, <1>8
    <3>2. (IF i = 1 THEN iv ELSE BlockOf(a, i - 1)) = d[i - 1]
      <4>1. CASE i = 1
        BY <1>3, <4>1
      <4>2. CASE i # 1
        <5>1. i - 1 \in 1 .. o
          BY <1>1, <4>2
        <5> QED BY <1>5, <1>8, <4>2, <5>1
      <4> QED BY <4>1, <4>2
    <3>3. BlockOf(first.out, i) = Xor(Decrypt(k, d[i]), d[i - 1])
      BY <2>2, <3>1, <3>2, Zenon
    <3> QED BY <1>4, <3>3
  <2>4. first.reg = d[o]
    <3>1. o \in 1 .. o /\ o # 0
      BY <1>1, <1>9
    <3> QED BY <1>5, <1>8, <2>2, <3>1
  <2> QED BY <2>2, <2>3, <2>4 DEF f, o, s
<1>10. CASE ~(o > 0)
  <2>1. o = 0 /\ f = 0 /\ first.out = <<>> /\ first.reg = iv
    BY <1>1, <1>2, <1>10, StreamAssumption
  <2>2. Row(first.out, f) /\ first.reg = d[o]
        /\ \A i \in 1 .. o : BlockOf(first.out, i) = BlockOf(s, i)
    BY <1>3, <2>1, NoRow
  <2> QED BY <2>2 DEF f, o, s
<1> QED BY <1>9, <1>10

(* The last two blocks of stolen ciphertext, filled up with zeros.           *)
LEMMA TwoStolen ==
  ASSUME NEW n, n \in Nat, Block < n, NEW iv, NEW key, NEW d, FilledChain(d, key, iv, n),
         NEW in, Stolen(in, d, n), NEW two, two = Padded(Rest(in, n))
  PROVE  /\ Row(two, 2 * Block) /\ BlockOf(two, 1) = d[Others(n) + 2]
         /\ \A j \in 1 .. Block : /\ two[Block + j] = BlockOf(two, 2)[j]
                                  /\ j <= Part(n) => BlockOf(two, 2)[j] = d[Others(n) + 1][j]
                                  /\ Part(n) < j => BlockOf(two, 2)[j] = {}
<1> DEFINE f == First(n)
           o == Others(n)
           p == Part(n)
           y == d[o + 2]
           x == d[o + 1]
<1>1. /\ o \in Nat /\ f \in Nat /\ p \in 1 .. Block /\ n = (f + Block) + p /\ Block \in Nat \ {0}
  BY Sizes, StreamAssumption
<1>2. Row(in, n)
  BY DEF Stolen
<1>3. /\ Row(two, 2 * Block) /\ \A j \in 1 .. Block + p : two[j] = in[f + j]
      /\ \A j \in 1 .. 2 * Block : Block + p < j => two[j] = {}
  BY <1>2, LastTwo
<1>4. /\ \A j \in 1 .. Block : in[f + j] = y[j]
      /\ \A j \in 1 .. p : in[(f + Block) + j] = x[j]
  BY DEF Stolen
<1>5. OneBlock(y)
  <2>1. o + 2 \in 1 .. o + 2
    BY <1>1
  <2> QED BY <2>1, ChainWhole DEF FilledChain
<1> HIDE DEF f, o, p, x, y
<1>6. (1 - 1) * Block = 0 /\ (2 - 1) * Block = Block
  BY <1>1
<1>7. /\ Row(BlockOf(two, 1), Block) /\ \A j \in 1 .. Block : BlockOf(two, 1)[j] = two[0 + j]
  BY <1>6, BlockIs
<1>8. /\ Row(BlockOf(two, 2), Block) /\ \A j \in 1 .. Block : BlockOf(two, 2)[j] = two[Block + j]
  BY <1>6, BlockIs
<1>9. ASSUME NEW j \in 1 .. Block PROVE BlockOf(two, 1)[j] = y[j]
  <2>1. 0 + j = j /\ j \in 1 .. Block + p
    BY <1>1
  <2> QED BY <1>3, <1>4, <1>7, <2>1
<1>10. BlockOf(two, 1) = y
  BY <1>5, <1>7, <1>9, RowsEqual DEF OneBlock
<1>11. ASSUME NEW j \in 1 .. Block, j <= p PROVE BlockOf(two, 2)[j] = x[j]
  <2>1. j \in 1 .. p /\ Block + j \in 1 .. Block + p /\ f + (Block + j) = (f + Block) + j
    BY <1>1, <1>11
  <2>2. two[Block + j] = in[f + (Block + j)]
    BY <1>3, <2>1
  <2> QED BY <1>4, <1>8, <2>1, <2>2
<1>12. ASSUME NEW j \in 1 .. Block, p < j PROVE BlockOf(two, 2)[j] = {}
  <2>1. Block + j \in 1 .. 2 * Block /\ Block + p < Block + j
    BY <1>1, <1>12
  <2> QED BY <1>3, <1>8, <2>1
<1> QED BY <1>3, <1>8, <1>10, <1>11, <1>12 DEF y, x, o, p

LEMMA AddedTwice ==
  ASSUME NEW a, NEW b
  PROVE  XorUnit(XorUnit(a, b), b) = a /\ XorUnit(XorUnit({}, a), {}) = a
BY DEF XorUnit

(* The last units of the message, and the rest of the block before them.     *)
LastIs(tmp, d, n) ==
  /\ OneBlock(tmp)
  /\ \A j \in 1 .. Block : j <= Part(n) => tmp[j] = Message(n)[(First(n) + Block) + j]
  /\ \A j \in 1 .. Block : Part(n) < j => tmp[j] = d[Others(n) + 1][j]
LEMMA LastUnits ==
  ASSUME NEW n, n \in Nat, Block < n, NEW k, k.dir = "dec", NEW iv, NEW d,
         FilledChain(d, k.key, iv, n), NEW in, Stolen(in, d, n),
         NEW two, two = Padded(Rest(in, n)),
         NEW tmp, tmp = Xor(Decrypt(k, BlockOf(two, 1)), BlockOf(two, 2))
  PROVE  LastIs(tmp, d, n)
<1> DEFINE f == First(n)
           o == Others(n)
           p == Part(n)
           y == d[o + 2]
           x == d[o + 1]
           s == Filled(n)
           m == Message(n)
           b == BlockOf(two, 2)
<1>1. /\ o \in Nat /\ f \in Nat /\ p \in 1 .. Block /\ n = (f + Block) + p /\ Block \in Nat \ {0}
      /\ (o + 1) * Block = f + Block
  BY Sizes, StreamAssumption
<1>2. /\ BlockOf(two, 1) = y
      /\ \A j \in 1 .. Block : (j <= p => b[j] = x[j]) /\ (p < j => b[j] = {})
  BY TwoStolen
<1> DEFINE i == o + 2
           h == o + 1
<1>3. i \in 1 .. Others(n) + 2 /\ h = i - 1
  BY <1>1
<1> HIDE DEF i, h
<1>4. Undone(d, k, n, i, h)
  BY <1>3, ChainUndone
<1> DEFINE g == BlockOf(s, i)
<1>5. Decrypt(k, y) = Xor(g, x)
  BY <1>4 DEF Undone, i, h
<1>6. \A j \in 1 .. n : s[j] = m[j]
  BY FilledIs
<1>7. \A j \in 1 .. f + 2 * Block : n < j => s[j] = {}
  BY FilledIs
<1> HIDE DEF f, o, p, x, y, s, m, b
<1>8. i \in Nat \ {0} /\ (i - 1) * Block = f + Block
  <2>1. i - 1 = o + 1 /\ i \in Nat \ {0}
    BY <1>1 DEF i
  <2> QED BY <1>1, <2>1
<1>9. \A j \in 1 .. Block : g[j] = s[(f + Block) + j]
  BY <1>8, BlockIs
<1> HIDE DEF g
<1> DEFINE e == Decrypt(k, y)
<1>10. \A j \in 1 .. Block : e[j] = XorUnit(g[j], x[j])
  BY <1>5, XorIs
<1>11. tmp = Xor(e, b)
  BY <1>2, Zenon DEF b
<1> HIDE DEF e
<1>12. OneBlock(tmp) /\ \A j \in 1 .. Block : tmp[j] = XorUnit(e[j], b[j])
  BY <1>11, XorIs
<1>13. ASSUME NEW j \in 1 .. Block, j <= p PROVE tmp[j] = m[(f + Block) + j]
  <2>1. (f + Block) + j \in 1 .. n
    BY <1>1, <1>13
  <2>2. g[j] = m[(f + Block) + j]
    BY <1>6, <1>9, <2>1
  <2>3. tmp[j] = XorUnit(XorUnit(g[j], x[j]), x[j])
    BY <1>2, <1>10, <1>12, <1>13
  <2> QED BY <2>2, <2>3, AddedTwice
<1>14. ASSUME NEW j \in 1 .. Block, p < j PROVE tmp[j] = x[j]
  <2>1. (f + Block) + j \in 1 .. f + 2 * Block /\ n < (f + Block) + j
    BY <1>1, <1>14
  <2>2. g[j] = {}
    BY <1>7, <1>9, <2>1
  <2>3. tmp[j] = XorUnit(XorUnit({}, x[j]), {})
    BY <1>2, <1>10, <1>12, <1>14, <2>2
  <2> QED BY <2>3, AddedTwice
<1> QED BY <1>12, <1>13, <1>14 DEF LastIs, p, m, f, x, o

(* The block before the last, put together again.                            *)
Slice(s, a, b) == SubSeq(s, a, b)
SliceAt(x, s, a, l) == Row(x, l) /\ \A i \in 1 .. l : x[i] = s[a + i]
LEMMA SliceIs ==
  ASSUME NEW s, NEW a, NEW b, NEW c, NEW l, a \in Nat, b \in Nat, l \in Nat, b = a + l, c = a + 1
  PROVE  SliceAt(Slice(s, c, b), s, a, l)
<1> DEFINE x == SubSeq(s, c, b)
<1>1. c \in Nat \ {0} /\ b \in Int /\ c <= b + 1 /\ (b - c) + 1 = l
      /\ \A i \in 1 .. l : (c + i) - 1 = a + i
  OBVIOUS
<1>2. Slice(s, c, b) = x
  BY DEF Slice
<1>3. Row(x, (b - c) + 1) /\ \A i \in 1 .. (b - c) + 1 : x[i] = s[(c + i) - 1]
  BY <1>1, SubRow
<1> HIDE DEF x
<1>4. Row(x, l) /\ \A i \in 1 .. l : x[i] = s[(c + i) - 1]
  BY <1>1, <1>3
<1>5. \A i \in 1 .. l : x[i] = s[a + i]
  BY <1>1, <1>4
<1> QED BY <1>2, <1>4, <1>5 DEF SliceAt

(* Two blocks with the end of one that was decrypted in the place of zeros.  *)
FullOf(two, tmp, p) == Join(Join(Taken(two, Block + p), Slice(tmp, p + 1, Block)), Zero)
LEMMA BlockBefore ==
  ASSUME NEW two, NEW tmp, NEW p, p \in 1 .. Block, NEW x, OneBlock(x),
         \A j \in 1 .. Block : j <= p => two[Block + j] = x[j],
         \A j \in 1 .. Block : p < j => tmp[j] = x[j]
  PROVE  BlockOf(FullOf(two, tmp, p), 2) = x
<1> DEFINE l == Block + p
           u == Block - p
           a == Taken(two, l)
           v == Slice(tmp, p + 1, Block)
           w == Join(a, v)
           full == Join(w, Zero)
<1>1. p \in Nat /\ Block \in Nat \ {0} /\ l \in Nat /\ u \in Nat /\ Block = p + u /\ l + u = 2 * Block
  BY StreamAssumption
<1>2. Row(a, l) /\ \A i \in 1 .. l : a[i] = two[i]
  <2> HIDE DEF l
  <2> QED BY <1>1, TakenIs
<1>3. Row(v, u) /\ \A i \in 1 .. u : v[i] = tmp[p + i]
  <2> DEFINE b == Block
             c == p + 1
  <2>1. b \in Nat /\ b = p + u /\ c = p + 1 /\ p \in Nat /\ u \in Nat
    BY <1>1
  <2> HIDE DEF b, c, u
  <2>2. SliceAt(Slice(tmp, c, b), tmp, p, u)
    BY <2>1, SliceIs
  <2> QED BY <2>2 DEF SliceAt, b, c
<1> HIDE DEF a, v
<1>4. /\ Row(w, l + u) /\ \A i \in 1 .. l : w[i] = a[i]
      /\ \A i \in 1 .. u : w[l + i] = v[i]
  <2> HIDE DEF l, u
  <2> QED BY <1>2, <1>3, Cat
<1> HIDE DEF w
<1>5. Row(Zero, Block)
  BY <1>1 DEF Zero, Row
<1>6. \A i \in 1 .. l + u : full[i] = w[i]
  <2> DEFINE q == l + u
  <2>1. Row(w, q)
    BY <1>4
  <2> HIDE DEF q
  <2> DEFINE z == Zero
             b == Block
  <2>2. Row(z, b)
    BY <1>5
  <2> HIDE DEF z, b, full
  <2>3. /\ Row(Join(w, z), q + b) /\ \A i \in 1 .. q : Join(w, z)[i] = w[i]
        /\ \A i \in 1 .. b : Join(w, z)[q + i] = z[i]
    BY <2>1, <2>2, Cat
  <2>4. \A i \in 1 .. q : Join(w, z)[i] = w[i]
    BY <2>3
  <2> QED BY <2>4 DEF q, z, full
<1>7. FullOf(two, tmp, p) = full
  BY DEF FullOf, w, a, v
<1> HIDE DEF full
<1>8. (2 - 1) * Block = Block
  BY <1>1
<1>9. Row(BlockOf(full, 2), Block) /\ \A j \in 1 .. Block : BlockOf(full, 2)[j] = full[Block + j]
  BY <1>8, BlockIs
<1>10. ASSUME NEW j \in 1 .. Block PROVE BlockOf(full, 2)[j] = x[j]
  <2>1. CASE j <= p
    <3>1. Block + j \in 1 .. l /\ Block + j \in 1 .. l + u
      BY <1>1, <2>1
    <3> QED BY <1>2, <1>4, <1>6, <1>9, <2>1, <3>1
  <2>2. CASE p < j
    <3>1. j - p \in 1 .. u /\ p + (j - p) = j /\ l + (j - p) = Block + j /\ Block + j \in 1 .. l + u
      BY <1>1, <2>2
    <3>2. w[l + (j - p)] = v[j - p] /\ v[j - p] = tmp[p + (j - p)]
      BY <1>3, <1>4, <3>1
    <3>3. full[Block + j] = w[Block + j]
      BY <1>6, <3>1
    <3> QED BY <1>9, <2>2, <3>1, <3>2, <3>3
  <2> QED BY <1>1, <2>1, <2>2
<1>11. BlockOf(full, 2) = x
  BY <1>9, <1>10, RowsEqual DEF OneBlock
<1> QED BY <1>7, <1>11

(* The message, from the blocks before the last two and from those.          *)
LEMMA PutTogether ==
  ASSUME NEW n, n \in Nat, Block < n, NEW x, Row(x, First(n)),
         \A i \in 1 .. Others(n) : BlockOf(x, i) = BlockOf(Filled(n), i),
         NEW last, last = BlockOf(Filled(n), Others(n) + 1),
         NEW z, Row(z, Part(n)), \A j \in 1 .. Part(n) : z[j] = Message(n)[(First(n) + Block) + j]
  PROVE  Taken(Join(Join(x, last), z), n) = Message(n)
<1> DEFINE o == Others(n)
           f == First(n)
           p == Part(n)
           s == Filled(n)
           m == Message(n)
           e == Start(m, n)
           a == Join(x, last)
           b == Join(a, z)
<1>1. /\ o \in Nat /\ f \in Nat /\ p \in 1 .. Block /\ n = (f + Block) + p /\ Block \in Nat \ {0}
      /\ f = o * Block
  BY Sizes, StreamAssumption DEF First
<1>2. /\ Row(e, f) /\ \A i \in 1 .. f : e[i] = m[i]
      /\ \A i \in 1 .. o : BlockOf(e, i) = BlockOf(s, i)
  BY FirstBlocks
<1>3. /\ Row(x, f) /\ Row(z, p) /\ last = BlockOf(s, o + 1)
      /\ \A j \in 1 .. p : z[j] = m[(f + Block) + j]
      /\ \A i \in 1 .. o : BlockOf(x, i) = BlockOf(s, i)
  OBVIOUS
<1>4. Row(m, n) /\ \A i \in 1 .. n : s[i] = m[i]
  BY FilledIs
<1> HIDE DEF o, f, p, s, m, e
<1>5. x = e
  <2>1. \A i \in 1 .. o : BlockOf(x, i) = BlockOf(e, i)
    <3> TAKE i \in 1 .. o
    <3>1. BlockOf(x, i) = BlockOf(s, i)
      BY <1>3
    <3>2. BlockOf(e, i) = BlockOf(s, i)
      BY <1>2
    <3> QED BY <3>1, <3>2
  <2>2. Row(x, o * Block) /\ Row(e, o * Block)
    BY <1>1, <1>2, <1>3
  <2> QED BY <1>1, <2>1, <2>2, BlocksEqual
<1>6. Row(last, Block) /\ \A j \in 1 .. Block : last[j] = s[f + j]
  <2> DEFINE i == o + 1
  <2>1. i \in Nat \ {0} /\ (i - 1) * Block = f
    BY <1>1
  <2> HIDE DEF i
  <2>2. Row(BlockOf(s, i), Block) /\ \A j \in 1 .. Block : BlockOf(s, i)[j] = s[f + j]
    BY <2>1, BlockIs
  <2> QED BY <1>3, <2>2 DEF i
<1>7. /\ Row(a, f + Block) /\ \A i \in 1 .. f : a[i] = x[i]
      /\ \A i \in 1 .. Block : a[f + i] = last[i]
  BY <1>3, <1>6, Cat
<1> HIDE DEF a
<1>8. /\ Row(b, n) /\ \A i \in 1 .. f + Block : b[i] = a[i]
      /\ \A i \in 1 .. p : b[(f + Block) + i] = z[i]
  <2> DEFINE l == f + Block
  <2>1. Row(a, l) /\ Row(z, p) /\ n = l + p
    BY <1>1, <1>3, <1>7
  <2> HIDE DEF l
  <2>3. Row(b, l + p) /\ \A i \in 1 .. l : b[i] = a[i]
    BY <2>1, Cat
  <2>4. \A i \in 1 .. p : b[l + i] = z[i]
    BY <2>1, Cat
  <2> QED BY <2>1, <2>3, <2>4 DEF l
<1> HIDE DEF b
<1>9. ASSUME NEW i \in 1 .. n PROVE b[i] = m[i]
  <2>1. CASE i <= f
    <3>1. i \in 1 .. f /\ i \in 1 .. f + Block
      BY <1>1, <2>1
    <3> QED BY <1>2, <1>5, <1>7, <1>8, <3>1
  <2>2. CASE f < i /\ i <= f + Block
    <3>1. i - f \in 1 .. Block /\ f + (i - f) = i /\ i \in 1 .. f + Block
      BY <1>1, <2>2
    <3>2. a[f + (i - f)] = last[i - f] /\ last[i - f] = s[f + (i - f)]
      BY <1>6, <1>7, <3>1
    <3> QED BY <1>4, <1>8, <3>1, <3>2
  <2>3. CASE f + Block < i
    <3>1. i - (f + Block) \in 1 .. p /\ (f + Block) + (i - (f + Block)) = i
      BY <1>1, <2>3
    <3> QED BY <1>3, <1>8, <3>1
  <2> QED BY <1>1, <2>1, <2>2, <2>3
<1>10. b = m
  BY <1>4, <1>8, <1>9, RowsEqual
<1> DEFINE t == Taken(m, n)
<1>11. t = m
  <2>1. Row(t, n) /\ \A i \in 1 .. n : t[i] = m[i]
    BY TakenIs
  <2> HIDE DEF t
  <2> QED BY <1>4, <2>1, RowsEqual
<1>12. Taken(b, n) = m
  BY <1>10, <1>11
<1> QED BY <1>12 DEF b, a, m

(* What CTS decrypts is what CS3 made of the message.                        *)
LEMMA CtsDecryptIs ==
  ASSUME NEW n, n \in Nat, Block < n, NEW c, c.aes.dir = "dec",
         NEW made, made = Cs3(c.aes.key, c.iv, n), NEW r, r = CtsDecrypt(c, made.out)
  PROVE  \E reg : CtsGives(r, c, n, made, Message(n), reg)
<1> DEFINE in == made.out
           k == c.aes
           iv == c.iv
           o == Others(n)
           f == First(n)
           p == Part(n)
           first == FirstBack(k, iv, in, n)
           rest == Rest(in, n)
           two == Padded(rest)
           one == BlockOf(two, 1)
           tmp == Xor(Decrypt(k, one), BlockOf(two, 2))
           full == FullOf(two, tmp, p)
           mid == BlockOf(full, 2)
           last == Xor(Decrypt(k, mid), first.reg)
           z == Taken(tmp, p)
           out == Taken(Join(Join(first.out, last), z), n)
<1>1. /\ o \in Nat /\ f \in Nat /\ p \in 1 .. Block /\ n = f + Block + p
      /\ Block \in Nat \ {0} /\ p = IF n % Block = 0 THEN Block ELSE n % Block
  BY Sizes, StreamAssumption
<1>2. PICK d : FilledChain(d, k.key, iv, n) /\ made.reg = d[o + 2] /\ Stolen(in, d, n)
  BY Cs3Is DEF FilledChain
<1>3. Len(in) = n /\ Row(in, n)
  BY <1>2, RowIs DEF Stolen
<1>4. r = [ok |-> TRUE, out |-> out, c |-> [c EXCEPT !.iv = one, !.aes.reg = mid]]
  <2> DEFINE b0 == Others(Len(in))
             most0 == IF b0 > 0 THEN b0 * Block ELSE 0
             first0 == IF b0 > 0 THEN CbcDecrypt(c.aes, c.iv, SubSeq(in, 1, most0))
                       ELSE [out |-> <<>>, reg |-> c.iv]
             rest0 == SubSeq(in, most0 + 1, Len(in))
             partial0 == IF Len(in) % Block = 0 THEN Block ELSE Len(in) % Block
             two0 == Padded(rest0)
             tmp0 == Xor(Decrypt(c.aes, BlockOf(two0, 1)), BlockOf(two0, 2))
             full0 == SubSeq(two0, 1, Len(rest0)) \o SubSeq(tmp0, partial0 + 1, Block) \o Zero
             last0 == Xor(Decrypt(c.aes, BlockOf(full0, 2)), first0.reg)
             out0 == SubSeq(first0.out \o last0 \o SubSeq(tmp0, 1, partial0), 1, Len(in))
  <2>1. CtsDecrypt(c, in) =
          [ok |-> TRUE, out |-> out0,
           c |-> [c EXCEPT !.iv = BlockOf(two0, 1), !.aes.reg = BlockOf(full0, 2)]]
    BY Zenon DEF CtsDecrypt
  <2>2. b0 = o /\ most0 = f
    <3>1. b0 = o
      BY <1>3
    <3> HIDE DEF b0
    <3>2. CASE o > 0
      BY <3>1, <3>2 DEF First
    <3>3. CASE ~(o > 0)
      <4>1. o = 0
        BY <1>1, <3>3
      <4> QED BY <1>1, <3>1, <4>1 DEF First
    <3> QED BY <3>1, <3>2, <3>3
  <2> HIDE DEF b0, most0
  <2>3. first0 = first
    <3>1. SubSeq(in, 1, most0) = Start(in, n)
      BY <2>2, Zenon DEF Start
    <3> QED BY <2>2, <3>1, Zenon DEF FirstBack
  <2> HIDE DEF first0, first
  <2>4. rest0 = rest
    BY <1>3, <2>2, Zenon DEF Rest
  <2>5. partial0 = p
    BY <1>1, <1>3
  <2> HIDE DEF rest0, rest, partial0
  <2>6. Len(rest0) = Block + p
    BY <1>3, <2>4, LastTwo DEF rest
  <2>7. two0 = two
    BY <2>4, Zenon
  <2> HIDE DEF two0, two
  <2>8. tmp0 = tmp /\ BlockOf(two0, 1) = one
    BY <2>7, Zenon
  <2> HIDE DEF tmp0, tmp, one
  <2>9. full0 = full
    BY <2>5, <2>6, <2>7, <2>8, Zenon DEF FullOf, Join, Taken, Slice
  <2> HIDE DEF full0, full
  <2>10. BlockOf(full0, 2) = mid
    BY <2>9, Zenon
  <2>11. last0 = last
    BY <2>3, <2>10, Zenon
  <2> HIDE DEF last0, last, mid
  <2>12. out0 = out
    BY <1>3, <2>3, <2>5, <2>8, <2>11, Zenon DEF Join, Taken
  <2> HIDE DEF out0, out
  <2> QED BY <2>1, <2>8, <2>10, <2>12, Zenon
<1> HIDE DEF in
<1>5. k.dir = "dec"
  OBVIOUS
<1> HIDE DEF k, iv
<1>6. /\ Row(first.out, f) /\ first.reg = d[o]
      /\ \A i \in 1 .. o : BlockOf(first.out, i) = BlockOf(Filled(n), i)
  <2>1. first = FirstBack(k, iv, in, n)
    OBVIOUS
  <2> HIDE DEF first
  <2> QED BY <1>2, <1>5, <2>1, FirstDecrypted
<1> HIDE DEF first
<1>7. /\ one = d[o + 2]
      /\ \A j \in 1 .. Block : j <= p => two[Block + j] = d[o + 1][j]
  <2>1. two = Padded(Rest(in, n))
    OBVIOUS
  <2> HIDE DEF two
  <2> QED BY <1>2, <2>1, TwoStolen
<1>8. /\ OneBlock(tmp)
      /\ \A j \in 1 .. Block : j <= p => tmp[j] = Message(n)[(f + Block) + j]
      /\ \A j \in 1 .. Block : p < j => tmp[j] = d[o + 1][j]
  <2>1. two = Padded(Rest(in, n))
    OBVIOUS
  <2> HIDE DEF two
  <2>2. tmp = Xor(Decrypt(k, BlockOf(two, 1)), BlockOf(two, 2))
    OBVIOUS
  <2> HIDE DEF tmp
  <2>3. LastIs(tmp, d, n)
    BY <1>2, <1>5, <2>1, <2>2, LastUnits
  <2> QED BY <2>3 DEF LastIs
<1> HIDE DEF one, two, tmp
<1> DEFINE x == d[o + 1]
<1>9. OneBlock(x)
  <2>1. o + 1 \in 1 .. o + 2
    BY <1>1
  <2> QED BY <1>2, <2>1, ChainWhole DEF FilledChain
<1>10. mid = x
  <2>1. /\ \A j \in 1 .. Block : j <= p => two[Block + j] = x[j]
        /\ \A j \in 1 .. Block : p < j => tmp[j] = x[j]
    BY <1>7, <1>8
  <2> HIDE DEF x
  <2> QED BY <1>1, <1>9, <2>1, BlockBefore
<1> HIDE DEF full, mid
<1>11. last = BlockOf(Filled(n), o + 1)
  <2> DEFINE i == o + 1
  <2>1. i \in 1 .. Others(n) + 2 /\ o = i - 1
    BY <1>1
  <2> HIDE DEF i, o
  <2>2. Undone(d, k, n, i, o)
    BY <1>2, <1>5, <2>1, ChainUndone
  <2>3. Xor(Decrypt(k, x), d[o]) = BlockOf(Filled(n), i)
    BY <2>2 DEF Undone, i
  <2> QED BY <1>6, <1>10, <2>3, Zenon DEF i
<1>12. Row(z, p) /\ \A j \in 1 .. p : z[j] = Message(n)[(f + Block) + j]
  <2>1. p \in Nat /\ \A j \in 1 .. p : j \in 1 .. Block /\ j <= p
    BY <1>1
  <2> HIDE DEF p
  <2>2. Row(z, p) /\ \A j \in 1 .. p : z[j] = tmp[j]
    BY <2>1, TakenIs
  <2> QED BY <1>8, <2>1, <2>2
<1> HIDE DEF last, z
<1>13. out = Message(n)
  BY <1>6, <1>11, <1>12, PutTogether
<1>14. one = made.reg
  BY <1>2, <1>7, Zenon
<1>15. r = [ok |-> TRUE, out |-> Message(n), c |-> [c EXCEPT !.iv = made.reg, !.aes.reg = mid]]
  BY <1>4, <1>13, <1>14, Zenon
<1> QED BY <1>15, Zenon DEF CtsGives

(* The parts of a context, and of what the program means with it.            *)
CtxShape(c) ==
  /\ c \in [made : BOOLEAN, enc : BOOLEAN, iv : {c.iv}, oiv : {c.oiv}, ivSet : BOOLEAN,
            aes : {c.aes}, updated : BOOLEAN]
  /\ c.aes \in [key : {c.aes.key}, dir : {c.aes.dir}, reg : {c.aes.reg}, left : {c.aes.left}]
WantShape(w) ==
  w \in [key : {w.key}, enc : BOOLEAN, iv : {w.iv}, oiv : {w.oiv}, place : Nat, done : BOOLEAN,
         chain : {w.chain}]

(* Context and program agree.  In CTR and CFB the blocks made from the IV    *)
(* end where the message is, with left units to spare.  In CTS the IV is the *)
(* one the next message starts from, and the object of a context that        *)
(* encrypts has it, too.  A wrap has no IV.                                  *)
KeystreamAgrees(c, w) ==
  /\ w.oiv \in [name : {w.oiv.name}, n : {0}]
  /\ c.iv \in [name : {w.oiv.name}, n : {c.iv.n}]
  /\ Made(c.iv.n, c.aes.left, w.place)
Turned(c, w) == w.key # NoName => c.aes.dir = IF w.enc THEN "enc" ELSE "dec"
CtsAgrees(c, w) ==
  /\ c.iv = w.iv /\ c.updated = w.done /\ Turned(c, w)
  /\ w.key = NoName => w.iv = Zero
  /\ w.key # NoName /\ w.enc => c.aes.reg = c.iv
WrapAgrees(c, w) == w.iv = NoName /\ c.ivSet = FALSE /\ Turned(c, w)
Agrees(m, c, w) ==
  /\ CtxShape(c) /\ WantShape(w) /\ c.enc = w.enc /\ c.aes.key = w.key
  /\ m \in {"ctr", "cfb"} => KeystreamAgrees(c, w)
  /\ m = "cts" => CtsAgrees(c, w)
  /\ m = "wrap" => WrapAgrees(c, w)
StreamInv ==
  /\ stream \in {"ctr", "cfb", "cts", "wrap"}
  /\ sctx = [s \in StreamCtxs |-> sctx[s]] /\ want = [s \in StreamCtxs |-> want[s]]
  /\ \A s \in StreamCtxs : Agrees(stream, sctx[s], want[s])
  /\ outcome.got = outcome.due

------------------------------------------------------------------------------
(* An IV set, and a context and a program that have none.                    *)
CtsIv(name) == IF name = NoName THEN Zero ELSE Through("iv", name, <<>>)
LEMMA IvIs ==
  ASSUME NEW name
  PROVE  /\ stream \in {"ctr", "cfb"} => IvOf(name) = [name |-> name, n |-> 0]
         /\ stream = "cts" => IvOf(name) = CtsIv(name)
         /\ stream = "wrap" => IvOf(name) = name
<1>1. IvOf(name) = CASE stream = "cts" -> CtsIv(name)
                     [] stream = "wrap" -> name
                     [] OTHER -> [name |-> name, n |-> 0]
  BY Zenon DEF IvOf, CtsIv, NoName
<1> QED BY <1>1

LEMMA FreshAgrees ==
  ASSUME stream \in {"ctr", "cfb", "cts", "wrap"}
  PROVE  Agrees(stream, CtxOf0, Want0)
<1> DEFINE iv == IvOf(NoName)
           a == [key |-> NoName, dir |-> NoName, reg |-> iv, left |-> 0]
           c == [made |-> FALSE, enc |-> TRUE, iv |-> iv, oiv |-> iv, ivSet |-> FALSE,
                 aes |-> a, updated |-> FALSE]
           w == [key |-> NoName, enc |-> TRUE, iv |-> iv, oiv |-> iv, place |-> 0, done |-> FALSE,
                 chain |-> 0]
<1>1. CtxOf0 = c /\ Want0 = w
  BY Zenon DEF CtxOf0, Aes0, Want0, NoName
<1>2. /\ stream \in {"ctr", "cfb"} => iv = [name |-> NoName, n |-> 0]
      /\ stream = "cts" => iv = Zero
      /\ stream = "wrap" => iv = NoName
  <2>1. CtsIv(NoName) = Zero
    BY DEF CtsIv
  <2> QED BY <2>1, IvIs
<1> HIDE DEF iv, NoName
<1>3. CtxShape(c) /\ WantShape(w)
  BY DEF CtxShape, WantShape
<1>4. /\ c.enc = w.enc /\ c.aes.key = w.key /\ c.aes.left = 0 /\ c.iv = iv /\ w.iv = iv /\ w.oiv = iv
      /\ w.place = 0 /\ c.updated = w.done /\ w.key = NoName /\ c.ivSet = FALSE
  OBVIOUS
<1> HIDE DEF a, c, w
<1>5. stream \in {"ctr", "cfb"} => KeystreamAgrees(c, w)
  <2> SUFFICES ASSUME stream \in {"ctr", "cfb"} PROVE KeystreamAgrees(c, w)
    OBVIOUS
  <2>1. iv = [name |-> NoName, n |-> 0]
    BY <1>2
  <2>2. Made(0, 0, 0)
    BY StreamAssumption DEF Made
  <2> QED BY <1>4, <2>1, <2>2 DEF KeystreamAgrees
<1>6. Turned(c, w)
  BY <1>4 DEF Turned
<1> QED BY <1>1, <1>2, <1>3, <1>4, <1>5, <1>6 DEF Agrees, CtsAgrees, WrapAgrees

(* What a call of Initialize sets.                                           *)
StreamSet(r, b, key, iv, enc) ==
  /\ CtxShape(r) /\ r.enc = enc /\ r.updated = FALSE
  /\ r.iv = IF iv = NoName THEN b.iv ELSE IvOf(iv)
  /\ key = NoName => /\ r.aes.key = b.aes.key /\ r.aes.dir = b.aes.dir
                     /\ r.aes.reg = b.aes.reg /\ r.aes.left = 0
  /\ key # NoName => /\ r.aes.key = key /\ r.aes.reg = IvOf(iv) /\ r.aes.left = 0
                     /\ stream = "cts" => r.aes.dir = IF enc THEN "enc" ELSE "dec"
LEMMA StreamIsSet ==
  ASSUME NEW b, CtxShape(b), NEW key, NEW iv, NEW enc \in BOOLEAN,
         NEW c, c = [b EXCEPT !.made = TRUE], NEW r, r = InitStream(c, key, iv, enc)
  PROVE  StreamSet(r, b, key, iv, enc)
<1> DEFINE c0 == [c EXCEPT !.enc = enc]
           v == IvOf(iv)
           c1 == IF iv = NoName THEN c0 ELSE [c0 EXCEPT !.iv = v, !.oiv = v]
           dir == IF stream = "cts" /\ ~enc THEN "dec" ELSE "enc"
           a == IF key = NoName THEN [c1.aes EXCEPT !.left = 0]
                ELSE [key |-> key, dir |-> dir, reg |-> v, left |-> 0]
<1>1. r = [c1 EXCEPT !.aes = a, !.updated = FALSE]
  BY Zenon DEF InitStream, InitIv, NoName
<1> HIDE DEF NoName, v, dir
<1>2. /\ c \in [made : BOOLEAN, enc : BOOLEAN, iv : {b.iv}, oiv : {b.oiv}, ivSet : BOOLEAN,
               aes : {b.aes}, updated : BOOLEAN]
  BY DEF CtxShape
<1>3. c0 \in [made : BOOLEAN, enc : BOOLEAN, iv : {b.iv}, oiv : {b.oiv}, ivSet : BOOLEAN,
              aes : {b.aes}, updated : BOOLEAN] /\ c0.enc = enc
  BY <1>2
<1> HIDE DEF c0
<1> DEFINE i == IF iv = NoName THEN b.iv ELSE v
           o == IF iv = NoName THEN b.oiv ELSE v
<1>4. c1 \in [made : BOOLEAN, enc : BOOLEAN, iv : {i}, oiv : {o}, ivSet : BOOLEAN,
              aes : {b.aes}, updated : BOOLEAN] /\ c1.enc = enc
  BY <1>3
<1> HIDE DEF c1, i, o
<1>5. /\ a \in [key : {a.key}, dir : {a.dir}, reg : {a.reg}, left : {a.left}] /\ a.left = 0
      /\ key = NoName => a.key = b.aes.key /\ a.dir = b.aes.dir /\ a.reg = b.aes.reg
      /\ key # NoName => a.key = key /\ a.reg = v /\ a.dir = dir
  <2>1. c1.aes = b.aes
    BY <1>4
  <2>2. b.aes \in [key : {b.aes.key}, dir : {b.aes.dir}, reg : {b.aes.reg}, left : {b.aes.left}]
    BY DEF CtxShape
  <2> QED BY <2>1, <2>2
<1> HIDE DEF a
<1>6. /\ r \in [made : BOOLEAN, enc : BOOLEAN, iv : {i}, oiv : {o}, ivSet : BOOLEAN,
               aes : {a}, updated : BOOLEAN]
      /\ r.enc = enc /\ r.aes = a /\ r.iv = i /\ r.oiv = o /\ r.updated = FALSE
  BY <1>1, <1>4
<1>7. CtxShape(r)
  BY <1>5, <1>6 DEF CtxShape
<1>8. stream = "cts" => dir = IF enc THEN "enc" ELSE "dec"
  BY DEF dir
<1> QED BY <1>5, <1>6, <1>7, <1>8 DEF StreamSet, i, v

WrapSet(r, b, key, enc) ==
  /\ CtxShape(r) /\ r.enc = enc /\ r.ivSet = b.ivSet
  /\ key = NoName => r.aes = b.aes
  /\ key # NoName => /\ r.aes.key = key /\ r.aes.dir = IF enc THEN "enc" ELSE "dec"
LEMMA WrapIsSet ==
  ASSUME NEW b, CtxShape(b), NEW key, NEW iv, iv = NoName, NEW enc \in BOOLEAN,
         NEW c, c = [b EXCEPT !.made = TRUE], NEW r, r = InitWrap(c, key, iv, enc)
  PROVE  WrapSet(r, b, key, enc)
<1> DEFINE dir == IF enc THEN "enc" ELSE "dec"
           c1 == IF iv = NoName THEN c ELSE [c EXCEPT !.iv = iv]
           a == IF key = NoName THEN c1.aes ELSE [key |-> key, dir |-> dir, reg |-> iv, left |-> 0]
<1>1. r = [c1 EXCEPT !.enc = enc, !.aes = a]
  BY Zenon DEF InitWrap, NoName
<1> HIDE DEF NoName, dir
<1>2. c1 = c
  OBVIOUS
<1> HIDE DEF c1
<1>3. /\ c \in [made : BOOLEAN, enc : BOOLEAN, iv : {b.iv}, oiv : {b.oiv}, ivSet : {b.ivSet},
               aes : {b.aes}, updated : BOOLEAN] /\ b.ivSet \in BOOLEAN
  BY DEF CtxShape
<1>4. /\ a \in [key : {a.key}, dir : {a.dir}, reg : {a.reg}, left : {a.left}]
      /\ key = NoName => a = b.aes
      /\ key # NoName => a.key = key /\ a.dir = dir
  <2>1. b.aes \in [key : {b.aes.key}, dir : {b.aes.dir}, reg : {b.aes.reg}, left : {b.aes.left}]
    BY DEF CtxShape
  <2> QED BY <1>2, <1>3, <2>1
<1> HIDE DEF a
<1>5. /\ r \in [made : BOOLEAN, enc : BOOLEAN, iv : {b.iv}, oiv : {b.oiv}, ivSet : {b.ivSet},
               aes : {a}, updated : BOOLEAN]
      /\ r.enc = enc /\ r.aes = a /\ r.ivSet = b.ivSet /\ r.iv = b.iv /\ r.oiv = b.oiv
  BY <1>1, <1>2, <1>3
<1>6. CtxShape(r)
  BY <1>3, <1>4, <1>5 DEF CtxShape
<1> QED BY <1>4, <1>5, <1>6 DEF WrapSet, dir

WantSet(v, w, key, iv, enc) ==
  /\ WantShape(v) /\ v.enc = enc /\ v.done = FALSE
  /\ v.key = IF key = NoName THEN w.key ELSE key
  /\ iv # NoName => v.iv = IvOf(iv) /\ v.oiv = IvOf(iv) /\ v.place = 0
  /\ iv = NoName => /\ v.oiv = w.oiv /\ (stream # "cfb" => v.iv = w.iv)
                    /\ v.place = IF stream = "cfb" THEN 0
                                 ELSE ((w.place + Block - 1) \div Block) * Block
LEMMA WantIsSet ==
  ASSUME NEW w, WantShape(w), NEW key, NEW iv, NEW enc \in BOOLEAN,
         NEW v, v = Wanting(w, key, iv, enc)
  PROVE  WantSet(v, w, key, iv, enc)
<1> DEFINE from == IF iv # NoName THEN IvOf(iv) ELSE IF stream = "cfb" THEN w.oiv ELSE w.iv
           k == IF key = NoName THEN w.key ELSE key
           o == IF iv = NoName THEN w.oiv ELSE from
           p == CASE iv # NoName \/ stream = "cfb" -> 0
                  [] OTHER -> ((w.place + Block - 1) \div Block) * Block
           h == IF iv = NoName THEN w.chain ELSE 0
<1>1. v = [w EXCEPT !.key = k, !.enc = enc, !.iv = from, !.oiv = o, !.place = p, !.done = FALSE,
                    !.chain = h]
  BY Zenon DEF Wanting, NoName
<1> HIDE DEF NoName
<1>2. w \in [key : {w.key}, enc : BOOLEAN, iv : {w.iv}, oiv : {w.oiv}, place : Nat, done : BOOLEAN,
             chain : {w.chain}]
  BY DEF WantShape
<1>3. p \in Nat
  <2>1. Block \in Nat \ {0} /\ w.place \in Nat
    BY <1>2, StreamAssumption
  <2>2. w.place + Block - 1 \in Nat
    BY <2>1
  <2>3. (w.place + Block - 1) \div Block \in Nat
    BY <2>1, <2>2, Quotient
  <2> DEFINE q == (w.place + Block - 1) \div Block
  <2>4. q * Block \in Nat
    <3>1. q \in Nat
      BY <2>3
    <3> HIDE DEF q
    <3> QED BY <2>1, <3>1
  <2> QED BY <2>4
<1>4. /\ iv # NoName => from = IvOf(iv) /\ o = IvOf(iv) /\ p = 0
      /\ iv = NoName => /\ o = w.oiv /\ (stream # "cfb" => from = w.iv)
                        /\ p = IF stream = "cfb" THEN 0
                               ELSE ((w.place + Block - 1) \div Block) * Block
  OBVIOUS
<1> HIDE DEF from, o, p, h
<1>5. /\ v \in [key : {k}, enc : BOOLEAN, iv : {from}, oiv : {o}, place : Nat, done : BOOLEAN,
                chain : {h}]
      /\ v.key = k /\ v.enc = enc /\ v.iv = from /\ v.oiv = o /\ v.place = p /\ v.done = FALSE
      /\ v.chain = h
  <2> HIDE DEF k
  <2> QED BY <1>1, <1>2, <1>3
<1>6. WantShape(v)
  BY <1>5 DEF WantShape
<1> QED BY <1>4, <1>5, <1>6 DEF WantSet

(* Plain programs keep to the protocol.                                      *)
LEMMA PlainIs ==
  ASSUME StreamHabits = {}, NEW s, NEW key, NEW iv, NEW enc, PlainStream(s, key, iv, enc)
  PROVE  LET w == want[s]
         IN /\ key # NoName \/ w.key # NoName
            /\ stream \in {"cts", "wrap"} /\ key = NoName => enc = w.enc
            /\ stream = "cts" => \/ key # NoName /\ (iv # NoName \/ w.key = NoName)
                                 \/ key = NoName /\ iv = NoName
            /\ stream = "cfb" /\ iv = NoName => ~(w.place > 0)
            /\ stream = "wrap" => iv = NoName
<1> DEFINE w == want[s]
<1>1. /\ key # NoName \/ w.key # NoName
      /\ stream \in {"cts", "wrap"} /\ key = NoName /\ enc # w.enc => "turn" \in StreamHabits
      /\ stream = "cts" /\ ~(key # NoName /\ (iv # NoName \/ w.key = NoName))
           /\ ~(key = NoName /\ iv = NoName) => "apart" \in StreamHabits
      /\ stream = "cfb" /\ w.place > 0 /\ iv = NoName => "cfb_again" \in StreamHabits
      /\ stream = "wrap" /\ iv # NoName => "wrap_iv" \in StreamHabits
  BY Zenon DEF PlainStream, NoName
<1> HIDE DEF w
<1>2. \A x : ~(x \in StreamHabits)
  OBVIOUS
<1> QED BY <1>1, <1>2 DEF w

(* An initialisation, in each mode, and of any.                              *)
LEMMA KeystreamInit ==
  ASSUME NEW b, NEW w, Agrees(stream, b, w), stream \in {"ctr", "cfb"},
         NEW key, NEW iv, NEW enc \in BOOLEAN,
         stream = "cfb" /\ iv = NoName => ~(w.place > 0),
         NEW r, StreamSet(r, b, key, iv, enc), NEW v, WantSet(v, w, key, iv, enc)
  PROVE  Agrees(stream, r, v)
<1>1. /\ CtxShape(r) /\ r.enc = enc /\ r.iv = (IF iv = NoName THEN b.iv ELSE IvOf(iv))
      /\ r.aes.left = 0 /\ r.aes.key = IF key = NoName THEN b.aes.key ELSE key
  BY DEF StreamSet
<1>2. /\ WantShape(v) /\ v.enc = enc /\ v.key = (IF key = NoName THEN w.key ELSE key)
      /\ iv # NoName => v.oiv = IvOf(iv) /\ v.place = 0
      /\ iv = NoName => /\ v.oiv = w.oiv
                        /\ v.place = IF stream = "cfb" THEN 0
                                     ELSE ((w.place + Block - 1) \div Block) * Block
  BY DEF WantSet
<1>3. r.enc = v.enc /\ r.aes.key = v.key
  BY <1>1, <1>2 DEF Agrees
<1>4. KeystreamAgrees(b, w)
  BY DEF Agrees
<1>5. KeystreamAgrees(r, v)
  <2>1. CASE iv # NoName
    <3>1. IvOf(iv) = [name |-> iv, n |-> 0]
      BY IvIs
    <3>2. r.iv = [name |-> iv, n |-> 0] /\ v.oiv = [name |-> iv, n |-> 0] /\ v.place = 0
      BY <1>1, <1>2, <2>1, <3>1
    <3>3. Made(0, 0, 0)
      BY StreamAssumption DEF Made
    <3> QED BY <1>1, <3>2, <3>3 DEF KeystreamAgrees
  <2>2. CASE iv = NoName
    <3> DEFINE n == b.iv.n
               left == b.aes.left
               p == w.place
    <3>1. Made(n, left, p)
      BY <1>4 DEF KeystreamAgrees
    <3>2. p \in Nat
      BY DEF Agrees, WantShape
    <3> HIDE DEF n, left, p
    <3>3. /\ (p + Block - 1) \div Block = n /\ n * Block \in Nat /\ Made(n, 0, n * Block)
      BY <3>1, <3>2, MadeOnce
    <3>4. Made(n, 0, v.place)
      <4>1. CASE stream = "cfb"
        <5>1. p = 0 /\ v.place = 0
          BY <1>2, <2>2, <3>2, <4>1 DEF p
        <5>2. n * Block - left = 0 /\ left \in 0 .. Block - 1 /\ Block \in Nat \ {0} /\ n \in Nat
          BY <3>1, <5>1, StreamAssumption DEF Made
        <5>3. n = 0
          <6> SUFFICES ASSUME n # 0 PROVE FALSE
            OBVIOUS
          <6>1. Block * 0 + Block <= Block * n
            BY <5>2, Multiples
          <6>2. Block * n = n * Block
            BY <5>2
          <6> QED BY <5>2, <6>1, <6>2
        <5>4. n * Block = 0
          BY <5>2, <5>3
        <5> QED BY <3>3, <5>1, <5>4
      <4>2. CASE stream # "cfb"
        <5>1. v.place = ((p + Block - 1) \div Block) * Block
          BY <1>2, <2>2, <4>2 DEF p
        <5> QED BY <3>3, <5>1
      <4> QED BY <4>1, <4>2
    <3> QED BY <1>1, <1>2, <1>4, <2>2, <3>4 DEF KeystreamAgrees, n
  <2> QED BY <2>1, <2>2
<1> QED BY <1>1, <1>2, <1>3, <1>5 DEF Agrees

LEMMA CtsInit ==
  ASSUME NEW b, NEW w, Agrees(stream, b, w), stream = "cts",
         NEW key, NEW iv, NEW enc \in BOOLEAN,
         key # NoName \/ w.key # NoName, key = NoName => enc = w.enc /\ iv = NoName,
         key # NoName => iv # NoName \/ w.key = NoName,
         NEW r, StreamSet(r, b, key, iv, enc), NEW v, WantSet(v, w, key, iv, enc)
  PROVE  Agrees(stream, r, v)
<1>1. /\ CtxShape(r) /\ r.enc = enc /\ r.updated = FALSE
      /\ r.iv = IF iv = NoName THEN b.iv ELSE IvOf(iv)
  BY DEF StreamSet
<1>2. /\ key = NoName => r.aes.key = b.aes.key /\ r.aes.dir = b.aes.dir /\ r.aes.reg = b.aes.reg
      /\ key # NoName => /\ r.aes.key = key /\ r.aes.reg = IvOf(iv)
                         /\ r.aes.dir = IF enc THEN "enc" ELSE "dec"
  BY DEF StreamSet
<1>3. /\ WantShape(v) /\ v.enc = enc /\ v.done = FALSE
      /\ v.key = (IF key = NoName THEN w.key ELSE key)
      /\ v.iv = IF iv = NoName THEN w.iv ELSE IvOf(iv)
  BY DEF WantSet
<1>4. CtsAgrees(b, w) /\ b.aes.key = w.key
  BY DEF Agrees
<1>5. IvOf(NoName) = Zero
  BY IvIs DEF CtsIv
<1>6. v.key # NoName
  BY <1>3
<1>7. CtsAgrees(r, v) /\ r.aes.key = v.key
  <2>1. CASE key = NoName
    <3>1. /\ r.aes.key = w.key /\ r.aes.dir = b.aes.dir /\ r.aes.reg = b.aes.reg
          /\ r.iv = b.iv /\ v.iv = w.iv /\ v.key = w.key /\ v.enc = w.enc
      BY <1>4, <1>1, <1>2, <1>3, <2>1
    <3> QED BY <1>4, <1>6, <1>1, <1>3, <3>1 DEF CtsAgrees, Turned
  <2>2. CASE key # NoName
    <3>1. r.iv = v.iv /\ r.aes.reg = r.iv
      <4>1. CASE iv # NoName
        BY <1>1, <1>2, <1>3, <2>2, <4>1
      <4>2. CASE iv = NoName
        <5>1. w.key = NoName /\ w.iv = Zero /\ b.iv = w.iv
          BY <1>4, <2>2, <4>2 DEF CtsAgrees
        <5> QED BY <1>5, <1>1, <1>2, <1>3, <2>2, <4>2, <5>1
      <4> QED BY <4>1, <4>2
    <3> QED BY <1>6, <1>1, <1>2, <1>3, <2>2, <3>1 DEF CtsAgrees, Turned
  <2> QED BY <2>1, <2>2
<1> QED BY <1>7, <1>1, <1>3 DEF Agrees

LEMMA WrapInit ==
  ASSUME NEW b, NEW w, Agrees(stream, b, w), stream = "wrap",
         NEW key, NEW enc \in BOOLEAN, key = NoName => enc = w.enc,
         NEW r, WrapSet(r, b, key, enc), NEW v, WantSet(v, w, key, NoName, enc)
  PROVE  Agrees(stream, r, v)
<1>1. WrapAgrees(b, w) /\ b.aes.key = w.key
  BY DEF Agrees
<1>2. /\ CtxShape(r) /\ r.enc = enc /\ r.ivSet = b.ivSet
      /\ key = NoName => r.aes = b.aes
      /\ key # NoName => r.aes.key = key /\ r.aes.dir = IF enc THEN "enc" ELSE "dec"
  BY DEF WrapSet
<1>3. /\ WantShape(v) /\ v.enc = enc /\ v.iv = w.iv
      /\ v.key = IF key = NoName THEN w.key ELSE key
  BY DEF WantSet
<1>4. WrapAgrees(r, v) /\ r.aes.key = v.key
  BY <1>1, <1>2, <1>3 DEF WrapAgrees, Turned
<1> QED BY <1>2, <1>3, <1>4 DEF Agrees

(* One context changes.                                                      *)
LEMMA ContextAgrees ==
  ASSUME StreamInv, UNCHANGED stream, NEW s \in StreamCtxs, NEW r, NEW v, Agrees(stream, r, v),
         sctx' = [sctx EXCEPT ![s] = r], want' = [want EXCEPT ![s] = v],
         outcome'.got = outcome'.due
  PROVE  StreamInv'
<1>1. /\ stream' = stream /\ stream \in {"ctr", "cfb", "cts", "wrap"}
      /\ sctx = [x \in StreamCtxs |-> sctx[x]] /\ want = [x \in StreamCtxs |-> want[x]]
      /\ \A x \in StreamCtxs : Agrees(stream, sctx[x], want[x])
  BY DEF StreamInv
<1>2. /\ sctx' = [x \in StreamCtxs |-> sctx'[x]] /\ want' = [x \in StreamCtxs |-> want'[x]]
  BY <1>1
<1>3. ASSUME NEW x \in StreamCtxs PROVE Agrees(stream, sctx'[x], want'[x])
  <2>1. CASE x = s
    <3>1. sctx'[x] = r /\ want'[x] = v
      BY <1>1, <2>1
    <3> QED BY <3>1
  <2>2. CASE x # s
    <3>1. sctx'[x] = sctx[x] /\ want'[x] = want[x]
      BY <1>1, <2>2
    <3> QED BY <1>1, <3>1
  <2> QED BY <2>1, <2>2
<1> QED BY <1>1, <1>2, <1>3 DEF StreamInv

LEMMA InitializeKeeps ==
  ASSUME StreamHabits = {}, StreamInv, NEW s \in StreamCtxs, NEW key, NEW iv, NEW enc \in BOOLEAN,
         NEW params, Initialize(s, key, iv, enc, params)
  PROVE  StreamInv'
<1> DEFINE b == sctx[s]
           w == want[s]
           c == [b EXCEPT !.made = TRUE]
           r == IF stream = "wrap" THEN InitWrap(c, key, iv, enc) ELSE InitStream(c, key, iv, enc)
           ok == StreamParams(r, params)
           v == Wanting(w, key, iv, enc)
           x == IF ok THEN r ELSE CtxOf0
           y == IF ok THEN v ELSE Want0
<1>1. /\ sctx' = [sctx EXCEPT ![s] = x] /\ want' = [want EXCEPT ![s] = y]
      /\ outcome' = NoResult /\ UNCHANGED stream
  <2>1. want[s] = w
    OBVIOUS
  <2> QED BY Zenon DEF Initialize
<1>2. outcome'.got = outcome'.due
  BY <1>1 DEF NoResult
<1>3. PlainStream(s, key, iv, enc)
  BY Zenon DEF Initialize
<1>4. /\ key # NoName \/ w.key # NoName
      /\ stream \in {"cts", "wrap"} /\ key = NoName => enc = w.enc
      /\ stream = "cts" => \/ key # NoName /\ (iv # NoName \/ w.key = NoName)
                           \/ key = NoName /\ iv = NoName
      /\ stream = "cfb" /\ iv = NoName => ~(w.place > 0)
      /\ stream = "wrap" => iv = NoName
  BY <1>3, PlainIs
<1>5. stream \in {"ctr", "cfb", "cts", "wrap"} /\ Agrees(stream, b, w)
  BY DEF StreamInv
<1>6. CtxShape(b) /\ WantShape(w) /\ b.aes.key = w.key
  BY <1>5 DEF Agrees
<1> HIDE DEF b, w
<1>7. WantSet(v, w, key, iv, enc)
  <2>1. v = Wanting(w, key, iv, enc)
    OBVIOUS
  <2> HIDE DEF v
  <2> QED BY <1>6, <2>1, WantIsSet
<1> HIDE DEF v
<1>8. CASE ~ok
  <2>1. Agrees(stream, CtxOf0, Want0)
    BY <1>5, FreshAgrees
  <2>2. x = CtxOf0 /\ y = Want0
    BY <1>8
  <2> HIDE DEF x, y
  <2> QED BY <1>1, <1>2, <2>1, <2>2, ContextAgrees
<1>9. CASE ok
  <2>1. x = r /\ y = v
    BY <1>9
  <2> HIDE DEF ok, x, y
  <2>2. Agrees(stream, r, v)
    <3>1. CASE stream = "wrap"
      <4>1. r = InitWrap(c, key, iv, enc) /\ iv = NoName /\ c = [b EXCEPT !.made = TRUE]
        BY <1>4, <3>1
      <4> HIDE DEF r, c
      <4>2. WrapSet(r, b, key, enc)
        BY <1>6, <4>1, WrapIsSet
      <4>3. WantSet(v, w, key, NoName, enc) /\ (key = NoName => enc = w.enc)
        BY <1>4, <1>7, <3>1, <4>1
      <4> QED BY <1>5, <3>1, <4>2, <4>3, WrapInit
    <3>2. CASE stream # "wrap"
      <4>1. r = InitStream(c, key, iv, enc) /\ c = [b EXCEPT !.made = TRUE]
        BY <3>2
      <4> HIDE DEF r, c
      <4>2. StreamSet(r, b, key, iv, enc)
        BY <1>6, <4>1, StreamIsSet
      <4>3. CASE stream = "cts"
        <5>1. /\ key # NoName \/ w.key # NoName
              /\ key = NoName => enc = w.enc /\ iv = NoName
              /\ key # NoName => iv # NoName \/ w.key = NoName
          BY <1>4, <4>3
        <5> QED BY <1>5, <1>7, <4>2, <4>3, <5>1, CtsInit
      <4>4. CASE stream # "cts"
        <5>1. stream \in {"ctr", "cfb"}
          BY <1>5, <3>2, <4>4
        <5> QED BY <1>4, <1>5, <1>7, <4>2, <5>1, KeystreamInit
      <4> QED BY <4>3, <4>4
    <3> QED BY <3>1, <3>2
  <2> QED BY <1>1, <1>2, <2>1, <2>2, ContextAgrees
<1> QED BY <1>8, <1>9

(* An update of CTR and CFB.                                                 *)
LEMMA UpdateKeystreamKeeps ==
  ASSUME StreamInv, NEW s \in StreamCtxs, NEW n \in Nat, UpdateKeystream(s, n)
  PROVE  StreamInv'
<1> DEFINE c == sctx[s]
           w == want[s]
           obj == [c.aes EXCEPT !.reg = c.iv]
           r == ByChunks(obj, n)
           x == [c EXCEPT !.aes = r.aes, !.iv = r.aes.reg]
           p == w.place
           due == [i \in 1 .. n |-> KeyUnit(w.key, w.oiv, w.place + i - 1)]
           y == [w EXCEPT !.place = p + n]
<1>1. stream \in {"ctr", "cfb"} /\ Agrees(stream, c, w) /\ want = [z \in StreamCtxs |-> want[z]]
  BY DEF UpdateKeystream, StreamInv
<1>2. /\ sctx' = [sctx EXCEPT ![s] = x] /\ want' = [want EXCEPT ![s].place = p + n]
      /\ outcome' = [got |-> r.out, due |-> due] /\ UNCHANGED stream
  <2>1. /\ sctx' = [sctx EXCEPT ![s] = DoitKeystream(c, n).c] /\ want' = [want EXCEPT ![s].place = p + n]
        /\ outcome' = [got |-> DoitKeystream(c, n).out, due |-> due] /\ UNCHANGED stream
    BY DEF UpdateKeystream
  <2>2. DoitKeystream(c, n) = [ok |-> TRUE, out |-> r.out, c |-> x]
    BY Zenon DEF DoitKeystream
  <2> HIDE DEF r, x, due
  <2>3. DoitKeystream(c, n).c = x /\ DoitKeystream(c, n).out = r.out
    BY <2>2
  <2> QED BY <2>1, <2>3, Zenon
<1>3. want' = [want EXCEPT ![s] = y]
  BY <1>1, <1>2
<1>4. KeystreamAgrees(c, w) /\ CtxShape(c) /\ WantShape(w) /\ c.enc = w.enc /\ c.aes.key = w.key
  BY <1>1 DEF Agrees
<1> DEFINE k == w.key
           name == w.oiv.name
<1>5. p \in Nat
  BY <1>4 DEF WantShape
<1>6. StandsAt(obj, k, name, p)
  <2>1. /\ obj \in [key : {c.aes.key}, dir : {c.aes.dir}, reg : {c.iv}, left : {c.aes.left}]
        /\ obj.reg = c.iv /\ obj.left = c.aes.left /\ obj.dir = c.aes.dir
    BY <1>4 DEF CtxShape
  <2> HIDE DEF obj
  <2> QED BY <1>4, <2>1 DEF StandsAt, KeystreamAgrees
<1>7. due = Units(k, name, p, n)
  BY DEF Units, KeyUnit
<1> HIDE DEF obj, p, k, name, due
<1>8. r = [out |-> Units(k, name, p, n), aes |-> r.aes] /\ StandsAt(r.aes, k, name, p + n)
  BY <1>5, <1>6, ChunksAre
<1> DEFINE a == r.aes
           u == Units(k, name, p, n)
<1>9. r.out = u /\ StandsAt(a, k, name, p + n)
  <2> HIDE DEF r, u
  <2> QED BY <1>8 DEF u
<1>10. x = [c EXCEPT !.aes = a, !.iv = a.reg]
  OBVIOUS
<1>11. outcome'.got = outcome'.due
  BY <1>2, <1>7, <1>9
<1> HIDE DEF r, a, u, x
<1>12. /\ a \in [key : {k}, dir : {a.dir}, reg : {a.reg}, left : {a.left}]
       /\ a.reg \in [name : {name}, n : {a.reg.n}] /\ Made(a.reg.n, a.left, p + n)
  BY <1>9 DEF StandsAt
<1>13. /\ x \in [made : BOOLEAN, enc : BOOLEAN, iv : {a.reg}, oiv : {c.oiv}, ivSet : BOOLEAN,
                aes : {a}, updated : BOOLEAN]
       /\ x.enc = c.enc /\ x.aes = a /\ x.iv = a.reg
  BY <1>4, <1>10 DEF CtxShape
<1>14. CtxShape(x)
  BY <1>12, <1>13 DEF CtxShape
<1>15. /\ WantShape(y) /\ y.enc = w.enc /\ y.key = w.key /\ y.oiv = w.oiv /\ y.place = p + n
  <2>1. p + n \in Nat
    BY <1>5
  <2> DEFINE q == p + n
  <2> HIDE DEF q
  <2>2. /\ w \in [key : {w.key}, enc : BOOLEAN, iv : {w.iv}, oiv : {w.oiv}, place : Nat,
                  done : BOOLEAN, chain : {w.chain}] /\ q \in Nat
    BY <1>4, <2>1 DEF WantShape, q
  <2>3. y = [w EXCEPT !.place = q]
    BY DEF q
  <2> HIDE DEF y
  <2>4. /\ y \in [key : {w.key}, enc : BOOLEAN, iv : {w.iv}, oiv : {w.oiv}, place : Nat,
                  done : BOOLEAN, chain : {w.chain}]
        /\ y.enc = w.enc /\ y.key = w.key /\ y.oiv = w.oiv /\ y.place = q
    BY <2>2, <2>3
  <2> QED BY <2>4 DEF WantShape, q
<1> HIDE DEF y
<1>16. KeystreamAgrees(x, y)
  <2>1. name = w.oiv.name /\ w.oiv \in [name : {w.oiv.name}, n : {0}]
    BY <1>4 DEF KeystreamAgrees, name
  <2> QED BY <1>12, <1>13, <1>15, <2>1 DEF KeystreamAgrees
<1>17. Agrees(stream, x, y)
  <2>1. x.aes.key = y.key
    BY <1>12, <1>13, <1>15 DEF k
  <2> QED BY <1>1, <1>4, <1>13, <1>14, <1>15, <1>16, <2>1 DEF Agrees
<1> QED BY <1>2, <1>3, <1>11, <1>17, ContextAgrees

(* A context of CTS that has done its message, and what the program knows of
   it.                                                                       *)
DoneCtx(c, m, g) == [[c EXCEPT !.iv = m, !.aes.reg = g] EXCEPT !.updated = TRUE]
DoneWant(w, m) == [w EXCEPT !.done = TRUE, !.iv = m, !.chain = w.chain + 1]
LEMMA CtsDone ==
  ASSUME NEW c, NEW w, Agrees(stream, c, w), stream = "cts", w.key # NoName, NEW m, NEW g,
         w.enc => g = m
  PROVE  Agrees(stream, DoneCtx(c, m, g), DoneWant(w, m)) /\ DoneCtx(c, m, g).iv = m
<1> DEFINE x == DoneCtx(c, m, g)
           y == DoneWant(w, m)
<1>1. CtxShape(c) /\ WantShape(w) /\ c.enc = w.enc /\ c.aes.key = w.key /\ CtsAgrees(c, w)
  BY DEF Agrees
<1> DEFINE a == [c.aes EXCEPT !.reg = g]
<1>2. /\ a \in [key : {c.aes.key}, dir : {c.aes.dir}, reg : {g}, left : {c.aes.left}]
      /\ a.key = c.aes.key /\ a.dir = c.aes.dir /\ a.reg = g /\ a.left = c.aes.left
  BY <1>1 DEF CtxShape
<1>3. x = [c EXCEPT !.iv = m, !.aes = a, !.updated = TRUE]
  BY <1>1 DEF CtxShape, DoneCtx
<1> HIDE DEF a, x
<1>4. /\ x \in [made : BOOLEAN, enc : BOOLEAN, iv : {m}, oiv : {c.oiv}, ivSet : BOOLEAN,
               aes : {a}, updated : BOOLEAN]
      /\ x.enc = c.enc /\ x.aes = a /\ x.iv = m /\ x.updated = TRUE
  BY <1>1, <1>3 DEF CtxShape
<1>5. CtxShape(x)
  BY <1>2, <1>4 DEF CtxShape
<1> DEFINE h == w.chain + 1
<1>6. y = [w EXCEPT !.done = TRUE, !.iv = m, !.chain = h]
  BY DEF DoneWant
<1> HIDE DEF h, y
<1>7. /\ y \in [key : {w.key}, enc : BOOLEAN, iv : {m}, oiv : {w.oiv}, place : Nat, done : BOOLEAN,
               chain : {h}]
      /\ y.key = w.key /\ y.enc = w.enc /\ y.iv = m /\ y.done = TRUE /\ y.oiv = w.oiv /\ y.chain = h
  BY <1>1, <1>6 DEF WantShape
<1>8. WantShape(y)
  BY <1>7 DEF WantShape
<1>9. CtsAgrees(x, y)
  BY <1>1, <1>2, <1>4, <1>7 DEF CtsAgrees, Turned
<1>10. Agrees(stream, x, y) /\ x.iv = m
  BY <1>1, <1>2, <1>4, <1>5, <1>7, <1>8, <1>9 DEF Agrees
<1> QED BY <1>10 DEF x, y

LEMMA ContextStays ==
  ASSUME StreamInv, UNCHANGED stream, NEW s \in StreamCtxs,
         sctx' = [sctx EXCEPT ![s] = sctx[s]], want' = [want EXCEPT ![s] = want[s]],
         outcome'.got = outcome'.due
  PROVE  StreamInv'
<1> DEFINE r == sctx[s]
           v == want[s]
<1>1. Agrees(stream, r, v)
  BY DEF StreamInv
<1> HIDE DEF r, v
<1>2. sctx' = [sctx EXCEPT ![s] = r] /\ want' = [want EXCEPT ![s] = v]
  BY DEF r, v
<1> QED BY <1>1, <1>2, ContextAgrees

(* An update of CTS: refused, or the whole of the message.                   *)
LEMMA UpdateCtsKeeps ==
  ASSUME StreamHabits = {}, StreamInv, NEW s \in StreamCtxs, NEW n \in Nat, UpdateCts(s, n)
  PROVE  StreamInv'
<1> DEFINE c == sctx[s]
           w == want[s]
           made == Cs3(w.key, w.iv, n)
           in == IF w.enc \/ n < Block THEN Message(n) ELSE made.out
           r == DoitCts(c, in)
           due == IF w.done \/ n < Block THEN <<>>
                  ELSE <<IF w.enc THEN made.out ELSE Message(n), made.reg>>
           next == DoneWant(w, made.reg)
           y == IF due = <<>> THEN w ELSE next
           got == IF r.ok THEN <<r.out, r.c.iv>> ELSE <<>>
<1>1. /\ sctx' = [sctx EXCEPT ![s] = r.c] /\ want' = [want EXCEPT ![s] = y]
      /\ outcome' = [got |-> got, due |-> due] /\ UNCHANGED stream
  BY Zenon DEF UpdateCts, DoneWant
<1>2. stream = "cts" /\ w.key # NoName
  BY Zenon DEF UpdateCts, NoName
<1>3. n # Block
  BY DEF UpdateCts
<1>4. Agrees(stream, c, w)
  BY DEF StreamInv
<1>5. /\ CtsAgrees(c, w) /\ c.enc = w.enc /\ c.aes.key = w.key /\ c.iv = w.iv /\ c.updated = w.done
      /\ w.done \in BOOLEAN /\ w.enc \in BOOLEAN
  BY <1>2, <1>4 DEF Agrees, CtsAgrees, WantShape
<1>6. Block \in Nat /\ Len(Message(n)) = n
  <2>1. Row(Message(n), n)
    BY DEF Row, Message
  <2> QED BY <2>1, RowIs, StreamAssumption
<1>7. CASE w.done \/ n < Block
  <2>1. due = <<>> /\ y = w
    BY <1>7
  <2>2. c.updated \/ Len(in) < Block
    BY <1>5, <1>6, <1>7
  <2>3. r = [ok |-> FALSE, out |-> <<>>, c |-> c]
    BY <2>2, Zenon DEF DoitCts
  <2> HIDE DEF r, in, due, y, c, w
  <2>4. r.c = c /\ got = <<>>
    BY <2>3
  <2>5. outcome'.got = outcome'.due
    BY <1>1, <2>1, <2>4
  <2>6. sctx' = [sctx EXCEPT ![s] = sctx[s]] /\ want' = [want EXCEPT ![s] = want[s]]
    BY <1>1, <2>1, <2>4 DEF c, w
  <2> QED BY <1>1, <2>5, <2>6, ContextStays
<1>8. CASE ~w.done /\ Block < n
  <2> DEFINE what == IF w.enc THEN made.out ELSE Message(n)
             reg == made.reg
  <2>1. due = <<what, reg>> /\ y = next
    <3>1. due = <<what, reg>>
      BY <1>6, <1>8
    <3> HIDE DEF due, what, reg
    <3>2. due # <<>>
      BY <3>1
    <3> QED BY <3>1, <3>2
  <2> DEFINE t == IF c.enc THEN CtsEncrypt(c, in) ELSE CtsDecrypt(c, in)
  <2>2. in = IF w.enc THEN Message(n) ELSE made.out
    BY <1>6, <1>8
  <2>3. ~(c.updated \/ Len(in) < Block)
    <3>1. Len(in) = n
      <4>1. Len(made.out) = n
        <5>1. PICK d : Stolen(made.out, d, n)
          BY <1>8, Cs3Is
        <5>2. Row(made.out, n)
          BY <5>1 DEF Stolen
        <5> QED BY <5>2, RowIs
      <4> QED BY <1>6, <2>2, <4>1
    <3> HIDE DEF in
    <3> QED BY <1>5, <1>6, <1>8, <3>1
  <2>4. r = [t EXCEPT !.c.updated = TRUE]
    BY <2>3, Zenon DEF DoitCts
  <2>5. PICK g : /\ t = [ok |-> TRUE, out |-> what, c |-> [c EXCEPT !.iv = reg, !.aes.reg = g]]
                 /\ w.enc => g = reg
    <3>1. made = Cs3(c.aes.key, c.iv, n)
      BY <1>5
    <3>2. CASE w.enc
      <4>1. c.aes.dir = "enc" /\ c.aes.reg = c.iv
        BY <1>2, <1>5, <3>2 DEF CtsAgrees, Turned
      <4>2. t = CtsEncrypt(c, Message(n)) /\ what = made.out
        BY <1>5, <2>2, <3>2
      <4> HIDE DEF t, made, c, what
      <4>3. CtsGives(t, c, n, made, made.out, made.reg)
        BY <1>8, <3>1, <4>1, <4>2, CtsEncryptIs
      <4> QED BY <4>2, <4>3, Zenon DEF CtsGives, reg
    <3>3. CASE ~w.enc
      <4>1. c.aes.dir = "dec"
        BY <1>2, <1>5, <3>3 DEF CtsAgrees, Turned
      <4>2. t = CtsDecrypt(c, made.out) /\ what = Message(n)
        BY <1>5, <2>2, <3>3
      <4> HIDE DEF t, made, c, what
      <4>3. \E g : CtsGives(t, c, n, made, Message(n), g)
        BY <1>8, <3>1, <4>1, <4>2, CtsDecryptIs
      <4> QED BY <3>3, <4>2, <4>3, Zenon DEF CtsGives, reg
    <3> QED BY <1>5, <3>2, <3>3
  <2> DEFINE cc == [c EXCEPT !.iv = reg, !.aes.reg = g]
             x == DoneCtx(c, reg, g)
  <2>6. r = [ok |-> TRUE, out |-> what, c |-> x]
    <3>1. t = [ok |-> TRUE, out |-> what, c |-> cc]
      BY <2>5
    <3> HIDE DEF t, what, cc
    <3>2. r = [ok |-> TRUE, out |-> what, c |-> [cc EXCEPT !.updated = TRUE]]
      BY <2>4, <3>1
    <3> QED BY <3>2, Zenon DEF DoneCtx, cc
  <2>7. Agrees(stream, x, next) /\ x.iv = reg
    <3> HIDE DEF c, w, made
    <3> QED BY <1>2, <1>4, <2>5, CtsDone
  <2> HIDE DEF r, x, next, what, reg, due, y
  <2>8. r.c = x /\ got = <<what, reg>>
    BY <2>6, <2>7
  <2>9. outcome'.got = outcome'.due
    BY <1>1, <2>1, <2>8
  <2>10. sctx' = [sctx EXCEPT ![s] = x] /\ want' = [want EXCEPT ![s] = next]
    BY <1>1, <2>1, <2>8
  <2> QED BY <1>1, <2>7, <2>9, <2>10, ContextAgrees
<1>9. w.done \/ n < Block \/ (~w.done /\ Block < n)
  <2> HIDE DEF w
  <2> QED BY <1>3, <1>6
<1> QED BY <1>7, <1>8, <1>9

LEMMA UpdateWrapKeeps ==
  ASSUME StreamInv, NEW s \in StreamCtxs, NEW in, UpdateWrap(s, in)
  PROVE  StreamInv'
<1> DEFINE c == sctx[s]
           w == want[s]
           wrapped == <<"wrapped", w.key, "enc", "default">>
           got == IF c.enc THEN <<"wrapped", c.aes.key, c.aes.dir, "default">>
                  ELSE IF in = <<"wrapped", c.aes.key, "enc", "default">> /\ c.aes.dir = "dec"
                       THEN <<"unwrapped">>
                  ELSE <<"refused">>
           due == IF w.enc THEN wrapped ELSE IF in = wrapped THEN <<"unwrapped">> ELSE <<"refused">>
<1>1. /\ stream = "wrap" /\ w.key # NoName
      /\ outcome' = [got |-> WrapUpdate(c, in),
                     due |-> IF w.enc THEN Wrapped(w)
                             ELSE IF in = Wrapped(w) THEN <<"unwrapped">> ELSE <<"refused">>]
      /\ UNCHANGED <<stream, sctx, want>>
  BY Zenon DEF UpdateWrap, NoName
<1>2. Agrees(stream, c, w)
  BY DEF StreamInv
<1>3. WrapAgrees(c, w) /\ c.enc = w.enc /\ c.aes.key = w.key /\ w.enc \in BOOLEAN
  BY <1>1, <1>2 DEF Agrees, WantShape
<1>4. Wrapped(w) = wrapped
  <2>1. Wrapped(w) = <<"wrapped", w.key, "enc", IF w.iv = NoName THEN "default" ELSE w.iv>>
    BY Zenon DEF Wrapped, NoName
  <2>2. (IF w.iv = NoName THEN "default" ELSE w.iv) = "default"
    BY <1>3 DEF WrapAgrees
  <2> QED BY <2>1, <2>2
<1>5. WrapUpdate(c, in) = got
  <2>1. (IF c.ivSet THEN c.iv ELSE "default") = "default"
    BY <1>3 DEF WrapAgrees
  <2> QED BY <2>1 DEF WrapUpdate
<1>6. outcome' = [got |-> got, due |-> due]
  BY <1>1, <1>4, <1>5
<1>7. c.aes.dir = IF w.enc THEN "enc" ELSE "dec"
  BY <1>1, <1>3 DEF WrapAgrees, Turned
<1>8. got = due
  <2>1. CASE w.enc
    BY <1>3, <1>7, <2>1
  <2>2. CASE ~w.enc
    BY <1>3, <1>7, <2>2
  <2> QED BY <1>3, <2>1, <2>2
<1> HIDE DEF got, due
<1>9. outcome'.got = outcome'.due
  BY <1>6, <1>8
<1> QED BY <1>1, <1>9 DEF StreamInv

LEMMA CopyStreamKeeps ==
  ASSUME StreamInv, NEW s \in StreamCtxs, NEW to \in StreamCtxs, CopyStream(s, to)
  PROVE  StreamInv'
<1> DEFINE r == sctx[s]
           v == want[s]
<1>1. /\ sctx' = [sctx EXCEPT ![to] = r] /\ want' = [want EXCEPT ![to] = v]
      /\ outcome' = NoResult /\ UNCHANGED stream
  BY DEF CopyStream
<1>2. Agrees(stream, r, v)
  BY DEF StreamInv
<1>3. outcome'.got = outcome'.due
  BY <1>1 DEF NoResult
<1> HIDE DEF r, v
<1> QED BY <1>1, <1>2, <1>3, ContextAgrees

LEMMA FreeStreamKeeps ==
  ASSUME StreamInv, NEW s \in StreamCtxs, FreeStream(s)
  PROVE  StreamInv'
<1>1. /\ sctx' = [sctx EXCEPT ![s] = CtxOf0] /\ want' = [want EXCEPT ![s] = Want0]
      /\ outcome' = NoResult /\ UNCHANGED stream
  BY DEF FreeStream
<1>2. Agrees(stream, CtxOf0, Want0)
  BY FreshAgrees DEF StreamInv
<1>3. outcome'.got = outcome'.due
  BY <1>1 DEF NoResult
<1> QED BY <1>1, <1>2, <1>3, ContextAgrees

LEMMA StreamInitAgrees == StreamInit => StreamInv
<1> SUFFICES ASSUME StreamInit PROVE StreamInv
  OBVIOUS
<1>1. /\ stream \in {"ctr", "cfb", "cts", "wrap"} /\ outcome = NoResult
      /\ sctx = [s \in StreamCtxs |-> CtxOf0] /\ want = [s \in StreamCtxs |-> Want0]
  BY StreamAssumption DEF StreamInit
<1>2. Agrees(stream, CtxOf0, Want0)
  BY <1>1, FreshAgrees
<1>3. outcome.got = outcome.due
  BY <1>1 DEF NoResult
<1> QED BY <1>1, <1>2, <1>3 DEF StreamInv

LEMMA StreamNextKeeps ==
  ASSUME StreamHabits = {}
  PROVE  StreamInv /\ [StreamNext]_streamVars => StreamInv'
<1> SUFFICES ASSUME StreamInv, [StreamNext]_streamVars PROVE StreamInv'
  OBVIOUS
<1>1. CASE UNCHANGED streamVars
  BY <1>1 DEF StreamInv, streamVars
<1>2. CASE StreamNext
  <2>1. PICK s \in StreamCtxs :
          \/ \E key \in {NoName, "k1", "k2"}, iv \in Ivs, enc \in BOOLEAN, params \in {"none", "CS1"} :
               Initialize(s, key, iv, enc, params)
          \/ \E n \in Lengths : UpdateKeystream(s, n) \/ UpdateCts(s, n)
          \/ \E key \in {"k1", "k2"}, iv \in {"default", "iv1"} :
               UpdateWrap(s, <<"wrapped", key, "enc", iv>>)
          \/ \E to \in DOMAIN sctx : CopyStream(s, to)
          \/ FreeStream(s)
    <3>1. DOMAIN sctx = StreamCtxs
      BY DEF StreamInv
    <3> QED BY <1>2, <3>1, Zenon DEF StreamNext, NoName
  <2>2. DOMAIN sctx = StreamCtxs /\ Lengths \subseteq Nat
    BY StreamAssumption DEF StreamInv
  <2>3. ASSUME NEW key \in {NoName, "k1", "k2"}, NEW iv \in Ivs, NEW enc \in BOOLEAN,
               NEW params \in {"none", "CS1"}, Initialize(s, key, iv, enc, params)
        PROVE  StreamInv'
    BY <2>3, InitializeKeeps
  <2>4. ASSUME NEW n \in Lengths, UpdateKeystream(s, n) \/ UpdateCts(s, n) PROVE StreamInv'
    BY <2>2, <2>4, UpdateKeystreamKeeps, UpdateCtsKeeps
  <2>5. ASSUME NEW in, UpdateWrap(s, in) PROVE StreamInv'
    BY <2>5, UpdateWrapKeeps
  <2>6. ASSUME NEW to \in DOMAIN sctx, CopyStream(s, to) PROVE StreamInv'
    BY <2>2, <2>6, CopyStreamKeeps
  <2>7. CASE FreeStream(s)
    BY <2>7, FreeStreamKeeps
  <2> QED BY <2>1, <2>3, <2>4, <2>5, <2>6, <2>7, Zenon
<1> QED BY <1>1, <1>2

(* For programs that keep to the protocol, and any key, message length,      *)
(* block size and limit of wolfCrypt's calls: CTR and CFB contexts give the  *)
(* keystream of the message in order, however it is cut (wp_aes_stream_doit  *)
(* with what is left of a block); CTS gives what CS3 makes of the message,   *)
(* and the message of that, with the IV to go on from (wp_aes_cts_encrypt,   *)
(* wp_aes_cts_decrypt); and key wrap (wp_aes_wrap_update) gives what the key *)
(* and the default IV make, and takes nothing else.                          *)
THEOREM SpecResultAsDefined ==
  ASSUME StreamHabits = {}
  PROVE  StreamSpec => []ResultAsDefined
<1>1. StreamInv => ResultAsDefined
  BY DEF StreamInv, ResultAsDefined
<1>2. StreamInv /\ [StreamNext]_streamVars => StreamInv'
  BY StreamNextKeeps
<1> QED BY <1>1, <1>2, StreamInitAgrees, PTL DEF StreamSpec

=============================================================================
