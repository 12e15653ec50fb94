------------------------------- MODULE WpAead -------------------------------
(***************************************************************************)
(* The contexts of AES-GCM and AES-CCM, wp_aes_aead.c, through one message *)
(* after another: IV states, AAD, data, the tag, generated IVs and TLS     *)
(* records.  AES-GCM comes in the two builds of the code: "gcm" keeps the  *)
(* data of a message and runs wolfCrypt over all of it at each update,     *)
(* "gcm_stream" (WOLFSSL_AESGCM_STREAM) hands it on.                       *)
(*                                                                         *)
(* A piece of AAD or data is <<message, position>>.  A tag is the record   *)
(* of all that it covers.  An IV is its fixed part and its invocation      *)
(* part.                                                                   *)
(***************************************************************************)
EXTENDS Naturals, Sequences

CONSTANTS
  Modes,        \* those the runs look at
  Key, NoKey,
  Fixed,        \* fixed parts of IVs
  MaxIv,        \* bound: invocation parts are 0 .. MaxIv - 1
  NoAeadIv,
  Zeros,        \* what a new context is filled with
  MaxPieces,    \* bound: pieces of AAD, and of data, in a message
  MaxMessages,  \* bound: messages or records in the life of a context
  Habits        \* what programs do with which mode, beyond the plain protocol

Mode == {"gcm", "gcm_stream", "ccm"}
Habit == {"abandon", "leave_tag", "reuse", "empty"}

IV == (Fixed \cup {Zeros}) \X (0 .. MaxIv - 1)
ZeroIv == <<Zeros, 0>>

ASSUME AeadAssumption ==
  /\ Modes \subseteq Mode /\ Habits \subseteq Mode \X Habit
  /\ NoKey \notin Key /\ Zeros \notin Fixed /\ NoAeadIv \notin IV
  /\ Zeros \notin [claim : 1 .. MaxMessages + 1, genuine : BOOLEAN]
  /\ MaxIv \in Nat \ {0} /\ MaxPieces \in Nat \ {0} /\ MaxMessages \in Nat \ {0}

VARIABLES
  mode,
  actx,     \* wp_AeadCtx
  aes,      \* wolfCrypt's Aes: the key, CCM's nonce, GCM's stream
  said,     \* the message as the program has given it
  phase,    \* how far the program has come with it
  outs,     \* for each piece of output, what it was made with
  result,   \* the last answer, and the one due
  gens,     \* the IVs generated since the program last set one
  records   \* the TLS records encrypted under the present fixed part

aeadVars == <<mode, actx, aes, said, phase, outs, result, gens, records>>

Tag(k, v, a, d) == [key |-> k, iv |-> v, aad |-> a, data |-> d]
Due(m) == Tag(m.key, m.iv, m.aad, m.data)
Claim(n, genuine) == [claim |-> n, genuine |-> genuine]
Record(n) == [record |-> n]

(* A tag given for message m verifies only when it is m's own, and when the *)
(* tag is computed over what the program gave.                              *)
Verifies(buf, m, tag) == buf = Claim(m.n, TRUE) /\ tag = Due(m)

Pieces == Seq((1 .. MaxMessages + 1) \X (1 .. MaxPieces))
Tags == [key : Key \cup {NoKey}, iv : IV, aad : Pieces, data : Pieces]
Bufs(x) ==
  \/ x = Zeros \/ x \in Tags \/ x \in [record : 1 .. MaxMessages + 1]
  \/ x \in [claim : 1 .. MaxMessages + 1, genuine : BOOLEAN]

AeadTypeOK ==
  /\ mode \in Modes
  /\ actx \in [enc : BOOLEAN, keySet : BOOLEAN, iv : IV, origIv : IV,
              ivState : {"uninitialised", "copied", "buffered", "finished"},
              ivGen : BOOLEAN, ivSet : BOOLEAN, tagSet : BOOLEAN, tls : BOOLEAN,
              buf : {actx.buf}, aad : Pieces, aadSet : BOOLEAN, in : Pieces,
              tagAvail : BOOLEAN, authErr : BOOLEAN]
  /\ Bufs(actx.buf)
  /\ aes \in [key : Key \cup {NoKey}, reg : IV, on : BOOLEAN, iv : IV, aad : Pieces,
              data : Pieces]
  /\ phase \in {"setup", "aad", "data", "final", "done", "failed", "record"}
  /\ said.n \in 1 .. MaxMessages + 1
  /\ Len(actx.in) <= MaxPieces /\ Len(actx.aad) <= MaxPieces

(* A program that uses none of these modes. *)
AeadIdle ==
  /\ mode = "none"
  /\ actx = <<>> /\ aes = <<>> /\ said = <<>> /\ phase = "idle"
  /\ outs = <<>> /\ gens = <<>> /\ records = <<>>
  /\ result = [ok |-> TRUE, due |-> TRUE, got |-> Zeros, tag |-> Zeros]

(* newctx.  (GCM leaves tlsAadLen 0, not UNINITIALISED; every init sets it.) *)
AeadInit ==
  /\ mode \in Modes
  /\ actx = [enc |-> FALSE, keySet |-> FALSE, iv |-> ZeroIv, origIv |-> ZeroIv,
            ivState |-> "uninitialised", ivGen |-> FALSE, ivSet |-> FALSE,
            tagSet |-> FALSE, tls |-> FALSE, buf |-> Zeros, aad |-> <<>>,
            aadSet |-> FALSE, in |-> <<>>, tagAvail |-> FALSE, authErr |-> FALSE]
  /\ aes = [key |-> NoKey, reg |-> ZeroIv, on |-> FALSE, iv |-> ZeroIv,
            aad |-> <<>>, data |-> <<>>]
  /\ said = [n |-> 1, key |-> NoKey, iv |-> NoAeadIv, fixed |-> Zeros, aad |-> <<>>,
             data |-> <<>>, claim |-> "none", use |-> "plain"]
  /\ phase = "setup" /\ outs = <<>> /\ gens = <<>> /\ records = <<>>
  /\ result = [ok |-> TRUE, due |-> TRUE, got |-> Zeros, tag |-> Zeros]

Answer(ok, due) == result' = [ok |-> ok, due |-> due, got |-> Zeros, tag |-> Zeros]
May(habit) == <<mode, habit>> \in Habits

------------------------------------------------------------------------------
(* The program's protocol: a message begins with an init or a generated IV,  *)
(* when the one before has ended; its key and its IV are given first, then   *)
(* its AAD, then its data.                                                   *)
Between ==
  \/ phase \in {"setup", "done"}
  \/ phase \in {"aad", "data"} /\ May("abandon")
  \/ phase = "final" /\ May("leave_tag")
  \/ phase = "failed" /\ May("reuse")
Number == IF phase = "setup" THEN said.n ELSE said.n + 1
NextMessage(m) == [m EXCEPT !.n = Number, !.aad = <<>>, !.data = <<>>,
                       !.claim = IF phase = "setup" THEN @ ELSE "none"]
Given == said.key # NoKey /\ said.iv # NoAeadIv
Plain == phase \in {"setup", "aad", "data"} /\ Given

Started(a, v) == [a EXCEPT !.on = TRUE, !.iv = v, !.aad = <<>>, !.data = <<>>]

(* encrypt_init and decrypt_init; libcrypto passes the key and the IV that   *)
(* the program gave, either or both.  authErr, tagAvail and what is cached   *)
(* stay as they are; CCM also stays with the TLS AAD it has.                 *)
InitCall(e, k, v) ==
  /\ Between /\ Number <= MaxMessages
  /\ k # NoKey \/ v # NoAeadIv
  /\ mode = "ccm" => said.use = "plain"
  /\ actx' = [actx EXCEPT
               !.enc = e,
               !.keySet = @ \/ (mode # "ccm" /\ k # NoKey),
               !.iv = IF v # NoAeadIv THEN v ELSE @,
               !.ivState = IF v # NoAeadIv THEN "buffered" ELSE @,
               !.ivSet = @ /\ v = NoAeadIv,
               !.tls = @ /\ mode = "ccm"]
  /\ LET keyed == IF k # NoKey THEN [aes EXCEPT !.key = k] ELSE aes
     IN aes' = IF mode = "gcm_stream" /\ k # NoKey /\ v # NoAeadIv
               THEN Started(keyed, v) ELSE keyed
  /\ said' = [NextMessage(said) EXCEPT
                !.key = IF k # NoKey THEN k ELSE @,
                !.iv = IF v # NoAeadIv THEN v ELSE IF phase = "setup" THEN @ ELSE NoAeadIv,
                !.fixed = IF v # NoAeadIv THEN Zeros ELSE @,
                !.use = "plain"]
  /\ phase' = "setup" /\ outs' = <<>> /\ gens' = <<>>
  /\ Answer(TRUE, TRUE)
  /\ UNCHANGED <<mode, records>>

------------------------------------------------------------------------------
(* Parameters.                                                               *)
SetTagLen ==
  /\ phase = "setup" /\ ~actx.tagSet
  /\ actx' = [actx EXCEPT !.tagSet = TRUE]
  /\ UNCHANGED <<mode, aes, said, phase, outs, result, gens, records>>

SetTag(genuine) ==
  /\ Plain /\ ~actx.enc /\ said.claim = "none" /\ (mode = "ccm" => phase # "data")
  /\ actx' = [actx EXCEPT !.buf = Claim(said.n, genuine), !.tagSet = TRUE]
  /\ said' = [said EXCEPT !.claim = IF genuine THEN "genuine" ELSE "forged"]
  /\ UNCHANGED <<mode, aes, phase, outs, result, gens, records>>

(* EVP_CTRL_GCM_SET_IV_FIXED with -1: the whole IV. *)
RestoreIv(v) ==
  /\ phase = "setup" /\ mode # "ccm"
  /\ actx' = [actx EXCEPT !.iv = v, !.ivGen = TRUE, !.ivState = "buffered"]
  /\ said' = [said EXCEPT !.iv = NoAeadIv, !.fixed = Zeros]
  /\ gens' = <<>>
  /\ UNCHANGED <<mode, aes, phase, outs, result, records>>

(* With the fixed part: GCM draws the invocation part when it encrypts. *)
SetFixed(f, e) ==
  /\ phase = "setup"
  /\ IF mode = "ccm"
     THEN e = actx.iv[2] /\ actx' = [actx EXCEPT !.iv = <<f, e>>]
     ELSE /\ ~actx.enc => e = actx.iv[2]
          /\ actx' = [actx EXCEPT !.iv = <<f, e>>, !.ivSet = @ \/ actx.enc,
                                !.ivGen = TRUE, !.ivState = "buffered"]
  /\ said' = [said EXCEPT !.fixed = f, !.iv = NoAeadIv]
  /\ gens' = <<>> /\ records' = <<>>
  /\ UNCHANGED <<mode, aes, phase, outs, result>>

Inc(v) == <<v[1], (v[2] + 1) % MaxIv>>

(* wp_aesgcm_get_rand_iv and wp_aesgcm_set_rand_iv. *)
RandIvSame(c, inc) ==
  [c EXCEPT !.origIv = IF mode = "gcm" THEN c.iv ELSE @, !.ivState = "copied"]
RandIv(c, inc) ==
  [c EXCEPT !.origIv = IF mode = "gcm" THEN c.iv ELSE @,
            !.iv = IF inc THEN Inc(@) ELSE @,
            !.ivState = "copied"]
GivenIv(c, e) ==
  [c EXCEPT !.origIv = IF mode = "gcm" THEN c.iv ELSE @,
            !.iv = <<c.iv[1], e>>, !.ivState = "buffered"]

(* A packet's IV: generated, or the invocation part that came with it. *)
IvGen ==
  /\ mode # "ccm" /\ Between /\ Number <= MaxMessages
  /\ actx.ivGen /\ actx.keySet
  /\ actx' = RandIv(actx, TRUE)
  /\ aes' = IF mode = "gcm_stream" THEN Started(aes, actx.iv) ELSE aes
  /\ said' = [NextMessage(said) EXCEPT !.iv = actx.iv]
  /\ gens' = Append(gens, actx.iv)
  /\ phase' = "aad" /\ outs' = <<>>
  /\ Answer(TRUE, TRUE)
  /\ UNCHANGED <<mode, records>>

SetIvInv(e) ==
  /\ mode # "ccm" /\ Between /\ Number <= MaxMessages
  /\ actx.ivGen /\ actx.keySet /\ ~actx.enc
  /\ actx' = GivenIv(actx, e)
  /\ said' = [NextMessage(said) EXCEPT !.iv = <<actx.iv[1], e>>]
  /\ gens' = <<>>
  /\ phase' = "aad" /\ outs' = <<>>
  /\ Answer(TRUE, TRUE)
  /\ UNCHANGED <<mode, aes, records>>

(* The tag, when the program has encrypted. *)
GetTag ==
  /\ phase = "final" /\ actx.enc /\ actx.tagSet
  /\ actx' = [actx EXCEPT !.tagAvail = FALSE]
  /\ result' = [ok |-> TRUE, due |-> TRUE, got |-> actx.buf, tag |-> Due(said)]
  /\ phase' = "done"
  /\ UNCHANGED <<mode, aes, said, outs, gens, records>>

------------------------------------------------------------------------------
(* Updates and final of AES-GCM that keeps the message.                      *)
Piece(held) == <<said.n, Len(held) + 1>>

(* The IV a message goes on with; the first use of a buffered one copies it. *)
MessageIvNow(c) == c.iv
MessageIv(c) == IF c.ivState = "copied" THEN c.origIv ELSE c.iv
SetExtIv(c) ==
  IF c.ivState = "buffered" THEN [c EXCEPT !.ivState = "copied", !.origIv = c.iv] ELSE c

(* wp_aead_cache_aad *)
CacheAad ==
  /\ actx' = [actx EXCEPT !.aad = Append(@, Piece(said.aad)), !.aadSet = TRUE]
  /\ UNCHANGED aes

(* wp_aesgcm_encdec on an update: over all the data so far; what comes out   *)
(* is the part from the offset on.                                           *)
OutputFrom(c) == [iv |-> MessageIv(c), key |-> aes.key, at |-> Len(c.in)]
GcmData ==
  LET d == Piece(said.data)
      c == [actx EXCEPT !.in = Append(@, d), !.tagSet = TRUE]
  IN /\ actx' = IF ~actx.enc THEN SetExtIv(c)
               ELSE [SetExtIv(c) EXCEPT
                       !.ivSet = TRUE, !.tagAvail = TRUE,
                       !.buf = Tag(aes.key, MessageIv(c), c.aad, c.in)]
     /\ outs' = Append(outs, OutputFrom(c))
     /\ Answer(TRUE, TRUE)
     /\ UNCHANGED aes

CleanedTagOnly(c) == [c EXCEPT !.ivSet = FALSE, !.aadSet = FALSE, !.in = <<>>]
Cleaned(c) ==
  [c EXCEPT !.ivSet = FALSE, !.aadSet = FALSE, !.in = <<>>, !.aad = <<>>]

(* wp_aesgcm_stream_final with wp_aesgcm_encdec.  A tag that is already      *)
(* there is not computed again; a failure before this one is answered again. *)
GcmFinal ==
  LET c == [actx EXCEPT !.tagSet = TRUE]
      tag == Tag(aes.key, MessageIv(c), c.aad, c.in)
      good == c.enc \/ Verifies(c.buf, said, tag)
  IN /\ IF c.authErr THEN UNCHANGED actx /\ Answer(FALSE, c.enc \/ said.claim = "genuine")
        ELSE IF c.tagAvail
        THEN actx' = Cleaned(c) /\ Answer(TRUE, c.enc \/ said.claim = "genuine")
        ELSE /\ actx' = Cleaned(IF c.enc
                               THEN [SetExtIv(c) EXCEPT !.buf = tag, !.tagAvail = TRUE]
                               ELSE [SetExtIv(c) EXCEPT !.authErr = ~good])
             /\ Answer(good, c.enc \/ said.claim = "genuine")
     /\ UNCHANGED <<aes, outs>>

------------------------------------------------------------------------------
(* AES-GCM in the streaming build: the message is in wolfCrypt's object.     *)
StreamStart == IF actx.ivState = "buffered" THEN Started(aes, actx.iv) ELSE aes
Copied == [actx EXCEPT !.ivState = IF @ = "buffered" THEN "copied" ELSE @]

StreamAad ==
  /\ aes' = [StreamStart EXCEPT !.aad = Append(@, Piece(said.aad))]
  /\ actx' = Copied

StreamData ==
  LET a == [StreamStart EXCEPT !.data = Append(@, Piece(said.data))]
  IN /\ aes' = a /\ actx' = Copied
     /\ outs' = Append(outs, [iv |-> a.iv, key |-> a.key, at |-> Len(a.data)])
     /\ Answer(TRUE, TRUE)

StreamFinal ==
  LET tag == Tag(aes.key, aes.iv, aes.aad, aes.data)
      good == aes.on /\ (actx.enc \/ Verifies(actx.buf, said, tag))
  IN /\ IF ~actx.enc /\ ~actx.tagSet
        THEN actx' = [actx EXCEPT !.ivState = "finished"] /\ Answer(FALSE, FALSE)
        ELSE /\ actx' = [actx EXCEPT !.ivState = "finished", !.tagSet = TRUE,
                                   !.buf = IF actx.enc /\ aes.on THEN tag ELSE @]
             /\ Answer(good, actx.enc \/ said.claim = "genuine")
     /\ UNCHANGED <<aes, outs>>

------------------------------------------------------------------------------
(* AES-CCM: the AAD is kept, the data comes in one update.                   *)
CcmAad ==
  IF actx.tagAvail THEN Answer(FALSE, TRUE) /\ UNCHANGED <<actx, aes>>
  ELSE CacheAad /\ UNCHANGED result

(* wp_aesccm_encdec: wolfCrypt's nonce is set once in a message and counts   *)
(* up with each encryption.                                                  *)
CcmNonce == IF actx.ivSet THEN aes.reg ELSE actx.iv
CcmTag(d) == Tag(aes.key, IF actx.enc THEN CcmNonce ELSE actx.iv, actx.aad, d)
CcmGood(d) == actx.enc \/ Verifies(actx.buf, [said EXCEPT !.data = d], CcmTag(d))
CcmEncDec(d) ==
  LET done == [actx EXCEPT !.tagSet = TRUE, !.aad = <<>>, !.aadSet = FALSE]
  IN IF actx.enc
     THEN [done EXCEPT !.ivSet = TRUE, !.iv = CcmNonce, !.buf = CcmTag(d)]
     ELSE [done EXCEPT !.authErr = @ \/ ~CcmGood(d),
                       !.iv = IF CcmGood(d) THEN aes.reg ELSE @]
CcmReg == [aes EXCEPT !.reg = IF actx.enc THEN Inc(CcmNonce) ELSE @]

(* One update with the data, alone or (EVP_Cipher) with the final after it.  *)
CcmData(whole) ==
  LET d == <<Piece(said.data)>>
      c == [CcmEncDec(d) EXCEPT !.tagAvail = CcmGood(d) /\ actx.enc]
  IN IF actx.tagAvail
     THEN Answer(FALSE, TRUE) /\ UNCHANGED <<actx, aes, outs>>
     ELSE /\ actx' = IF whole /\ CcmGood(d) /\ ~c.authErr
                    THEN [c EXCEPT !.ivSet = FALSE] ELSE c
          /\ aes' = CcmReg
          /\ outs' = IF ~CcmGood(d) THEN outs
                     ELSE Append(outs, [iv |-> CcmTag(d).iv, key |-> aes.key, at |-> 1])
          /\ Answer(CcmGood(d) /\ (whole => ~c.authErr), actx.enc \/ said.claim = "genuine")

CcmFinal ==
  /\ IF actx.authErr
     THEN Answer(FALSE, actx.enc \/ said.claim = "genuine") /\ UNCHANGED <<actx, aes>>
     ELSE IF actx.aadSet
     THEN /\ Answer(CcmGood(<<>>), actx.enc \/ said.claim = "genuine")
          /\ actx' = [CcmEncDec(<<>>) EXCEPT !.ivSet = @ /\ ~CcmGood(<<>>)]
          /\ aes' = CcmReg
     ELSE /\ Answer(TRUE, actx.enc \/ said.claim = "genuine")
          /\ actx' = [actx EXCEPT !.ivSet = FALSE] /\ UNCHANGED aes
  /\ UNCHANGED outs

------------------------------------------------------------------------------
(* What the program calls.                                                   *)
UpdateAad ==
  /\ phase \in {"setup", "aad"} /\ Given /\ Len(said.aad) < MaxPieces
  /\ CASE mode = "gcm" -> CacheAad /\ UNCHANGED result
       [] mode = "gcm_stream" -> StreamAad /\ UNCHANGED result
       [] mode = "ccm" -> CcmAad
  /\ said' = [said EXCEPT !.aad = Append(@, Piece(said.aad))]
  /\ phase' = IF result'.ok THEN "aad" ELSE "failed"
  /\ UNCHANGED <<mode, outs, gens, records>>

More == Plain /\ Len(said.data) < IF mode = "ccm" THEN 1 ELSE MaxPieces

UpdateData ==
  /\ More
  /\ CASE mode = "gcm" -> GcmData
       [] mode = "gcm_stream" -> StreamData
       [] mode = "ccm" -> CcmData(FALSE)
  /\ said' = [said EXCEPT !.data = Append(@, Piece(said.data))]
  /\ phase' = IF result'.ok THEN "data" ELSE "failed"
  /\ UNCHANGED <<mode, gens, records>>

CcmCipher ==
  /\ mode = "ccm" /\ More
  /\ CcmData(TRUE)
  /\ said' = [said EXCEPT !.data = Append(@, Piece(said.data))]
  /\ phase' = IF ~result'.ok THEN "failed" ELSE IF actx.enc THEN "final" ELSE "done"
  /\ UNCHANGED <<mode, gens, records>>

Final ==
  /\ Plain
  /\ said.aad = <<>> /\ said.data = <<>> => May("empty")
  /\ CASE mode = "gcm" -> GcmFinal
       [] mode = "gcm_stream" -> StreamFinal
       [] mode = "ccm" -> CcmFinal
  /\ phase' = IF ~result'.ok THEN "failed" ELSE IF actx.enc THEN "final" ELSE "done"
  /\ UNCHANGED <<mode, said, gens, records>>

------------------------------------------------------------------------------
(* TLS records: the AAD of one, then one update with it, in place.           *)
SetTlsAad ==
  /\ phase = "setup" /\ said.n <= MaxMessages
  /\ said.key # NoKey /\ said.fixed # Zeros
  /\ IF mode = "ccm" THEN actx.tagSet ELSE actx.ivGen
  /\ actx' = [actx EXCEPT !.tls = TRUE, !.buf = Record(said.n)]
  /\ said' = [said EXCEPT !.use = "tls", !.iv = NoAeadIv, !.claim = "none"]
  /\ phase' = "record"
  /\ UNCHANGED <<mode, aes, outs, result, gens, records>>

RecordDone(c) == [c EXCEPT !.ivState = "finished", !.tls = FALSE]
Sent(c, sent) ==
  [n |-> said.n, fixed |-> said.fixed, key |-> aes.key, iv |-> c.iv, sent |-> sent,
   aad |-> c.buf]
NextRecord ==
  /\ said' = [said EXCEPT !.n = @ + 1]
  /\ phase' = "setup"
  /\ UNCHANGED <<mode, outs, gens>>

(* wp_aesgcm_tls_cipher: the IV goes out with the record as it is. *)
GcmSeal ==
  /\ phase = "record" /\ mode # "ccm" /\ actx.enc
  /\ LET c == RandIv(actx, FALSE) IN
       /\ actx' = RecordDone(c)
       /\ records' = Append(records, Sent(c, actx.iv[2]))
  /\ aes' = IF mode = "gcm_stream" THEN Started(aes, actx.iv) ELSE aes
  /\ Answer(TRUE, TRUE)
  /\ NextRecord

(* A record of the peer, genuine or not, with its invocation part. *)
GcmOpen(e, genuine) ==
  /\ phase = "record" /\ mode # "ccm" /\ ~actx.enc
  /\ LET c == GivenIv(actx, e) IN
       /\ actx' = RecordDone(c)
       /\ Answer(genuine /\ c.iv = <<said.fixed, e>> /\ c.buf = Record(said.n), genuine)
  /\ NextRecord
  /\ UNCHANGED <<aes, records>>

(* wp_aesccm_tls_cipher: the sequence number in the AAD is the invocation    *)
(* part of what goes out; tlsAadLen stays.                                   *)
CcmRecordIvKept(e) == actx
CcmRecordIv(e) == [actx EXCEPT !.iv = <<actx.iv[1], e>>]
CcmSeal ==
  /\ phase = "record" /\ mode = "ccm" /\ actx.enc
  /\ LET e == said.n % MaxIv
         c == CcmRecordIv(e)
     IN /\ actx' = c
        /\ aes' = [aes EXCEPT !.reg = Inc(c.iv)]
        /\ records' = Append(records, Sent(c, e))
  /\ Answer(TRUE, TRUE)
  /\ NextRecord

CcmOpen(e, genuine) ==
  /\ phase = "record" /\ mode = "ccm" /\ ~actx.enc
  /\ LET c == CcmRecordIv(e) IN
       /\ actx' = c
       /\ Answer(genuine /\ c.iv = <<said.fixed, e>> /\ c.buf = Record(said.n), genuine)
  /\ NextRecord
  /\ UNCHANGED <<aes, records>>

AeadNext ==
  \/ \E e \in BOOLEAN, k \in Key \cup {NoKey}, f \in Fixed, i \in 0 .. MaxIv - 1 :
       InitCall(e, k, <<f, i>>)
  \/ \E e \in BOOLEAN, k \in Key : InitCall(e, k, NoAeadIv)
  \/ SetTagLen \/ \E genuine \in BOOLEAN : SetTag(genuine)
  \/ \E f \in Fixed, i \in 0 .. MaxIv - 1 : RestoreIv(<<f, i>>) \/ SetFixed(f, i)
  \/ \E i \in 0 .. MaxIv - 1 : SetIvInv(i)
  \/ IvGen \/ GetTag
  \/ UpdateAad \/ UpdateData \/ CcmCipher \/ Final
  \/ SetTlsAad \/ GcmSeal \/ CcmSeal
  \/ \E i \in 0 .. MaxIv - 1, genuine \in BOOLEAN : GcmOpen(i, genuine) \/ CcmOpen(i, genuine)

AeadSpec == AeadInit /\ [][AeadNext]_aeadVars

------------------------------------------------------------------------------
(* The tag a program gets after a message covers that message: its key, its  *)
(* IV, all its AAD and data, and nothing of the messages before.             *)
TagOfMessage == result.got = result.tag

(* A call answers 0 because the tag it was given is not the message's, and   *)
(* for no other reason; a decryption ends with 1 only if it is.              *)
AnswerIsTrue == result.ok = result.due

(* Each piece comes out at its own place in the key stream of the message.   *)
OutputInOrder ==
  \A i \in 1 .. Len(outs) : outs[i] = [iv |-> said.iv, key |-> said.key, at |-> i]

(* A message is one: what comes out and the tag are of the same data.        *)
MessageWhole == OutputInOrder /\ TagOfMessage

(* An IV is generated once, until the program sets the IV or the key again.  *)
Distinct(s) == \A i, j \in 1 .. Len(s) : s[i] = s[j] => i = j
GeneratedIvFresh == Distinct(gens)

(* A record carries the invocation part of the IV it was encrypted with, and *)
(* its tag covers its own AAD.                                               *)
RecordWhole ==
  \A i \in 1 .. Len(records) :
    LET r == records[i]
    IN r.iv = <<r.fixed, r.sent>> /\ r.aad = Record(r.n)

(* Two records encrypted under one key and fixed part have different IVs.    *)
RecordIvFresh ==
  \A i, j \in 1 .. Len(records) :
    records[i].key = records[j].key /\ records[i].iv = records[j].iv => i = j
==============================================================================
