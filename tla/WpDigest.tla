------------------------------ MODULE WpDigest ------------------------------
(***************************************************************************)
(* Digest contexts (wp_digests.c): the functions its macros make for the   *)
(* digests of wolfCrypt, for MD5-SHA1, which is two of them fed alike, for *)
(* SHAKE-256, whose output length is a parameter.  (The functions a FIPS   *)
(* build has for MD5 make no context.)                                     *)
(*                                                                         *)
(* A wolfCrypt object is the sequence of the pieces it has been fed.  Each *)
(* call of wolfCrypt can fail.                                             *)
(***************************************************************************)
EXTENDS Integers, Sequences, FiniteSets

CONSTANTS
  Digests,         \* kinds of digest looked at
  DigestContexts,  \* contexts of one program
  Inputs,          \* what an update is given, as sequences of pieces
  Chunk,           \* the longest input of wolfCrypt, 0xFFFFFFFF bytes, in pieces
  XofLengths,      \* output lengths asked of the XOF
  MaxFed,          \* bound: pieces of a message
  MaxFailures,     \* bound: failures of wolfCrypt
  DigestHabits     \* what programs do beyond the plain protocol

DigestHabit == {"after_failure", "xof_default"}
ASSUME DigestAssumption ==
  /\ Digests \subseteq {"plain", "md5sha1", "xof"}
  /\ Inputs # {} /\ Inputs \subseteq Seq(STRING) /\ \A i \in Inputs : Len(i) > 0
  /\ Chunk \in Nat \ {0} /\ XofLengths \subseteq Nat \ {0}
  /\ MaxFed \in Nat /\ MaxFailures \in Nat /\ DigestHabits \subseteq DigestHabit

VARIABLES
  digest,    \* the kind of digest
  dctx,      \* [DigestContexts -> context]
  fed,       \* [DigestContexts -> the message and length the program means]
  failures,  \* failures of wolfCrypt so far
  summed     \* the last digest handed out, and the one it was to be

digestVars == <<digest, dctx, fed, failures, summed>>

NoCtx == [made |-> FALSE, a |-> <<>>, b |-> <<>>, outLen |-> 0]
NotFed == [sound |-> FALSE, started |-> FALSE, msg |-> <<>>, len |-> 0]
NothingSummed == [got |-> <<>>, due |-> <<>>]

DigestInit ==
  /\ digest \in Digests /\ dctx = [c \in DigestContexts |-> NoCtx]
  /\ fed = [c \in DigestContexts |-> NotFed] /\ failures = 0 /\ summed = NothingSummed
DigestIdle ==
  /\ digest = "none" /\ dctx = [c \in DigestContexts |-> NoCtx]
  /\ fed = [c \in DigestContexts |-> NotFed] /\ failures = 0 /\ summed = NothingSummed

(* One call of a function of the context fails at its first, second... call *)
(* of wolfCrypt, or never (0).                                              *)
FailsAt == IF failures < MaxFailures THEN 0 .. 4 ELSE {0}
CountFailure(ok) == failures' = IF ok THEN failures ELSE failures + 1

------------------------------------------------------------------------------
(* The objects: one, or the two of MD5-SHA1 one after the other.             *)
InitMd5Sha(c, f) ==
  CASE f = 1 -> [ok |-> FALSE, c |-> c]
    [] f = 2 -> [ok |-> FALSE, c |-> [c EXCEPT !.a = <<>>]]
    [] OTHER -> [ok |-> TRUE, c |-> [c EXCEPT !.a = <<>>, !.b = <<>>]]

Md5ShaUpdateOne(c, data, f) ==
  [ok |-> f # 1, c |-> IF f = 1 THEN c ELSE [c EXCEPT !.a = @ \o data]]
Md5ShaUpdate(c, data, f) ==
  CASE f = 1 -> [ok |-> FALSE, c |-> c]
    [] f = 2 -> [ok |-> FALSE, c |-> [c EXCEPT !.a = @ \o data]]
    [] OTHER -> [ok |-> TRUE, c |-> [c EXCEPT !.a = @ \o data, !.b = @ \o data]]

Md5ShaCopy(src) == [NoCtx EXCEPT !.made = TRUE, !.a = src.a, !.b = src.b]

Calls == IF digest = "md5sha1" THEN 2 ELSE 1

ObjInit(c, f) ==
  IF digest = "md5sha1" THEN InitMd5Sha(c, f)
  ELSE [ok |-> f # 1, c |-> IF f = 1 THEN c ELSE [c EXCEPT !.a = <<>>]]
ObjUpdate(c, data, f) ==
  IF digest = "md5sha1" THEN Md5ShaUpdate(c, data, f)
  ELSE [ok |-> f # 1, c |-> IF f = 1 THEN c ELSE [c EXCEPT !.a = @ \o data]]

------------------------------------------------------------------------------
(* newctx *)
NewCtx(c) ==
  /\ digest # "none" /\ ~dctx[c].made
  /\ dctx' = [dctx EXCEPT ![c] = [NoCtx EXCEPT !.made = TRUE]]
  /\ fed' = [fed EXCEPT ![c] = NotFed]
  /\ UNCHANGED <<digest, failures, summed>>

(* freectx *)
FreeCtx(c) ==
  /\ dctx[c].made
  /\ dctx' = [dctx EXCEPT ![c] = NoCtx] /\ fed' = [fed EXCEPT ![c] = NotFed]
  /\ UNCHANGED <<digest, failures, summed>>

(* init, which for the XOF takes the parameters too; it does not reset the  *)
(* output length.                                                           *)
Begin(c, len, f) ==
  /\ dctx[c].made
  /\ len > 0 => digest = "xof"
  /\ LET r == ObjInit(dctx[c], f)
     IN /\ dctx' = [dctx EXCEPT ![c] =
                      IF r.ok /\ len > 0 THEN [r.c EXCEPT !.outLen = len] ELSE r.c]
        /\ fed' = [fed EXCEPT ![c] =
                     [sound |-> r.ok, started |-> r.ok, msg |-> <<>>, len |-> len]]
        /\ CountFailure(r.ok)
  /\ UNCHANGED <<digest, summed>>

(* update, in chunks of what wolfCrypt takes at once *)
UpdateAll(c, data, f) ==
  LET n == (Len(data) + Chunk - 1) \div Chunk
      loop[k \in 0 .. n] ==
        IF k = 0 THEN [ok |-> TRUE, c |-> c]
        ELSE IF ~loop[k - 1].ok THEN loop[k - 1]
        ELSE ObjUpdate(loop[k - 1].c,
                       SubSeq(data, ((k - 1) * Chunk) + 1,
                              IF k * Chunk < Len(data) THEN k * Chunk ELSE Len(data)),
                       f - ((k - 1) * Calls))
  IN loop[n]

Feed(c, data, f) ==
  /\ dctx[c].made /\ fed[c].started /\ Len(fed[c].msg) + Len(data) <= MaxFed
  /\ fed[c].sound \/ "after_failure" \in DigestHabits
  /\ LET r == UpdateAll(dctx[c], data, f)
     IN /\ dctx' = [dctx EXCEPT ![c] = r.c]
        /\ fed' = [fed EXCEPT ![c].sound = @ /\ r.ok, ![c].msg = @ \o data]
        /\ CountFailure(r.ok)
  /\ UNCHANGED <<digest, summed>>

(* set_ctx_params, of the XOF *)
SetXofLen(c, len) ==
  /\ digest = "xof" /\ dctx[c].made
  /\ dctx' = [dctx EXCEPT ![c].outLen = len]
  /\ fed' = [fed EXCEPT ![c].len = len]
  /\ UNCHANGED <<digest, failures, summed>>

(* dupctx: a copy of the object into memory that is not cleared first *)
XofDup(src) == [NoCtx EXCEPT !.made = TRUE, !.a = src.a, !.outLen = src.outLen]
ObjDup(src) ==
  CASE digest = "md5sha1" -> Md5ShaCopy(src)
    [] digest = "xof" -> XofDup(src)
    [] OTHER -> [NoCtx EXCEPT !.made = TRUE, !.a = src.a]

DupCtx(c, to, f) ==
  /\ dctx[c].made /\ ~dctx[to].made
  /\ IF f \in 1 .. Calls
     THEN UNCHANGED <<dctx, fed>>
     ELSE /\ dctx' = [dctx EXCEPT ![to] = ObjDup(dctx[c])]
          /\ fed' = [fed EXCEPT ![to] = fed[c]]
  /\ CountFailure(f \notin 1 .. Calls)
  /\ UNCHANGED <<digest, summed>>

(* final: the object starts again.  The digest is what each of the objects  *)
(* has been fed, and how long it is.                                        *)
Sum(c) ==
  CASE digest = "md5sha1" -> <<c.a, c.b>>
    [] digest = "xof" -> <<c.a, c.outLen>>
    [] OTHER -> <<c.a>>
SumDue(w) ==
  CASE digest = "md5sha1" -> <<w.msg, w.msg>>
    [] digest = "xof" -> <<w.msg, w.len>>
    [] OTHER -> <<w.msg>>

Finish(c, room, f) ==
  /\ dctx[c].made /\ fed[c].started
  /\ fed[c].sound \/ "after_failure" \in DigestHabits
  /\ digest = "xof" => fed[c].len > 0 \/ "xof_default" \in DigestHabits
  /\ LET c0 == dctx[c]
         ok == room /\ f \notin 1 .. Calls
     IN /\ dctx' = [dctx EXCEPT ![c] =
                      CASE ~room \/ f = 1 -> c0
                        [] room /\ f = 2 /\ Calls = 2 -> [c0 EXCEPT !.a = <<>>]
                        [] OTHER -> [c0 EXCEPT !.a = <<>>, !.b = <<>>]]
        /\ summed' = IF ok THEN [got |-> Sum(c0), due |-> SumDue(fed[c])] ELSE NothingSummed
        /\ fed' = [fed EXCEPT ![c] =
                     IF ok THEN [@ EXCEPT !.started = FALSE]
                     ELSE [@ EXCEPT !.sound = fed[c].sound /\ ~room]]
        /\ CountFailure(ok \/ ~room)
  /\ UNCHANGED digest

DigestNext ==
  \E c \in DigestContexts :
       \/ NewCtx(c) \/ FreeCtx(c)
       \/ \E f \in FailsAt :
            \/ \E len \in XofLengths \cup {0} : Begin(c, len, f)
            \/ \E data \in Inputs : Feed(c, data, f)
            \/ \E to \in DigestContexts : DupCtx(c, to, f)
            \/ \E room \in BOOLEAN : Finish(c, room, f)
       \/ \E len \in XofLengths : SetXofLen(c, len)

DigestSpec == DigestInit /\ [][DigestNext]_digestVars

------------------------------------------------------------------------------
(* A digest handed out is that of all the program fed to this context since *)
(* it began the message, here or in the context it is a copy of, in both    *)
(* halves of MD5-SHA1, and as long as was asked of the XOF.                 *)
DigestOfMessage == summed.got = summed.due
=============================================================================
