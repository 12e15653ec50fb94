-------------------------- MODULE WpOperations_proofs --------------------------
(***************************************************************************)
(* What holds of the contexts of the other operations: digests, MACs, key  *)
(* derivation, RSA encryption and encapsulation, key exchange.             *)
(*                                                                         *)
(* For any data, cut in any way, any chunk and block sizes, and any order  *)
(* of calls of a plain program, failures of single calls among them, the   *)
(* digest, tag, key, ciphertext or secret that comes out is the one of     *)
(* what was asked for and fed in.                                          *)
(*                                                                         *)
(* Loops of the code are recursive functions of the models; what a loop    *)
(* leaves is shown by induction over its rounds (AllNumbers, LoopIs).      *)
(***************************************************************************)
EXTENDS WpDigest, WpMac, WpKdf, WpAsym, WpExchange, SequenceTheorems, WellFoundedInduction,
        TLAPS

(* The empty string, of names that are not set. *)
NoName == ""

(* Induction: a set with 0 that has the next number with each has them all. *)
LEMMA AllNumbers ==
  ASSUME NEW S, 0 \in S, \A k \in Nat : k \in S => k + 1 \in S
  PROVE  \A k \in Nat : k \in S
<1> DEFINE R == {ss \in Nat \X Nat : ss[1] < ss[2]}
           T == Nat \ S
<1>1. IsWellFoundedOn(R, Nat)
  BY NatLessThanWellFounded DEF OpToRel
<1> HIDE DEF R
<1>2. SUFFICES ASSUME T # {} PROVE FALSE
  OBVIOUS
<1>3. T \subseteq Nat
  OBVIOUS
<1> HIDE DEF T
<1>4. PICK m \in T : \A y \in T : ~(<<y, m>> \in R)
  BY <1>1, <1>2, <1>3, WFMin
<1>5. m \in Nat /\ m # 0
  BY DEF T
<1>6. m - 1 \in Nat /\ m - 1 \notin T
  <2>1. m - 1 \in Nat /\ <<m - 1, m>> \in R
    BY <1>5 DEF R
  <2> QED BY <1>4, <2>1
<1>7. m - 1 + 1 \in S
  BY <1>5, <1>6 DEF T
<1> QED BY <1>5, <1>7 DEF T

(* A loop that starts with x and makes each value of the one before it. *)
StaysIn(step, n, S) == \A k \in 1 .. n : \A y \in S : step[k][y] \in S
RunsAs(g, n, x, step) == g[0] = x /\ \A k \in 1 .. n : g[k] = step[k][g[k - 1]]

LEMMA LoopRuns ==
  ASSUME NEW n \in Nat, NEW S, NEW x \in S, NEW step, StaysIn(step, n, S)
  PROVE  \E g \in [0 .. n -> S] : RunsAs(g, n, x, step)
<1> DEFINE Runs(g, m) == g[0] = x /\ \A k \in 1 .. m : g[k] = step[k][g[k - 1]]
           D == {m \in Nat : m <= n => \E g \in [0 .. m -> S] : Runs(g, m)}
<1>1. 0 \in D
  <2>1. Runs([k \in 0 .. 0 |-> x], 0) /\ [k \in 0 .. 0 |-> x] \in [0 .. 0 -> S]
    OBVIOUS
  <2> QED BY <2>1
<1>2. ASSUME NEW m \in Nat, m \in D PROVE m + 1 \in D
  <2>1. SUFFICES ASSUME m + 1 <= n PROVE \E g \in [0 .. m + 1 -> S] : Runs(g, m + 1)
    OBVIOUS
  <2>2. PICK g \in [0 .. m -> S] : Runs(g, m)
    BY <1>2, <2>1
  <2> DEFINE h == [k \in 0 .. m + 1 |-> IF k = m + 1 THEN step[m + 1][g[m]] ELSE g[k]]
  <2>3. step[m + 1][g[m]] \in S
    <3>1. m + 1 \in 1 .. n /\ g[m] \in S
      BY <2>1
    <3> QED BY <3>1 DEF StaysIn
  <2>4. h \in [0 .. m + 1 -> S]
    BY <2>3
  <2>5. \A k \in 0 .. m : h[k] = g[k]
    OBVIOUS
  <2>6. Runs(h, m + 1)
    <3>1. h[m + 1] = step[m + 1][h[m + 1 - 1]]
      BY <2>5
    <3>2. ASSUME NEW k \in 1 .. m PROVE h[k] = step[k][h[k - 1]]
      <4>1. k \in 0 .. m /\ k - 1 \in 0 .. m
        OBVIOUS
      <4> QED BY <2>2, <2>5, <4>1
    <3>3. h[0] = x
      BY <2>2, <2>5
    <3> HIDE DEF h
    <3> QED BY <3>1, <3>2, <3>3
  <2> QED BY <2>4, <2>6
<1> HIDE DEF D
<1>3. n \in D
  BY <1>1, <1>2, AllNumbers
<1> QED BY <1>3 DEF D, RunsAs

(* So it is a function that such a recursion defines. *)
LoopOf(g, n, x, step) == g = [k \in 0 .. n |-> IF k = 0 THEN x ELSE step[k][g[k - 1]]]

LEMMA LoopIs ==
  ASSUME NEW n \in Nat, NEW S, NEW x \in S, NEW step, StaysIn(step, n, S)
  PROVE  \E g \in [0 .. n -> S] : LoopOf(g, n, x, step)
<1>1. PICK g \in [0 .. n -> S] : RunsAs(g, n, x, step)
  BY LoopRuns
<1>2. \A k \in 0 .. n : g[k] = IF k = 0 THEN x ELSE step[k][g[k - 1]]
  BY <1>1 DEF RunsAs
<1>3. LoopOf(g, n, x, step)
  BY <1>2 DEF LoopOf
<1> QED BY <1>3

(* Strings of pieces that follow one another. *)
LEMMA Follow ==
  ASSUME NEW s \in Seq(STRING), NEW t \in Seq(STRING), NEW u \in Seq(STRING)
  PROVE  (s \o t) \o u = s \o (t \o u)
BY ConcatAssociative

LEMMA Joined ==
  ASSUME NEW s \in Seq(STRING), NEW t \in Seq(STRING)
  PROVE  s \o t \in Seq(STRING) /\ s \o <<>> = s /\ <<>> \o s = s
BY ConcatEmptySeq, ConcatProperties

(* The parts of a division. *)
LEMMA Division ==
  ASSUME NEW a \in Nat, NEW b \in Nat \ {0}
  PROVE  /\ a \div b \in Nat /\ b * (a \div b) <= a /\ a < b * (a \div b) + b
         /\ a % b \in 0 .. b - 1 /\ a = b * (a \div b) + (a % b)
OBVIOUS

(* The chunks of an input of m pieces, b at a time, end at its end. *)
LEMMA Chunks ==
  ASSUME NEW m \in Nat \ {0}, NEW b \in Nat \ {0}
  PROVE  LET n == (m + b - 1) \div b
         IN /\ n \in Nat \ {0} /\ m <= n * b
            /\ \A k \in 0 .. n - 1 : k * b \in Nat /\ k * b < m
<1> DEFINE n == (m + b - 1) \div b
<1>1. n \in Nat /\ b * n <= m + b - 1 /\ m + b - 1 < b * n + b
  <2>1. m + b - 1 \in Nat
    OBVIOUS
  <2> QED BY <2>1, Division
<1> HIDE DEF n
<1>2. m <= n * b /\ n # 0
  BY <1>1
<1>3. ASSUME NEW k \in 0 .. n - 1 PROVE k * b \in Nat /\ k * b < m
  <2>1. \E d \in Nat : n = k + 1 + d
    <3>1. n - 1 - k \in Nat /\ n = k + 1 + (n - 1 - k)
      BY <1>1
    <3> QED BY <3>1
  <2>2. PICK d \in Nat : n = k + 1 + d
    BY <2>1
  <2>3. b * n = b * k + b + b * d /\ b * k \in Nat /\ b * d \in Nat
    BY <2>2
  <2> QED BY <1>1, <2>3
<1> QED BY <1>1, <1>2, <1>3 DEF n

------------------------------------------------------------------------------
(* Digests.  Each object holds what the program means it to, as long as no   *)
(* call has failed it.                                                       *)
DigestObject == [made : BOOLEAN, a : Seq(STRING), b : Seq(STRING), outLen : Nat]
DigestMeant == [sound : BOOLEAN, started : BOOLEAN, msg : Seq(STRING), len : Nat]

FedAs(d, w) ==
  w.sound /\ w.started =>
    /\ d.a = w.msg
    /\ digest = "md5sha1" => d.b = w.msg
    /\ digest = "xof" /\ w.len > 0 => d.outLen = w.len

DigestInv ==
  /\ digest \in {"plain", "md5sha1", "xof"}
  /\ dctx \in [DigestContexts -> DigestObject] /\ fed \in [DigestContexts -> DigestMeant]
  /\ \A c \in DigestContexts : FedAs(dctx[c], fed[c])
  /\ summed.got = summed.due

(* What an object has when data has been added to it, if that went well. *)
Added(d, e, data) ==
  /\ e \in DigestObject /\ e.made = d.made /\ e.outLen = d.outLen
  /\ e.a = d.a \o data /\ (digest = "md5sha1" => e.b = d.b \o data)

LEMMA ObjUpdateAdds ==
  ASSUME NEW d \in DigestObject, NEW data \in Seq(STRING), NEW f
  PROVE  LET r == ObjUpdate(d, data, f)
         IN /\ r.ok \in BOOLEAN /\ r.c \in DigestObject
            /\ r = [ok |-> r.ok, c |-> r.c]
            /\ r.ok => Added(d, r.c, data)
<1> DEFINE r == ObjUpdate(d, data, f)
           one == [d EXCEPT !.a = @ \o data]
           both == [d EXCEPT !.a = @ \o data, !.b = @ \o data]
<1>1. d.a \o data \in Seq(STRING) /\ d.b \o data \in Seq(STRING)
  BY ConcatProperties DEF DigestObject
<1>2. one \in DigestObject /\ both \in DigestObject
  BY <1>1 DEF DigestObject
<1> DEFINE Adds == /\ r.ok \in BOOLEAN /\ r.c \in DigestObject
                   /\ r = [ok |-> r.ok, c |-> r.c]
                   /\ r.ok => Added(d, r.c, data)
<1>3. ASSUME digest = "md5sha1" PROVE Adds
  <2>1. \/ r = [ok |-> FALSE, c |-> d] \/ r = [ok |-> FALSE, c |-> one]
        \/ r = [ok |-> TRUE, c |-> both]
    BY <1>3 DEF ObjUpdate, Md5ShaUpdate
  <2>2. Added(d, both, data)
    BY <1>2 DEF Added, DigestObject
  <2> HIDE DEF r, one, both
  <2>3. ASSUME r.ok PROVE Added(d, r.c, data)
    BY <2>1, <2>2, <2>3
  <2>4. r.ok \in BOOLEAN
    <3>1. r.ok = TRUE \/ r.ok = FALSE
      BY <2>1
    <3> QED BY <3>1, Zenon
  <2>5. r.c \in DigestObject
    BY <1>2, <2>1
  <2>6. r = [ok |-> r.ok, c |-> r.c]
    BY <2>1
  <2> QED BY <2>3, <2>4, <2>5, <2>6
<1>4. ASSUME digest # "md5sha1" PROVE Adds
  <2>1. r = [ok |-> FALSE, c |-> d] \/ r = [ok |-> TRUE, c |-> one]
    BY <1>4 DEF ObjUpdate
  <2>2. Added(d, one, data)
    BY <1>2, <1>4 DEF Added, DigestObject
  <2> HIDE DEF r, one, both
  <2>3. ASSUME r.ok PROVE Added(d, r.c, data)
    BY <2>1, <2>2, <2>3
  <2>4. r.ok \in BOOLEAN
    <3>1. r.ok = TRUE \/ r.ok = FALSE
      BY <2>1
    <3> QED BY <3>1, Zenon
  <2>5. r.c \in DigestObject
    BY <1>2, <2>1
  <2>6. r = [ok |-> r.ok, c |-> r.c]
    BY <2>1
  <2> QED BY <2>3, <2>4, <2>5, <2>6
<1> QED BY <1>3, <1>4

LEMMA AddedTwice ==
  ASSUME NEW d \in DigestObject, NEW e, NEW e2,
         NEW s \in Seq(STRING), NEW t \in Seq(STRING), Added(d, e, s), Added(e, e2, t)
  PROVE  Added(d, e2, s \o t)
<1>1. d.a \in Seq(STRING) /\ d.b \in Seq(STRING)
  BY DEF DigestObject
<1> HIDE DEF DigestObject
<1>2. (d.a \o s) \o t = d.a \o (s \o t)
  BY <1>1, Follow
<1>3. (d.b \o s) \o t = d.b \o (s \o t)
  BY <1>1, Follow
<1> QED BY <1>2, <1>3 DEF Added

(* An update of any length adds all of its data, in one or more chunks. *)
LEMMA UpdateAllAdds ==
  ASSUME NEW d \in DigestObject, NEW data \in Seq(STRING), data # <<>>, NEW f \in Int
  PROVE  LET r == UpdateAll(d, data, f)
         IN r.ok \in BOOLEAN /\ r.c \in DigestObject /\ (r.ok => Added(d, r.c, data))
<1> DEFINE n == (Len(data) + Chunk - 1) \div Chunk
           End(k) == IF k * Chunk < Len(data) THEN k * Chunk ELSE Len(data)
           Piece(k) == SubSeq(data, ((k - 1) * Chunk) + 1, End(k))
           Next1(k, r) == IF ~r.ok THEN r
                          ELSE ObjUpdate(r.c, Piece(k), f - ((k - 1) * Calls))
           loop[k \in 0 .. n] ==
             IF k = 0 THEN [ok |-> TRUE, c |-> d]
             ELSE IF ~loop[k - 1].ok THEN loop[k - 1]
             ELSE ObjUpdate(loop[k - 1].c,
                            SubSeq(data, ((k - 1) * Chunk) + 1,
                                   IF k * Chunk < Len(data) THEN k * Chunk ELSE Len(data)),
                            f - ((k - 1) * Calls))
           R == [ok : BOOLEAN, c : DigestObject]
<1>1. UpdateAll(d, data, f) = loop[n]
  BY DEF UpdateAll
<1>2. Len(data) \in Nat \ {0} /\ Chunk \in Nat \ {0}
  BY EmptySeq, DigestAssumption
<1>3. /\ n \in Nat \ {0} /\ Len(data) <= n * Chunk
      /\ \A k \in 0 .. n - 1 : k * Chunk \in Nat /\ k * Chunk < Len(data)
  BY <1>2, Chunks
<1>4. ASSUME NEW k \in 1 .. n PROVE Piece(k) \in Seq(STRING)
  <2>1. k - 1 \in 0 .. n - 1 /\ (k - 1) * Chunk \in Nat
    BY <1>3
  <2>2. End(k) \in Int /\ End(k) <= Len(data)
    BY <1>2
  <2>3. \A i \in ((k - 1) * Chunk) + 1 .. End(k) : data[i] \in STRING
    BY <2>1, <2>2, ElementOfSeq
  <2> HIDE DEF End
  <2>4. ((k - 1) * Chunk) + 1 \in Int
    BY <2>1
  <2> QED BY <2>2, <2>3, <2>4, SubSeqProperties
<1> HIDE DEF n
<1>5. loop[0] = [ok |-> TRUE, c |-> d] /\ \A k \in 1 .. n : loop[k] = Next1(k, loop[k - 1])
  <2> DEFINE step == [k \in 1 .. n |-> [r \in R |-> Next1(k, r)]]
             x == [ok |-> TRUE, c |-> d]
  <2>1. ASSUME NEW k \in 1 .. n, NEW r \in R PROVE Next1(k, r) \in R
    <3>1. CASE ~r.ok
      BY <3>1
    <3>2. CASE r.ok
      <4> DEFINE q == ObjUpdate(r.c, Piece(k), f - ((k - 1) * Calls))
      <4>1. q.ok \in BOOLEAN /\ q.c \in DigestObject /\ q = [ok |-> q.ok, c |-> q.c]
        BY <1>4, ObjUpdateAdds
      <4>2. Next1(k, r) = q
        BY <3>2
      <4> HIDE DEF q, Next1
      <4> QED BY <4>1, <4>2
    <3> QED BY <3>1, <3>2
  <2> HIDE DEF Next1, loop
  <2>2. x \in R /\ n \in Nat
    BY <1>3
  <2>3. \A k \in 1 .. n : \A y \in R : step[k][y] = Next1(k, y)
    OBVIOUS
  <2> HIDE DEF step, x, R
  <2>4. PICK g \in [0 .. n -> R] : LoopOf(g, n, x, step)
    <3>1. StaysIn(step, n, R)
      BY <2>1, <2>3 DEF StaysIn
    <3> QED BY <2>2, <3>1, LoopIs
  <2>5. \A k \in 0 .. n : g[k] = IF k = 0 THEN x ELSE Next1(k, g[k - 1])
    <3>1. \A k \in 0 .. n : g[k] = IF k = 0 THEN x ELSE step[k][g[k - 1]]
      BY <2>4, Zenon DEF LoopOf
    <3>2. \A k \in 0 .. n : k # 0 => k \in 1 .. n /\ g[k - 1] \in R
      BY <2>2
    <3> QED BY <2>3, <3>1, <3>2, Zenon
  <2>6. g = [k \in 0 .. n |-> IF k = 0 THEN x ELSE Next1(k, g[k - 1])]
    BY <2>5
  <2>7. \E l : l = [k \in 0 .. n |-> IF k = 0 THEN x ELSE Next1(k, l[k - 1])]
    BY <2>6, Zenon
  <2>8. loop = [k \in 0 .. n |-> IF k = 0 THEN x ELSE Next1(k, loop[k - 1])]
    BY <2>7, Zenon DEF loop, Next1, Piece, End, x
  <2>9. 0 \in 0 .. n /\ \A k \in 1 .. n : k \in 0 .. n /\ k # 0
    BY <2>2
  <2> QED BY <2>8, <2>9, Zenon DEF x
<1> HIDE DEF loop
<1> DEFINE AddedUpTo(k) == /\ loop[k] \in R
                           /\ loop[k].ok => Added(d, loop[k].c, SubSeq(data, 1, End(k)))
           D == {k \in Nat : k <= n => AddedUpTo(k)}
<1>6. 0 \in D
  <2>1. loop[0].ok /\ loop[0].c = d /\ loop[0] \in R
    BY <1>5
  <2>2. End(0) = 0 /\ SubSeq(data, 1, 0) = <<>>
    BY <1>2, SubSeqEmpty
  <2>3. d.a \o <<>> = d.a /\ d.b \o <<>> = d.b
    BY ConcatEmptySeq DEF DigestObject
  <2>4. Added(d, d, <<>>)
    BY <2>3 DEF Added
  <2>5. SubSeq(data, 1, End(0)) = <<>>
    BY <2>2
  <2> HIDE DEF End, R
  <2>6. AddedUpTo(0)
    BY <2>1, <2>4, <2>5
  <2> QED BY <2>6
<1>7. ASSUME NEW k \in Nat, k \in D PROVE k + 1 \in D
  <2>1. SUFFICES ASSUME k + 1 <= n PROVE AddedUpTo(k + 1)
    OBVIOUS
  <2>2. AddedUpTo(k) /\ k + 1 \in 1 .. n /\ k + 1 - 1 = k
    BY <1>3, <1>7, <2>1
  <2>3. loop[k + 1] = Next1(k + 1, loop[k])
    <3> HIDE DEF Next1
    <3>1. loop[k + 1] = Next1(k + 1, loop[k + 1 - 1])
      <4>1. k + 1 \in 1 .. n
        BY <2>2
      <4> QED BY <1>5, <4>1
    <3> QED BY <2>2, <3>1, Zenon
  <2>4. CASE ~loop[k].ok
    BY <2>2, <2>3, <2>4
  <2>5. CASE loop[k].ok
    <3> DEFINE q == ObjUpdate(loop[k].c, Piece(k + 1), f - ((k + 1 - 1) * Calls))
               e == loop[k].c
    <3>1. loop[k + 1] = q
      BY <2>3, <2>5
    <3>2. Piece(k + 1) \in Seq(STRING) /\ e \in DigestObject
      BY <1>4, <2>2
    <3>3. /\ q.ok \in BOOLEAN /\ q.c \in DigestObject /\ q = [ok |-> q.ok, c |-> q.c]
          /\ q.ok => Added(e, q.c, Piece(k + 1))
      BY <3>2, ObjUpdateAdds
    <3>4. q.ok => Added(d, q.c, SubSeq(data, 1, End(k + 1)))
      <4>0. k \in 0 .. n - 1 /\ k * Chunk \in Nat /\ k * Chunk < Len(data)
        BY <1>3, <2>1
      <4>1. End(k) = k * Chunk /\ End(k) \in 0 .. Len(data) /\ End(k + 1) \in End(k) .. Len(data)
        <5>2. (k + 1) * Chunk = k * Chunk + Chunk
          BY <1>2
        <5> QED BY <1>2, <4>0, <5>2
      <4> HIDE DEF End, AddedUpTo
      <4>2. Piece(k + 1) = SubSeq(data, End(k) + 1, End(k + 1))
        BY <2>2, <4>1
      <4> HIDE DEF Piece
      <4>3. SubSeq(data, 1, End(k)) \in Seq(STRING)
        BY <1>2, <4>1, ElementOfSeq, SubSeqProperties
      <4>4. SubSeq(data, 1, End(k)) \o Piece(k + 1) = SubSeq(data, 1, End(k + 1))
        <5>1. 1 \in 1 .. Len(data) + 1 /\ End(k) \in 1 - 1 .. Len(data)
          BY <1>2, <4>1
        <5> QED BY <4>1, <4>2, <5>1, ConcatAdjacentSubSeq
      <4>5. Added(d, e, SubSeq(data, 1, End(k)))
        BY <2>2, <2>5 DEF AddedUpTo
      <4> HIDE DEF q, e
      <4> QED BY <3>2, <3>3, <4>3, <4>4, <4>5, AddedTwice
    <3> HIDE DEF q, e, End
    <3> QED BY <3>1, <3>3, <3>4
  <2> QED BY <2>2, <2>4, <2>5
<1> HIDE DEF D
<1>8. n \in D
  BY <1>3, <1>6, <1>7, AllNumbers
<1>9. AddedUpTo(n)
  BY <1>3, <1>8 DEF D
<1>10. SubSeq(data, 1, End(n)) = data
  <2>1. End(n) = Len(data)
    BY <1>2, <1>3
  <2> QED BY <2>1, SubSeqFull
<1> QED BY <1>1, <1>9, <1>10

(* A context is fed nothing before it begins, and a copy has what its       *)
(* original has.                                                            *)
LEMMA DigestInitInv == DigestInit => DigestInv
<1> SUFFICES ASSUME DigestInit PROVE DigestInv
  OBVIOUS
<1>1. NoCtx \in DigestObject /\ NotFed \in DigestMeant
  BY EmptySeq DEF NoCtx, NotFed, DigestObject, DigestMeant
<1>2. FedAs(NoCtx, NotFed)
  BY DEF FedAs, NotFed
<1>3. digest \in {"plain", "md5sha1", "xof"} /\ summed.got = summed.due
  BY DigestAssumption DEF DigestInit, NothingSummed
<1> HIDE DEF DigestObject, DigestMeant
<1> QED BY <1>1, <1>2, <1>3 DEF DigestInit, DigestInv

(* A change of one context that keeps what it holds what it means. *)
DigestStep(c, e, w) ==
  /\ dctx' = [dctx EXCEPT ![c] = e] /\ fed' = [fed EXCEPT ![c] = w]
  /\ digest' = digest
LEMMA DigestStepKeeps ==
  ASSUME DigestInv, NEW c \in DigestContexts, NEW e \in DigestObject, NEW w \in DigestMeant,
         DigestStep(c, e, w), FedAs(e, w), summed'.got = summed'.due
  PROVE  DigestInv'
<1> HIDE DEF DigestObject, DigestMeant
<1>1. /\ dctx' \in [DigestContexts -> DigestObject] /\ fed' \in [DigestContexts -> DigestMeant]
      /\ \A x \in DigestContexts :
           dctx'[x] = (IF x = c THEN e ELSE dctx[x]) /\ fed'[x] = (IF x = c THEN w ELSE fed[x])
  BY DEF DigestInv, DigestStep
<1>2. ASSUME NEW x \in DigestContexts PROVE FedAs(dctx[x], fed[x])'
  <2>1. CASE x = c
    <3>1. dctx'[x] = e /\ fed'[x] = w /\ digest' = digest
      BY <1>1, <2>1 DEF DigestStep
    <3> QED BY <3>1 DEF FedAs
  <2>2. CASE x # c
    <3>1. dctx'[x] = dctx[x] /\ fed'[x] = fed[x] /\ digest' = digest /\ FedAs(dctx[x], fed[x])
      BY <1>1, <2>2 DEF DigestStep, DigestInv
    <3> QED BY <3>1 DEF FedAs
  <2> QED BY <2>1, <2>2
<1> QED BY <1>1, <1>2 DEF DigestInv, DigestStep

LEMMA ObjInitEmpties ==
  ASSUME NEW d \in DigestObject, NEW f
  PROVE  LET r == ObjInit(d, f)
         IN /\ r.ok \in BOOLEAN /\ r.c \in DigestObject
            /\ r.ok => r.c.a = <<>> /\ (digest = "md5sha1" => r.c.b = <<>>)
<1> DEFINE r == ObjInit(d, f)
           one == [d EXCEPT !.a = <<>>]
           both == [d EXCEPT !.a = <<>>, !.b = <<>>]
<1>1. one \in DigestObject /\ both \in DigestObject
  BY EmptySeq DEF DigestObject
<1>2. one.a = <<>> /\ both.a = <<>> /\ both.b = <<>>
  BY DEF DigestObject
<1>3. \/ r = [ok |-> FALSE, c |-> d] \/ r = [ok |-> FALSE, c |-> one]
      \/ r = [ok |-> TRUE, c |-> both]
      \/ digest # "md5sha1" /\ r = [ok |-> TRUE, c |-> one]
  <2>1. CASE digest = "md5sha1"
    BY <2>1 DEF ObjInit, InitMd5Sha
  <2>2. CASE digest # "md5sha1" /\ f = 1
    BY <2>2 DEF ObjInit
  <2>3. CASE digest # "md5sha1" /\ f # 1
    BY <2>3 DEF ObjInit
  <2> QED BY <2>1, <2>2, <2>3
<1> HIDE DEF r, one, both
<1>4. r.ok = TRUE \/ r.ok = FALSE
  BY <1>3
<1>5. r.ok \in BOOLEAN
  BY <1>4, Zenon
<1>6. r.c \in DigestObject
  BY <1>1, <1>3
<1>7. r.ok => r.c.a = <<>> /\ (digest = "md5sha1" => r.c.b = <<>>)
  BY <1>2, <1>3
<1> QED BY <1>5, <1>6, <1>7 DEF r

LEMMA DigestBegins ==
  ASSUME DigestInv, NEW c \in DigestContexts, NEW len \in XofLengths \cup {0}, NEW f,
         Begin(c, len, f)
  PROVE  DigestInv'
<1> DEFINE r == ObjInit(dctx[c], f)
           e == IF r.ok /\ len > 0 THEN [r.c EXCEPT !.outLen = len] ELSE r.c
           w == [sound |-> r.ok, started |-> r.ok, msg |-> <<>>, len |-> len]
<1>1. dctx[c] \in DigestObject
  BY DEF DigestInv
<1>2. r.ok \in BOOLEAN /\ r.c \in DigestObject
      /\ (r.ok => r.c.a = <<>> /\ (digest = "md5sha1" => r.c.b = <<>>))
  BY <1>1, ObjInitEmpties
<1>3. DigestStep(c, e, w) /\ UNCHANGED summed
  BY DEF Begin, DigestStep, DigestInv
<1> HIDE DEF r
<1>4. len \in Nat
  BY DigestAssumption
<1>5. w \in DigestMeant
  BY <1>2, <1>4, EmptySeq DEF DigestMeant
<1>6. e \in DigestObject
  BY <1>2, <1>4 DEF DigestObject
<1>7. FedAs(e, w)
  <2>1. SUFFICES ASSUME r.ok PROVE FedAs(e, w)
    BY DEF FedAs
  <2>2. e.a = r.c.a /\ e.b = r.c.b /\ (len > 0 => e.outLen = len)
    BY <1>2, <2>1 DEF DigestObject
  <2>3. w.msg = <<>> /\ w.len = len
    OBVIOUS
  <2> HIDE DEF e, w
  <2> QED BY <1>2, <2>1, <2>2, <2>3 DEF FedAs
<1> HIDE DEF e, w
<1> QED BY <1>3, <1>5, <1>6, <1>7, DigestStepKeeps DEF DigestInv

LEMMA DigestFeeds ==
  ASSUME DigestInv, NEW c \in DigestContexts, NEW data \in Inputs, NEW f \in Int,
         Feed(c, data, f)
  PROVE  DigestInv'
<1> DEFINE d == dctx[c]
           w0 == fed[c]
           r == UpdateAll(d, data, f)
           e == r.c
           w == [w0 EXCEPT !.sound = @ /\ r.ok, !.msg = @ \o data]
<1>1. d \in DigestObject /\ w0 \in DigestMeant /\ FedAs(d, w0)
  BY DEF DigestInv
<1>2. data \in Seq(STRING) /\ data # <<>>
  BY DigestAssumption, EmptySeq
<1>3. r.ok \in BOOLEAN /\ r.c \in DigestObject /\ (r.ok => Added(d, r.c, data))
  BY <1>1, <1>2, UpdateAllAdds
<1>4. DigestStep(c, e, w) /\ UNCHANGED summed
  BY DEF Feed, DigestStep, DigestInv
<1> HIDE DEF r, d, w0
<1>5. w0.msg \o data \in Seq(STRING)
  BY <1>1, <1>2, Joined DEF DigestMeant
<1>6. w \in DigestMeant
  BY <1>1, <1>3, <1>5 DEF DigestMeant
<1>7. /\ w.sound = (w0.sound /\ r.ok) /\ w.started = w0.started /\ w.len = w0.len
      /\ w.msg = w0.msg \o data
  BY <1>1 DEF DigestMeant
<1>8. FedAs(e, w)
  <2> HIDE DEF w
  <2>1. SUFFICES ASSUME w.sound, w.started PROVE FedAs(e, w)
    BY DEF FedAs
  <2>2. w0.sound /\ r.ok /\ w0.started
    BY <1>7, <2>1
  <2> QED BY <1>1, <1>3, <1>7, <2>2 DEF FedAs, Added
<1> HIDE DEF e, w
<1>9. e \in DigestObject
  BY <1>3 DEF e
<1> QED BY <1>4, <1>6, <1>8, <1>9, DigestStepKeeps DEF DigestInv

LEMMA DigestDups ==
  ASSUME DigestInv, NEW c \in DigestContexts, NEW to \in DigestContexts, NEW f,
         DupCtx(c, to, f)
  PROVE  DigestInv'
<1>1. CASE f \in 1 .. Calls
  <2>1. UNCHANGED <<dctx, fed, digest, summed>>
    BY <1>1 DEF DupCtx
  <2> QED BY <2>1 DEF DigestInv, FedAs
<1>2. CASE f \notin 1 .. Calls
  <2> DEFINE d == dctx[c]
             e == ObjDup(d)
             w == fed[c]
  <2>1. DigestStep(to, e, w) /\ UNCHANGED summed
    BY <1>2 DEF DupCtx, DigestStep, DigestInv
  <2>2. d \in DigestObject /\ w \in DigestMeant /\ FedAs(d, w)
    BY DEF DigestInv
  <2> HIDE DEF d, w
  <2>3. /\ e \in DigestObject /\ e.a = d.a /\ (digest = "md5sha1" => e.b = d.b)
        /\ (digest = "xof" => e.outLen = d.outLen)
    BY <2>2, EmptySeq DEF ObjDup, Md5ShaCopy, XofDup, NoCtx, DigestObject
  <2> HIDE DEF e
  <2>4. FedAs(e, w)
    BY <2>2, <2>3 DEF FedAs
  <2> QED BY <2>1, <2>2, <2>3, <2>4, DigestStepKeeps DEF DigestInv
<1> QED BY <1>1, <1>2

LEMMA DigestEnds ==
  ASSUME DigestInv, DigestHabits = {}, NEW c \in DigestContexts, NEW room \in BOOLEAN, NEW f,
         Finish(c, room, f)
  PROVE  DigestInv'
<1> DEFINE d == dctx[c]
           w0 == fed[c]
           ok == room /\ f \notin 1 .. Calls
           e == CASE ~room \/ f = 1 -> d
                  [] room /\ f = 2 /\ Calls = 2 -> [d EXCEPT !.a = <<>>]
                  [] OTHER -> [d EXCEPT !.a = <<>>, !.b = <<>>]
           w == IF ok THEN [w0 EXCEPT !.started = FALSE] ELSE [w0 EXCEPT !.sound = w0.sound /\ ~room]
<1>1. d \in DigestObject /\ w0 \in DigestMeant /\ FedAs(d, w0)
  BY DEF DigestInv
<1>2. /\ DigestStep(c, e, w) /\ w0.sound /\ w0.started /\ (digest = "xof" => w0.len > 0)
      /\ summed' = IF ok THEN [got |-> Sum(d), due |-> SumDue(w0)] ELSE NothingSummed
  <2>1. dctx' = [dctx EXCEPT ![c] = e]
    BY DEF Finish
  <2>2. fed' = [fed EXCEPT ![c] = w]
    <3>1. fed' = [fed EXCEPT ![c] = IF ok THEN [@ EXCEPT !.started = FALSE]
                                    ELSE [@ EXCEPT !.sound = fed[c].sound /\ ~room]]
      BY Zenon DEF Finish
    <3>2. CASE ok
      <4>1. w = [w0 EXCEPT !.started = FALSE]
        BY <3>2
      <4> HIDE DEF w, ok
      <4> QED BY <3>1, <3>2, <4>1
    <3>3. CASE ~ok
      <4>1. w = [w0 EXCEPT !.sound = w0.sound /\ ~room]
        BY <3>3
      <4> HIDE DEF w, ok
      <4>2. w = [fed[c] EXCEPT !.sound = fed[c].sound /\ ~room]
        BY <4>1, Zenon DEF w0
      <4> QED BY <3>1, <3>3, <4>2, Zenon
    <3> QED BY <3>2, <3>3
  <2>3. digest' = digest /\ w0.sound /\ w0.started /\ (digest = "xof" => w0.len > 0)
    BY DEF Finish
  <2>4. summed' = IF ok THEN [got |-> Sum(d), due |-> SumDue(w0)] ELSE NothingSummed
    BY DEF Finish
  <2> HIDE DEF e, w
  <2> QED BY <2>1, <2>2, <2>3, <2>4 DEF DigestStep
<1> HIDE DEF d, w0
<1>3. Sum(d) = SumDue(w0)
  BY <1>1, <1>2 DEF FedAs, Sum, SumDue
<1>4. summed'.got = summed'.due
  BY <1>2, <1>3 DEF NothingSummed
<1>5. e \in DigestObject
  BY <1>1, EmptySeq DEF DigestObject
<1>6. w \in DigestMeant
  BY <1>1 DEF DigestMeant
<1>7. FedAs(e, w)
  <2>1. CASE ok
    <3>1. w.started = FALSE
      BY <1>1, <2>1 DEF DigestMeant
    <3> HIDE DEF w
    <3> QED BY <3>1 DEF FedAs
  <2>2. CASE ~ok /\ room
    <3>1. w.sound = FALSE
      BY <1>1, <2>2 DEF DigestMeant
    <3> HIDE DEF w
    <3> QED BY <3>1 DEF FedAs
  <2>3. CASE ~room
    <3>1. e = d
      BY <2>3
    <3>2. w = [w0 EXCEPT !.sound = w0.sound]
      BY <2>3, <1>1 DEF DigestMeant
    <3>3. w = w0
      BY <1>1, <3>2 DEF DigestMeant
    <3> QED BY <1>1, <3>1, <3>3
  <2> QED BY <2>1, <2>2, <2>3
<1> HIDE DEF e, w
<1> QED BY <1>2, <1>4, <1>5, <1>6, <1>7, DigestStepKeeps

LEMMA DigestInvKept ==
  ASSUME DigestHabits = {}
  PROVE  DigestInv /\ [DigestNext]_digestVars => DigestInv'
<1> SUFFICES ASSUME DigestInv, [DigestNext]_digestVars PROVE DigestInv'
  OBVIOUS
<1>1. CASE UNCHANGED digestVars
  BY <1>1 DEF digestVars, DigestInv, FedAs
<1>2. ASSUME NEW c \in DigestContexts, NewCtx(c) PROVE DigestInv'
  <2> DEFINE e == [NoCtx EXCEPT !.made = TRUE]
  <2>1. e \in DigestObject /\ NotFed \in DigestMeant /\ FedAs(e, NotFed)
    BY EmptySeq DEF NoCtx, NotFed, DigestObject, DigestMeant, FedAs
  <2>2. DigestStep(c, e, NotFed) /\ UNCHANGED summed
    BY <1>2 DEF NewCtx, DigestStep, DigestInv
  <2> HIDE DEF e
  <2> QED BY <2>1, <2>2, DigestStepKeeps DEF DigestInv
<1>3. ASSUME NEW c \in DigestContexts, FreeCtx(c) PROVE DigestInv'
  <2>1. NoCtx \in DigestObject /\ NotFed \in DigestMeant /\ FedAs(NoCtx, NotFed)
    BY EmptySeq DEF NoCtx, NotFed, DigestObject, DigestMeant, FedAs
  <2>2. DigestStep(c, NoCtx, NotFed) /\ UNCHANGED summed
    BY <1>3 DEF FreeCtx, DigestStep, DigestInv
  <2> QED BY <2>1, <2>2, DigestStepKeeps DEF DigestInv
<1>4. ASSUME NEW c \in DigestContexts, NEW len \in XofLengths, SetXofLen(c, len)
      PROVE  DigestInv'
  <2> DEFINE d == dctx[c]
             w0 == fed[c]
             e == [d EXCEPT !.outLen = len]
             w == [w0 EXCEPT !.len = len]
  <2>1. d \in DigestObject /\ w0 \in DigestMeant /\ FedAs(d, w0) /\ len \in Nat
    BY DigestAssumption DEF DigestInv
  <2>2. DigestStep(c, e, w) /\ UNCHANGED summed
    BY <1>4 DEF SetXofLen, DigestStep, DigestInv
  <2> HIDE DEF d, w0
  <2>3. /\ e \in DigestObject /\ w \in DigestMeant
        /\ e.a = d.a /\ e.b = d.b /\ e.outLen = len
    BY <2>1 DEF DigestObject, DigestMeant
  <2>4. w.sound = w0.sound /\ w.started = w0.started /\ w.msg = w0.msg /\ w.len = len
    BY <2>1 DEF DigestMeant
  <2> HIDE DEF e, w
  <2>5. FedAs(e, w)
    BY <2>1, <2>3, <2>4 DEF FedAs
  <2> QED BY <2>2, <2>3, <2>5, DigestStepKeeps DEF DigestInv
<1>5. ASSUME NEW f \in FailsAt PROVE f \in Int
  BY DEF FailsAt
<1>6. CASE DigestNext
  BY <1>2, <1>3, <1>4, <1>5, <1>6, DigestBegins, DigestFeeds, DigestDups, DigestEnds
     DEF DigestNext
<1> QED BY <1>1, <1>6

(* A digest handed out is that of what the program fed the context it came   *)
(* from since it began the message, for messages and updates of any length   *)
(* and any number of contexts and copies, as long as the program gives up a  *)
(* context that failed it and tells an XOF how much it wants.                *)
THEOREM SpecDigestOfMessage ==
  ASSUME DigestHabits = {}
  PROVE  DigestSpec => []DigestOfMessage
<1>1. DigestInv => DigestOfMessage
  BY DEF DigestInv, DigestOfMessage
<1>2. DigestInit => DigestInv
  BY DigestInitInv
<1>3. DigestInv /\ [DigestNext]_digestVars => DigestInv'
  BY DigestInvKept
<1> QED BY <1>1, <1>2, <1>3, PTL DEF DigestSpec

------------------------------------------------------------------------------
(* MACs.  What a context holds is what the program has said of it.           *)
MacText == {"", "SHA256", "SHA512", "AES-128-CBC", "AES-256-CBC", "AES-128-GCM", "AES-256-GCM",
            "unknown", "AES", "128", "256", "k16", "k32", "k64", "iv1"}
MacPart == [alg : MacText, key : MacText, data : Seq(STRING)]
MacObject == [alg : MacText, size : MacText, key : MacText, iv : MacText, in : MacPart]
MacMeant == [alg : MacText, key : MacText, iv : MacText, msg : Seq(STRING),
             phase : {"new", "ready", "done"}]
Cleared(w) == mac = "cmac" /\ w.phase = "done"

(* The object is keyed with the key said, under the algorithm said, ...      *)
KeyAsSaid(d, w) ==
  /\ d.alg = w.alg
  /\ mac = "gmac" => d.iv = w.iv
  /\ mac = "cmac" => w.iv = ""
  /\ ~Cleared(w) => d.in.key = w.key
  /\ ~Cleared(w) /\ w.key # "" => IF mac = "hmac" THEN w.alg # "" /\ d.in.alg = w.alg
                                  ELSE d.in.alg = AesOf(w.key)
  /\ mac # "hmac" => /\ w.key \in {"", "k16", "k32"}
                     /\ w.alg # "" /\ w.key # "" => w.key = KeyOfCipher(w.alg)
(* ... and has been fed what the program gave it.                            *)
MsgAsSaid(d, w) ==
  /\ w.phase # "done" => d.in.data = w.msg
  /\ w.phase = "new" => w.msg = <<>>
  /\ mac = "hmac" /\ w.phase = "done" => d.in.data = <<>>
  /\ w.phase = "ready" => /\ w.alg # "" /\ w.key # ""
                          /\ mac = "hmac" => d.size = w.alg
                          /\ mac = "gmac" => Len(w.msg) < Word
AsSaid(d, w) == KeyAsSaid(d, w) /\ MsgAsSaid(d, w)

(* Keys are what the program made them of. *)
MacMaterial == [key : KeyNames \cup {"none", "no object"}, cipher : MacText]
KeyInv ==
  /\ mkeys \in [MacKeys -> MacMaterial] /\ madeOf = mkeys
  /\ mac # "cmac" => \A m \in MacKeys : mkeys[m].cipher = ""
  /\ gen = [key |-> gen.key, cipher |-> gen.cipher, gave |-> gen.gave, used |-> gen.used]
  /\ gen # NoGen /\ ~gen.used =>
       /\ gen.key \in KeyNames /\ gen.cipher \in MacText /\ (mac # "cmac" => gen.cipher = "")
       /\ gen.gave = [key |-> gen.key, cipher |-> gen.cipher]

MacInv ==
  /\ mac \in {"none", "hmac", "cmac", "gmac"} /\ (signs => mac \in {"hmac", "cmac"})
  /\ mctx \in [MacContexts -> MacObject] /\ macSaid \in [MacContexts -> MacMeant]
  /\ \A c \in MacContexts : AsSaid(mctx[c], macSaid[c])
  /\ KeyInv
  /\ tag.got = tag.due /\ compared.answer = compared.truth

------------------------------------------------------------------------------
(* What a context that was given a key and parameters holds: k is the key,   *)
(* given with the call or in the parameters.                                 *)
Rekeyed(d, e, k) ==
  /\ e.in.key = k
  /\ IF mac = "hmac" THEN e.alg # "" /\ e.in.alg = e.alg
     ELSE k \in {"k16", "k32"} /\ e.in.alg = AesOf(k)
  /\ e.in.data = IF mac = "gmac" THEN d.in.data ELSE <<>>
TakenIn(d, e, k, p) ==
  /\ e \in MacObject /\ e.alg = (IF p.alg = "" THEN d.alg ELSE p.alg)
  /\ IF k = "" THEN e.in = d.in ELSE Rekeyed(d, e, k)
AnswerOf(r) == r.ok \in BOOLEAN /\ r.c \in MacObject

MacNames == KeyNames \cup {""}
GivenKey(key, p) == IF key # "" THEN key ELSE p.key

LEMMA MacTexts ==
  /\ MacNames \subseteq MacText /\ AlgNames \cup {""} \subseteq MacText
  /\ {"", "AES", "128", "256", "iv1"} \subseteq MacText
  /\ "" \notin Good /\ Good \subseteq AlgNames
<1>1. AlgNames \in {{}, {"SHA256", "SHA512", "unknown"},
                    {"AES-128-CBC", "AES-256-CBC", "AES-256-GCM"}, {"AES-128-GCM", "AES-256-CBC"}}
  BY DEF AlgNames
<1> QED BY <1>1 DEF MacNames, KeyNames, MacText, Good

LEMMA HmacSetKeyTakes ==
  ASSUME NEW d \in MacObject, NEW key \in MacText
  PROVE  LET r == HmacSetKey(d, key, TRUE)
         IN /\ AnswerOf(r)
            /\ r.ok => /\ r.c.alg = d.alg /\ d.alg # "" /\ r.c.size = d.size /\ r.c.iv = d.iv
                       /\ r.c.in = [alg |-> d.alg, key |-> key, data |-> <<>>]
<1> DEFINE r == HmacSetKey(d, key, TRUE)
           in == [alg |-> d.alg, key |-> key, data |-> <<>>]
           e == [d EXCEPT !.key = key, !.in = in]
           no == [d EXCEPT !.key = ""]
<1>1. in \in MacPart
  BY EmptySeq DEF MacPart, MacObject
<1> HIDE DEF in, MacPart
<1>2. e \in MacObject /\ no \in MacObject
  <2> HIDE DEF MacText
  <2> QED BY <1>1, MacTexts DEF MacObject
<1>3. e.alg = d.alg /\ e.size = d.size /\ e.iv = d.iv /\ e.in = in
  BY DEF MacObject
<1>4. r = (IF d.alg = "" THEN [ok |-> FALSE, c |-> no] ELSE [ok |-> TRUE, c |-> e])
  BY Zenon DEF HmacSetKey, Ok, Refuse, in
<1> HIDE DEF r, e, no, MacObject
<1>5. CASE d.alg = ""
  <2>1. r.ok = FALSE /\ r.c = no
    BY <1>4, <1>5
  <2> QED BY <1>2, <2>1 DEF AnswerOf, r
<1>6. CASE d.alg # ""
  <2>1. r.ok = TRUE /\ r.c = e
    BY <1>4, <1>6
  <2> QED BY <1>2, <1>3, <1>6, <2>1 DEF AnswerOf, r, in
<1> QED BY <1>5, <1>6

LEMMA AesSetKeyTakes ==
  ASSUME NEW d \in MacObject, NEW key \in KeyNames, mac \in {"cmac", "gmac"}
  PROVE  LET r == AesSetKey(d, key, TRUE)
         IN /\ AnswerOf(r)
            /\ r.ok => /\ r.c.alg = d.alg /\ r.c.size = d.size /\ r.c.iv = d.iv
                       /\ key \in {"k16", "k32"}
                       /\ r.c.in = [alg |-> AesOf(key), key |-> key,
                                    data |-> IF mac = "gmac" THEN d.in.data ELSE <<>>]
<1> DEFINE r == AesSetKey(d, key, TRUE)
           in == [alg |-> AesOf(key), key |-> key,
                  data |-> IF mac = "gmac" THEN d.in.data ELSE <<>>]
           e == [d EXCEPT !.key = key, !.in = in]
           no == [d EXCEPT !.key = key]
<1>1. in \in MacPart /\ key \in MacText
  BY MacTexts, EmptySeq DEF MacPart, MacObject, AesOf, MacNames
<1> HIDE DEF in, MacPart
<1>2. e \in MacObject /\ no \in MacObject
  BY <1>1 DEF MacObject
<1>3. e.alg = d.alg /\ e.size = d.size /\ e.iv = d.iv /\ e.in = in
  BY DEF MacObject
<1>4. \/ r = [ok |-> FALSE, c |-> d] \/ r = [ok |-> FALSE, c |-> no]
      \/ key # "k64" /\ r = [ok |-> TRUE, c |-> e]
  BY DEF AesSetKey, Ok, Refuse, in
<1> HIDE DEF r, e, no, MacObject
<1>5. CASE r = [ok |-> FALSE, c |-> d] \/ r = [ok |-> FALSE, c |-> no]
  <2>1. r.ok = FALSE /\ r.c \in MacObject
    BY <1>2, <1>5
  <2> QED BY <2>1 DEF AnswerOf, r
<1>6. CASE key # "k64" /\ r = [ok |-> TRUE, c |-> e]
  <2>1. r.ok = TRUE /\ r.c = e /\ key \in {"k16", "k32"}
    BY <1>6 DEF KeyNames
  <2> QED BY <1>2, <1>3, <2>1 DEF AnswerOf, r, in
<1> QED BY <1>4, <1>5, <1>6

(* A key, given alone. *)
SetKeyOf(d, key) == IF mac = "hmac" THEN HmacSetKey(d, key, TRUE) ELSE AesSetKey(d, key, TRUE)
SameButIn(d, e) == e.alg = d.alg /\ e.size = d.size /\ e.iv = d.iv

LEMMA SetKeyTakes ==
  ASSUME NEW d \in MacObject, NEW key \in KeyNames, mac \in {"hmac", "cmac", "gmac"}
  PROVE  LET r == SetKeyOf(d, key)
         IN AnswerOf(r) /\ (r.ok => SameButIn(d, r.c) /\ Rekeyed(d, r.c, key))
<1> DEFINE r == SetKeyOf(d, key)
<1>1. key \in MacText
  BY MacTexts DEF MacNames
<1>2. CASE mac = "hmac"
  <2>1. r = HmacSetKey(d, key, TRUE)
    BY <1>2 DEF SetKeyOf
  <2> DEFINE q == HmacSetKey(d, key, TRUE)
             in == [alg |-> d.alg, key |-> key, data |-> <<>>]
  <2>2. /\ AnswerOf(q)
        /\ q.ok => /\ q.c.alg = d.alg /\ d.alg # "" /\ q.c.size = d.size /\ q.c.iv = d.iv
                   /\ q.c.in = in
    BY <1>1, HmacSetKeyTakes
  <2>3. in.alg = d.alg /\ in.key = key /\ in.data = <<>>
    OBVIOUS
  <2> HIDE DEF in, q
  <2>4. ASSUME q.ok PROVE SameButIn(d, q.c) /\ Rekeyed(d, q.c, key)
    BY <1>2, <2>2, <2>3, <2>4 DEF SameButIn, Rekeyed
  <2> QED BY <2>1, <2>2, <2>4 DEF q
<1>3. CASE mac # "hmac"
  <2>1. r = AesSetKey(d, key, TRUE)
    BY <1>3 DEF SetKeyOf
  <2> DEFINE q == AesSetKey(d, key, TRUE)
             in == [alg |-> AesOf(key), key |-> key,
                    data |-> IF mac = "gmac" THEN d.in.data ELSE <<>>]
  <2>2. /\ AnswerOf(q)
        /\ q.ok => /\ q.c.alg = d.alg /\ q.c.size = d.size /\ q.c.iv = d.iv
                   /\ key \in {"k16", "k32"} /\ q.c.in = in
    BY <1>3, AesSetKeyTakes
  <2>3. /\ in.alg = AesOf(key) /\ in.key = key
        /\ in.data = IF mac = "gmac" THEN d.in.data ELSE <<>>
    OBVIOUS
  <2> HIDE DEF in, q
  <2>4. ASSUME q.ok PROVE SameButIn(d, q.c) /\ Rekeyed(d, q.c, key)
    BY <1>3, <2>2, <2>3, <2>4 DEF SameButIn, Rekeyed
  <2> QED BY <2>1, <2>2, <2>4 DEF q
<1> QED BY <1>2, <1>3

(* The parameters: the name first. *)
MacP == [alg : MacText, key : MacNames, iv : MacText]
MacNamed(d, p) ==
  CASE mac = "hmac" -> (CASE p.alg = "" -> Ok(d)
                          [] p.alg = "unknown" -> Refuse([d EXCEPT !.alg = ""])
                          [] OTHER -> Ok([d EXCEPT !.alg = p.alg, !.size = p.alg]))
    [] mac = "cmac" -> (CASE p.alg = "" -> Ok(d)
                          [] p.alg \in Good -> Ok([d EXCEPT !.alg = p.alg, !.size = "AES"])
                          [] OTHER -> Refuse([d EXCEPT !.alg = "AES", !.size = "AES"]))
    [] OTHER -> (CASE p.alg = "" -> Ok(d) [] p.alg \in Good -> Ok([d EXCEPT !.alg = p.alg])
                   [] OTHER -> Refuse(d))
Named(d, e, p) ==
  e.alg = (IF p.alg = "" THEN d.alg ELSE p.alg) /\ e.in = d.in /\ e.iv = d.iv

LEMMA MacNamedTakes ==
  ASSUME NEW d \in MacObject, NEW p \in MacP, mac \in {"hmac", "cmac", "gmac"}
  PROVE  LET r == MacNamed(d, p) IN AnswerOf(r) /\ (r.ok => Named(d, r.c, p))
<1> DEFINE r == MacNamed(d, p)
           e1 == [d EXCEPT !.alg = p.alg, !.size = p.alg]
           e2 == [d EXCEPT !.alg = p.alg, !.size = "AES"]
           e3 == [d EXCEPT !.alg = p.alg]
           n1 == [d EXCEPT !.alg = ""]
           n2 == [d EXCEPT !.alg = "AES", !.size = "AES"]
<1> HIDE DEF MacText, MacPart
<1>1. /\ "" \in MacText /\ "AES" \in MacText /\ p.alg \in MacText
  BY MacTexts DEF MacP
<1>2. e1 \in MacObject /\ e2 \in MacObject /\ e3 \in MacObject
  BY <1>1 DEF MacObject
<1>3. n1 \in MacObject /\ n2 \in MacObject
  BY <1>1 DEF MacObject
<1>4. /\ e1.alg = p.alg /\ e1.in = d.in /\ e1.iv = d.iv
      /\ e2.alg = p.alg /\ e2.in = d.in /\ e2.iv = d.iv
      /\ e3.alg = p.alg /\ e3.in = d.in /\ e3.iv = d.iv
  BY DEF MacObject
<1> DEFINE Done == AnswerOf(r) /\ (r.ok => Named(d, r.c, p))
<1> HIDE DEF r, MacObject
<1>5. ASSUME NEW e \in MacObject, Named(d, e, p), r = Ok(e) PROVE Done
  <2>1. r.ok = TRUE /\ r.c = e
    BY <1>5 DEF Ok
  <2> QED BY <1>5, <2>1 DEF AnswerOf
<1>6. ASSUME NEW e \in MacObject, r = Refuse(e) PROVE Done
  <2>1. r.ok = FALSE /\ r.c = e
    BY <1>6 DEF Refuse
  <2> QED BY <1>6, <2>1 DEF AnswerOf
<1>7. p.alg # "" => Named(d, e1, p) /\ Named(d, e2, p) /\ Named(d, e3, p)
  <2> HIDE DEF e1, e2, e3
  <2> QED BY <1>4 DEF Named
<1> HIDE DEF e1, e2, e3, n1, n2, Done
<1>8. ASSUME p.alg = "" PROVE Done
  <2>1. r = Ok(d)
    <3>1. CASE mac = "hmac"
      BY <1>8, <3>1 DEF r, MacNamed
    <3>2. CASE mac = "cmac"
      BY <1>8, <3>2, MacTexts DEF r, MacNamed
    <3>3. CASE mac = "gmac"
      BY <1>8, <3>3, MacTexts DEF r, MacNamed
    <3> QED BY <3>1, <3>2, <3>3
  <2>2. Named(d, d, p)
    BY <1>8 DEF Named
  <2> QED BY <1>5, <2>1, <2>2
<1>9. ASSUME p.alg # "", mac = "hmac" PROVE Done
  <2>1. r = Ok(e1) \/ r = Refuse(n1)
    BY <1>9 DEF r, MacNamed, e1, n1
  <2> QED BY <1>2, <1>3, <1>5, <1>6, <1>7, <1>9, <2>1
<1>10. ASSUME p.alg # "", mac = "cmac" PROVE Done
  <2>1. r = Ok(e2) \/ r = Refuse(n2)
    BY <1>10 DEF r, MacNamed, e2, n2
  <2> QED BY <1>2, <1>3, <1>5, <1>6, <1>7, <1>10, <2>1
<1>11. ASSUME p.alg # "", mac = "gmac" PROVE Done
  <2>1. r = Ok(e3) \/ r = Refuse(d)
    BY <1>11 DEF r, MacNamed, e3
  <2> QED BY <1>2, <1>3, <1>5, <1>6, <1>7, <1>11, <2>1
<1>12. Done
  BY <1>8, <1>9, <1>10, <1>11
<1> QED BY <1>12 DEF Done, r

(* What a call with parameters does, but for the IV. *)
ParamsDone(d, p) ==
  LET named == MacNamed(d, p)
  IN IF named.ok /\ p.key # "" THEN SetKeyOf(named.c, p.key) ELSE named

LEMMA ParamsDoneTakes ==
  ASSUME NEW d \in MacObject, NEW p \in MacP, mac \in {"hmac", "cmac", "gmac"}
  PROVE  LET r == ParamsDone(d, p)
         IN AnswerOf(r) /\ (r.ok => TakenIn(d, r.c, p.key, p) /\ r.c.iv = d.iv)
<1> DEFINE named == MacNamed(d, p)
           r == ParamsDone(d, p)
<1>1. AnswerOf(named) /\ (named.ok => Named(d, named.c, p))
  BY MacNamedTakes
<1>2. r = IF named.ok /\ p.key # "" THEN SetKeyOf(named.c, p.key) ELSE named
  BY Zenon DEF ParamsDone
<1> HIDE DEF named, r, MacObject
<1>3. CASE named.ok /\ p.key # ""
  <2> DEFINE q == SetKeyOf(named.c, p.key)
  <2>1. p.key \in KeyNames /\ named.c \in MacObject
    BY <1>1, <1>3 DEF MacP, MacNames, AnswerOf
  <2>2. AnswerOf(q) /\ (q.ok => SameButIn(named.c, q.c) /\ Rekeyed(named.c, q.c, p.key))
    BY <2>1, SetKeyTakes
  <2>3. r = q
    BY <1>2, <1>3
  <2> HIDE DEF q
  <2>4. ASSUME q.ok PROVE TakenIn(d, q.c, p.key, p) /\ q.c.iv = d.iv
    <3>1. SameButIn(named.c, q.c) /\ Named(d, named.c, p) /\ q.c \in MacObject
      BY <1>1, <1>3, <2>2, <2>4 DEF AnswerOf
    <3>2. Rekeyed(d, q.c, p.key)
      BY <1>1, <1>3, <2>2, <2>4 DEF Rekeyed, Named
    <3> QED BY <1>3, <3>1, <3>2 DEF TakenIn, SameButIn, Named
  <2> QED BY <2>2, <2>3, <2>4 DEF r
<1>4. CASE ~(named.ok /\ p.key # "")
  <2>1. r = named
    BY <1>2, <1>4
  <2>2. ASSUME r.ok PROVE TakenIn(d, r.c, p.key, p) /\ r.c.iv = d.iv
    <3>1. Named(d, named.c, p) /\ named.c \in MacObject /\ p.key = ""
      BY <1>1, <1>4, <2>1, <2>2 DEF AnswerOf
    <3> QED BY <2>1, <3>1 DEF TakenIn, Named
  <2> QED BY <1>1, <2>1, <2>2 DEF r
<1> QED BY <1>3, <1>4

IvTaken(d, e, p) == mac = "gmac" => e.iv = (IF p.iv = "" THEN d.iv ELSE p.iv)

LEMMA SetParamsTakes ==
  ASSUME NEW d \in MacObject, NEW p \in MacP, mac \in {"hmac", "cmac", "gmac"}
  PROVE  LET r == MacSetParams(d, p)
         IN AnswerOf(r) /\ (r.ok => TakenIn(d, r.c, p.key, p) /\ IvTaken(d, r.c, p))
<1> DEFINE q == ParamsDone(d, p)
           r == MacSetParams(d, p)
<1>1. AnswerOf(q) /\ (q.ok => TakenIn(d, q.c, p.key, p) /\ q.c.iv = d.iv)
  BY ParamsDoneTakes
<1>2. CASE mac = "hmac"
  <2>1. MacNamed(d, p) = CASE p.alg = "" -> Ok(d)
                           [] p.alg = "unknown" -> Refuse([d EXCEPT !.alg = ""])
                           [] OTHER -> Ok([d EXCEPT !.alg = p.alg, !.size = p.alg])
    BY <1>2 DEF MacNamed
  <2>2. r = HmacSetParams(d, p)
    BY <1>2 DEF MacSetParams
  <2>3. r = q
    BY <1>2, <2>1, <2>2, Zenon DEF ParamsDone, HmacSetParams, SetKeyOf
  <2> HIDE DEF q
  <2> QED BY <1>1, <1>2, <2>3 DEF IvTaken
<1>3. CASE mac = "cmac"
  <2>1. MacNamed(d, p) = CASE p.alg = "" -> Ok(d)
                           [] p.alg \in Good -> Ok([d EXCEPT !.alg = p.alg, !.size = "AES"])
                           [] OTHER -> Refuse([d EXCEPT !.alg = "AES", !.size = "AES"])
    BY <1>3 DEF MacNamed
  <2>2. r = CmacSetParams(d, p) /\ mac # "hmac"
    BY <1>3 DEF MacSetParams
  <2>3. r = q
    BY <2>1, <2>2, Zenon DEF ParamsDone, CmacSetParams, SetKeyOf
  <2> HIDE DEF q
  <2> QED BY <1>1, <1>3, <2>3 DEF IvTaken
<1>4. CASE mac = "gmac"
  <2>1. MacNamed(d, p) = CASE p.alg = "" -> Ok(d) [] p.alg \in Good -> Ok([d EXCEPT !.alg = p.alg])
                           [] OTHER -> Refuse(d)
    BY <1>4 DEF MacNamed
  <2>2. r = GmacSetParams(d, p) /\ mac # "hmac"
    BY <1>4 DEF MacSetParams
  <2>3. r = IF q.ok /\ p.iv # "" THEN Ok([q.c EXCEPT !.iv = p.iv]) ELSE q
    BY <2>1, <2>2, Zenon DEF ParamsDone, GmacSetParams, SetKeyOf
  <2> HIDE DEF q, r
  <2>4. CASE q.ok /\ p.iv # ""
    <3> DEFINE e == [q.c EXCEPT !.iv = p.iv]
    <3>1. q.c \in MacObject /\ p.iv \in MacText
      BY <1>1 DEF AnswerOf, MacP
    <3>2. /\ e \in MacObject /\ e.alg = q.c.alg /\ e.in = q.c.in /\ e.iv = p.iv
      <4> HIDE DEF MacText, MacPart
      <4> QED BY <3>1 DEF MacObject
    <3>3. r.ok = TRUE /\ r.c = e
      BY <2>3, <2>4 DEF Ok
    <3> HIDE DEF e, MacObject
    <3>4. TakenIn(d, e, p.key, p)
      BY <1>1, <2>4, <3>2 DEF TakenIn, Rekeyed
    <3>5. AnswerOf(r) /\ (r.ok => TakenIn(d, r.c, p.key, p) /\ IvTaken(d, r.c, p))
      BY <2>4, <3>2, <3>3, <3>4 DEF IvTaken, AnswerOf
    <3> QED BY <3>5 DEF r
  <2>5. CASE ~(q.ok /\ p.iv # "")
    <3>1. r = q /\ (q.ok => p.iv = "")
      BY <2>3, <2>5
    <3>2. AnswerOf(r) /\ (r.ok => TakenIn(d, r.c, p.key, p) /\ IvTaken(d, r.c, p))
      BY <1>1, <3>1 DEF IvTaken
    <3> QED BY <3>2 DEF r
  <2> QED BY <2>4, <2>5
<1> QED BY <1>2, <1>3, <1>4

(* The init functions: parameters, then the key of the call. *)
Sized(e) == CASE mac = "hmac" -> [e EXCEPT !.size = e.alg]
              [] mac = "cmac" -> [e EXCEPT !.size = "AES"] [] OTHER -> e

LEMMA StartTakes ==
  ASSUME NEW d \in MacObject, NEW p \in MacP, NEW key \in MacNames,
         mac \in {"hmac", "cmac", "gmac"}
  PROVE  LET r == MacStart(d, key, p)
         IN /\ AnswerOf(r)
            /\ r.ok => /\ TakenIn(d, r.c, GivenKey(key, p), p) /\ IvTaken(d, r.c, p)
                       /\ mac = "hmac" => r.c.size = r.c.alg
<1> DEFINE q == MacSetParams(d, p)
           e == Sized(q.c)
           s == SetKeyOf(e, key)
           r == MacStart(d, key, p)
           Done == /\ AnswerOf(r)
                   /\ r.ok => /\ TakenIn(d, r.c, GivenKey(key, p), p) /\ IvTaken(d, r.c, p)
                              /\ mac = "hmac" => r.c.size = r.c.alg
<1>1. AnswerOf(q) /\ (q.ok => TakenIn(d, q.c, p.key, p) /\ IvTaken(d, q.c, p))
  BY SetParamsTakes
<1>2. q.ok \in BOOLEAN /\ q.c \in MacObject
  BY <1>1 DEF AnswerOf
<1>3. /\ ~q.ok => r = q
      /\ q.ok /\ key # "" => r = s
      /\ q.ok /\ key = "" => r.ok = TRUE /\ r.c = e
  <2>1. CASE mac = "hmac"
    <3>1. e = [q.c EXCEPT !.size = q.c.alg] /\ r = HmacInit(d, key, p) /\ q = HmacSetParams(d, p)
      BY <2>1 DEF Sized, MacStart, MacSetParams
    <3>2. s = HmacSetKey(e, key, TRUE)
      BY <2>1 DEF SetKeyOf
    <3> HIDE DEF q, e, s, r
    <3>3. r = IF ~q.ok THEN q ELSE IF key # "" THEN s ELSE [ok |-> TRUE, c |-> e]
      BY <3>1, <3>2, Zenon DEF HmacInit, Ok
    <3> QED BY <3>3
  <2>2. CASE mac = "cmac"
    <3>1. e = [q.c EXCEPT !.size = "AES"] /\ r = CmacInit(d, key, p) /\ q = CmacSetParams(d, p)
      BY <2>2 DEF Sized, MacStart, MacSetParams
    <3>2. s = AesSetKey(e, key, TRUE)
      BY <2>2 DEF SetKeyOf
    <3> HIDE DEF q, e, s, r
    <3>3. r = IF ~q.ok THEN q ELSE IF key # "" THEN s ELSE [ok |-> TRUE, c |-> e]
      BY <3>1, <3>2, Zenon DEF CmacInit, Ok
    <3> QED BY <3>3
  <2>3. CASE mac = "gmac"
    <3>1. e = q.c /\ r = GmacInit(d, key, p) /\ q = GmacSetParams(d, p)
      BY <2>3 DEF Sized, MacStart, MacSetParams
    <3>2. s = AesSetKey(q.c, key, TRUE)
      BY <2>3, <3>1 DEF SetKeyOf
    <3> HIDE DEF q, e, s, r
    <3>3. r = IF q.ok /\ key # "" THEN s ELSE q
      BY <3>1, <3>2, Zenon DEF GmacInit
    <3>4. q.ok => q.ok = TRUE
      BY <1>2
    <3> QED BY <3>1, <3>3, <3>4
  <2> QED BY <2>1, <2>2, <2>3
<1>4. /\ e \in MacObject /\ e.alg = q.c.alg /\ e.in = q.c.in /\ e.iv = q.c.iv
      /\ mac = "hmac" => e.size = e.alg
  <2> HIDE DEF q, MacText, MacPart
  <2>1. "AES" \in MacText
    BY MacTexts
  <2>2. CASE mac = "hmac"
    BY <1>2, <2>2 DEF Sized, MacObject
  <2>3. CASE mac = "cmac"
    BY <1>2, <2>1, <2>3 DEF Sized, MacObject
  <2>4. CASE mac = "gmac"
    BY <1>2, <2>4 DEF Sized, MacObject
  <2> QED BY <2>2, <2>3, <2>4
<1> HIDE DEF q, e, r, Done, MacObject
<1>5. ASSUME ~q.ok PROVE Done
  <2>1. r = q /\ ~r.ok /\ AnswerOf(r)
    BY <1>1, <1>3, <1>5
  <2> QED BY <2>1 DEF Done
<1>6. ASSUME q.ok, key = "" PROVE Done
  <2>1. r.ok = TRUE /\ r.c = e /\ GivenKey(key, p) = p.key
    BY <1>3, <1>6 DEF GivenKey
  <2>2. TakenIn(d, e, p.key, p) /\ IvTaken(d, e, p)
    BY <1>1, <1>4, <1>6 DEF TakenIn, Rekeyed, IvTaken
  <2>3. AnswerOf(r)
    BY <1>4, <2>1 DEF AnswerOf
  <2> QED BY <1>4, <2>1, <2>2, <2>3 DEF Done
<1>7. ASSUME q.ok, key # "" PROVE Done
  <2>1. r = s /\ GivenKey(key, p) = key /\ key \in KeyNames
    BY <1>3, <1>7 DEF GivenKey, MacNames
  <2>2. AnswerOf(s) /\ (s.ok => SameButIn(e, s.c) /\ Rekeyed(e, s.c, key))
    BY <1>4, <2>1, SetKeyTakes
  <2> HIDE DEF s
  <2>3. mac = "gmac" => e.in.data = d.in.data
    BY <1>1, <1>4, <1>7 DEF TakenIn, Rekeyed
  <2>4. ASSUME s.ok PROVE TakenIn(d, s.c, key, p) /\ IvTaken(d, s.c, p)
    <3>1. Rekeyed(d, s.c, key) /\ SameButIn(e, s.c) /\ s.c \in MacObject
      BY <2>2, <2>3, <2>4 DEF Rekeyed, AnswerOf
    <3>2. TakenIn(d, q.c, p.key, p) /\ IvTaken(d, q.c, p)
      BY <1>1, <1>7
    <3> QED BY <1>4, <1>7, <3>1, <3>2 DEF TakenIn, IvTaken, SameButIn
  <2>5. s.ok /\ mac = "hmac" => s.c.size = s.c.alg
    BY <1>4, <2>2 DEF SameButIn
  <2> QED BY <2>1, <2>2, <2>4, <2>5 DEF Done
<1>8. Done
  BY <1>2, <1>5, <1>6, <1>7
<1> QED BY <1>8 DEF Done, r

(* An update adds all of its data, whatever its length. *)
LEMMA MacUpdateAdds ==
  ASSUME NEW d \in MacObject, NEW data \in Seq(STRING), data # <<>>
  PROVE  MacUpdate(d, data) = [d EXCEPT !.in.data = @ \o data]
<1> DEFINE n == (Len(data) + Word - 2) \div (Word - 1)
           End(j) == IF j * (Word - 1) < Len(data) THEN j * (Word - 1) ELSE Len(data)
           Piece(j) == SubSeq(data, End(j - 1) + 1, End(j))
           Next1(j, r) == [r EXCEPT !.in.data = @ \o Piece(j)]
           loop[k \in 0 .. n] ==
             IF k = 0 THEN d
             ELSE [loop[k - 1] EXCEPT !.in.data = @ \o SubSeq(data, End(k - 1) + 1, End(k))]
           R == MacObject
           UpTo(k) == [d EXCEPT !.in.data = @ \o SubSeq(data, 1, End(k))]
<1>1. CASE mac = "gmac"
  BY <1>1 DEF MacUpdate, GmacUpdate
<1>2. CASE mac # "gmac"
  <2>1. MacUpdate(d, data) = loop[n]
    BY <1>2, Zenon DEF MacUpdate, MacUpdateChunks
  <2>2. Len(data) \in Nat \ {0} /\ Word - 1 \in Nat \ {0}
    BY EmptySeq, MacAssumption
  <2>3. /\ n \in Nat \ {0} /\ Len(data) <= n * (Word - 1)
        /\ \A k \in 0 .. n - 1 : k * (Word - 1) \in Nat /\ k * (Word - 1) < Len(data)
    <3>1. n = (Len(data) + (Word - 1) - 1) \div (Word - 1)
      BY <2>2, MacAssumption
    <3> HIDE DEF n
    <3> QED BY <2>2, <3>1, Chunks
  <2> HIDE DEF n
  <2>4. ASSUME NEW k \in 0 .. n - 1
        PROVE  /\ End(k) = k * (Word - 1) /\ End(k) \in 0 .. Len(data)
               /\ End(k + 1) \in End(k) .. Len(data)
    <3>1. k * (Word - 1) \in Nat /\ k * (Word - 1) < Len(data)
      BY <2>3
    <3>2. (k + 1) * (Word - 1) = k * (Word - 1) + (Word - 1)
      BY <2>2
    <3> QED BY <2>2, <3>1, <3>2
  <2>5. End(0) = 0 /\ End(n) = Len(data)
    BY <2>2, <2>3
  <2> HIDE DEF End
  <2>6. ASSUME NEW k \in 0 .. n - 1
        PROVE  /\ SubSeq(data, 1, End(k)) \in Seq(STRING)
               /\ SubSeq(data, End(k) + 1, End(k + 1)) \in Seq(STRING)
               /\ SubSeq(data, 1, End(k)) \o SubSeq(data, End(k) + 1, End(k + 1))
                    = SubSeq(data, 1, End(k + 1))
    <3>1. 1 \in 1 .. Len(data) + 1 /\ End(k) \in 1 - 1 .. Len(data)
          /\ End(k + 1) \in End(k) .. Len(data)
      BY <2>2, <2>4
    <3>2. \A i \in 1 .. Len(data) : data[i] \in STRING
      BY ElementOfSeq
    <3>3. SubSeq(data, 1, End(k)) \in Seq(STRING)
      BY <2>2, <2>4, <3>2, SubSeqProperties
    <3>4. SubSeq(data, End(k) + 1, End(k + 1)) \in Seq(STRING)
      <4>1. End(k) + 1 \in Int /\ End(k + 1) \in Int /\ End(k) + 1 \in Nat \ {0}
        BY <2>2, <2>4
      <4>2. \A i \in End(k) + 1 .. End(k + 1) : data[i] \in STRING
        BY <2>2, <2>4, <3>2
      <4> QED BY <4>1, <4>2, SubSeqProperties
    <3>5. SubSeq(data, 1, End(k)) \o SubSeq(data, End(k) + 1, End(k + 1))
            = SubSeq(data, 1, End(k + 1))
      BY <3>1, ConcatAdjacentSubSeq
    <3> QED BY <3>3, <3>4, <3>5
  <2>7. loop[0] = d /\ \A k \in 1 .. n : loop[k] = Next1(k, loop[k - 1])
    <3> DEFINE step == [k \in 1 .. n |-> [r \in R |-> Next1(k, r)]]
    <3>1. ASSUME NEW k \in 1 .. n, NEW r \in R PROVE Next1(k, r) \in R
      <4> DEFINE t == Piece(k)
      <4>1. t \in Seq(STRING)
        <5>1. k - 1 \in 0 .. n - 1 /\ k - 1 + 1 = k
          BY <2>3
        <5> QED BY <2>6, <5>1
      <4> HIDE DEF t
      <4>2. r.in \in MacPart /\ r.in.data \in Seq(STRING)
        BY DEF MacObject, MacPart
      <4>3. r.in.data \o t \in Seq(STRING)
        BY <4>1, <4>2, Joined
      <4>4. [r.in EXCEPT !.data = @ \o t] \in MacPart
        BY <4>2, <4>3 DEF MacPart
      <4>5. Next1(k, r) = [r EXCEPT !.in = [r.in EXCEPT !.data = @ \o t]]
        BY DEF t
      <4> HIDE DEF Next1, MacPart
      <4> QED BY <4>4, <4>5 DEF MacObject
    <3> HIDE DEF Next1, loop
    <3>2. n \in Nat
      BY <2>3
    <3>3. \A k \in 1 .. n : \A y \in R : step[k][y] = Next1(k, y)
      OBVIOUS
    <3> HIDE DEF step, R
    <3>4. PICK g \in [0 .. n -> R] : LoopOf(g, n, d, step)
      <4>1. StaysIn(step, n, R) /\ d \in R
        BY <3>1, <3>3 DEF StaysIn, R
      <4> QED BY <3>2, <4>1, LoopIs
    <3>5. \A k \in 0 .. n : g[k] = IF k = 0 THEN d ELSE Next1(k, g[k - 1])
      <4>1. \A k \in 0 .. n : g[k] = IF k = 0 THEN d ELSE step[k][g[k - 1]]
        BY <3>4, Zenon DEF LoopOf
      <4>2. \A k \in 0 .. n : k # 0 => k \in 1 .. n /\ g[k - 1] \in R
        BY <3>2
      <4> QED BY <3>3, <4>1, <4>2, Zenon
    <3>6. g = [k \in 0 .. n |-> IF k = 0 THEN d ELSE Next1(k, g[k - 1])]
      BY <3>5
    <3>7. \E l : l = [k \in 0 .. n |-> IF k = 0 THEN d ELSE Next1(k, l[k - 1])]
      BY <3>6, Zenon
    <3>8. loop = [k \in 0 .. n |-> IF k = 0 THEN d ELSE Next1(k, loop[k - 1])]
      BY <3>7, Zenon DEF loop, Next1, Piece
    <3>9. 0 \in 0 .. n /\ \A k \in 1 .. n : k \in 0 .. n /\ k # 0
      BY <3>2
    <3> QED BY <3>8, <3>9, Zenon
  <2> HIDE DEF loop
  <2> DEFINE D == {k \in Nat : k <= n => loop[k] = UpTo(k)}
  <2>8. d.in \in MacPart /\ d.in.data \in Seq(STRING)
    BY DEF MacObject, MacPart
  <2>9. 0 \in D
    <3>1. SubSeq(data, 1, End(0)) = <<>>
      BY <2>5, SubSeqEmpty
    <3>2. d.in.data \o <<>> = d.in.data
      BY <2>8, ConcatEmptySeq
    <3>3. [d EXCEPT !.in.data = @ \o <<>>] = d
      BY <3>2 DEF MacObject, MacPart
    <3> QED BY <2>7, <3>1, <3>3
  <2>10. ASSUME NEW k \in Nat, k \in D PROVE k + 1 \in D
    <3>1. SUFFICES ASSUME k + 1 <= n PROVE loop[k + 1] = UpTo(k + 1)
      OBVIOUS
    <3>2. k \in 0 .. n - 1 /\ k + 1 \in 1 .. n /\ k + 1 - 1 = k /\ loop[k] = UpTo(k)
      BY <2>3, <2>10, <3>1
    <3>0. Piece(k + 1) = SubSeq(data, End(k) + 1, End(k + 1))
      <4>1. (k + 1) - 1 = k
        OBVIOUS
      <4> QED BY <4>1, Zenon
    <3> HIDE DEF Piece
    <3> DEFINE s == SubSeq(data, 1, End(k))
               t == Piece(k + 1)
    <3>3. s \in Seq(STRING) /\ t \in Seq(STRING) /\ s \o t = SubSeq(data, 1, End(k + 1))
      BY <2>6, <3>0, <3>2
    <3>4. loop[k + 1] = Next1(k + 1, loop[k])
      <4> HIDE DEF Next1, UpTo
      <4>1. loop[k + 1] = Next1(k + 1, loop[k + 1 - 1])
        BY <2>7, <3>2
      <4> QED BY <3>2, <4>1, Zenon
    <3>5. loop[k + 1] = [loop[k] EXCEPT !.in.data = @ \o t]
      BY <3>4
    <3>6. loop[k] = [d EXCEPT !.in.data = @ \o s]
      BY <3>2
    <3> HIDE DEF s, t
    <3>7. (d.in.data \o s) \o t = d.in.data \o (s \o t)
      BY <2>8, <3>3, Follow
    <3>8. [[d EXCEPT !.in.data = @ \o s] EXCEPT !.in.data = @ \o t]
            = [d EXCEPT !.in.data = @ \o (s \o t)]
      BY <3>7 DEF MacObject, MacPart
    <3> QED BY <3>3, <3>5, <3>6, <3>8
  <2> HIDE DEF D
  <2>11. n \in D
    BY <2>3, <2>9, <2>10, AllNumbers
  <2>12. loop[n] = UpTo(n)
    BY <2>3, <2>11 DEF D
  <2>13. SubSeq(data, 1, End(n)) = data
    BY <2>5, SubSeqFull
  <2> QED BY <2>1, <2>12, <2>13
<1> QED BY <1>1, <1>2

(* A copy holds what its original holds. *)
LEMMA MacDupSame ==
  ASSUME NEW d \in MacObject, mac \in {"hmac", "cmac", "gmac"}
  PROVE  LET r == MacDup(d) IN AnswerOf(r) /\ (r.ok => r.c = d)
<1> DEFINE r == MacDup(d)
           no == [d EXCEPT !.key = ""]
           same == [d EXCEPT !.key = d.key, !.in = @]
<1>1. no \in MacObject /\ same = d
  <2>1. "" \in MacText
    BY MacTexts
  <2> HIDE DEF MacText, MacPart
  <2> QED BY <2>1 DEF MacObject
<1> HIDE DEF no
<1>2. \/ r = [ok |-> TRUE, c |-> d] \/ r = [ok |-> FALSE, c |-> d] \/ r = [ok |-> FALSE, c |-> no]
  <2>1. CASE mac = "hmac"
    BY <1>1, <2>1 DEF MacDup, HmacDup, HmacSetKey, Ok, Refuse, no
  <2>2. CASE mac = "cmac"
    BY <1>1, <2>2 DEF MacDup, CmacDup, AesSetKey, Ok, Refuse
  <2>3. CASE mac = "gmac"
    BY <1>1, <2>3 DEF MacDup, GmacDup, AesSetKey, Ok, Refuse
  <2> QED BY <2>1, <2>2, <2>3
<1> HIDE DEF r, MacObject
<1>3. r.ok = TRUE \/ r.ok = FALSE
  BY <1>2
<1>4. r.ok \in BOOLEAN
  BY <1>3, Zenon
<1>5. r.c \in MacObject /\ (r.ok => r.c = d)
  BY <1>1, <1>2
<1> QED BY <1>4, <1>5 DEF AnswerOf, r

(* What the program has said when it has made a call. *)
SaidAfter(w, key, p, phase) == [Saying(w, key, p) EXCEPT !.phase = phase]
Means(v, u, w, k, p, phase) ==
  /\ v \in MacMeant /\ v.phase = phase /\ v.msg = <<>>
  /\ v.alg = (IF p.alg = "" THEN w.alg ELSE p.alg)
  /\ v.iv = (IF p.iv = "" THEN w.iv ELSE p.iv)
  /\ v.key = (IF k = "" THEN w.key ELSE k)
  /\ u.alg = v.alg /\ u.key = v.key

LEMMA SayingMeans ==
  ASSUME NEW w \in MacMeant, NEW key \in MacNames, NEW p \in MacP,
         NEW phase \in {"new", "ready"}
  PROVE  Means(SaidAfter(w, key, p, phase), Saying(w, key, p), w, GivenKey(key, p), p, phase)
<1> DEFINE k == GivenKey(key, p)
           a == IF p.alg = "" THEN w.alg ELSE p.alg
           b == IF k = "" THEN w.key ELSE k
           i == IF p.iv = "" THEN w.iv ELSE p.iv
           u == [w EXCEPT !.alg = a, !.key = b, !.iv = i, !.msg = <<>>]
           v == [u EXCEPT !.phase = phase]
<1>1. Saying(w, key, p) = u
  BY Zenon DEF Saying, GivenKey
<1>2. k \in MacText /\ p.alg \in MacText /\ p.iv \in MacText
  BY MacTexts DEF MacP, GivenKey
<1> HIDE DEF k, MacText
<1>3. a \in MacText /\ b \in MacText /\ i \in MacText
  BY <1>2 DEF MacMeant
<1> HIDE DEF a, b, i
<1>4. u \in MacMeant /\ u.alg = a /\ u.key = b /\ u.iv = i /\ u.msg = <<>>
  BY <1>3, EmptySeq DEF MacMeant
<1> HIDE DEF u
<1>5. /\ v \in MacMeant /\ v.alg = a /\ v.key = b /\ v.iv = i /\ v.msg = <<>> /\ v.phase = phase
  BY <1>4 DEF MacMeant
<1> HIDE DEF v
<1>6. v = SaidAfter(w, key, p, phase)
  BY <1>1, Zenon DEF v, SaidAfter
<1> QED BY <1>1, <1>4, <1>5, <1>6 DEF Means, a, b, i, k

LEMMA NothingIsShort == Len(<<>>) < Word
<1>1. Len(<<>>) = 0
  BY EmptySeq
<1> QED BY <1>1, MacAssumption

(* A call a plain program makes leaves the context holding what it then has  *)
(* said.                                                                     *)
LEMMA CallKeeps ==
  ASSUME NEW d \in MacObject, NEW e \in MacObject, NEW w \in MacMeant, NEW v \in MacMeant,
         NEW k \in MacNames, NEW p \in MacP, mac \in {"hmac", "cmac", "gmac"},
         AsSaid(d, w), TakenIn(d, e, k, p), IvTaken(d, e, p),
         v.alg = (IF p.alg = "" THEN w.alg ELSE p.alg),
         v.iv = (IF p.iv = "" THEN w.iv ELSE p.iv),
         v.key = (IF k = "" THEN w.key ELSE k), v.msg = <<>>,
         v.phase \in {"new", "ready"}, mac = "cmac" => p.iv = "",
         \* what a plain program does
         mac = "gmac" => w.phase = "new",
         p.alg # "" /\ d.in.key # "" => k # "",
         mac # "hmac" /\ v.alg # "" /\ v.key \in {"k16", "k32"} => v.key = KeyOfCipher(v.alg),
         k = "" => w.phase = "new" \/ (mac = "hmac" /\ w.phase = "done"),
         v.phase = "ready" => /\ v.alg # "" /\ v.key # "" /\ (mac = "hmac" => e.size = e.alg)
  PROVE  AsSaid(e, v)
<1> HIDE DEF MacObject, MacMeant, MacText, MacP
<1>0. Len(v.msg) < Word
  BY NothingIsShort, Zenon
<1>1. e.alg = v.alg /\ ~Cleared(v)
  BY DEF AsSaid, KeyAsSaid, TakenIn, Cleared
<1>2. CASE k = ""
  <2>1. e.in = d.in /\ v.key = w.key /\ ~Cleared(w)
    BY <1>2 DEF TakenIn, Cleared
  <2>2. e.in.key = v.key
    BY <2>1 DEF AsSaid, KeyAsSaid
  <2>3. v.key # "" => v.alg = w.alg
    BY <1>2, <2>1, <2>2
  <2>4. v.key # "" => IF mac = "hmac" THEN v.alg # "" /\ e.in.alg = v.alg
                      ELSE e.in.alg = AesOf(v.key)
    BY <2>1, <2>3 DEF AsSaid, KeyAsSaid
  <2>5. mac # "hmac" => v.key \in {"", "k16", "k32"}
    BY <2>1 DEF AsSaid, KeyAsSaid
  <2>6. e.in.data = <<>>
    BY <1>2, <2>1 DEF AsSaid, MsgAsSaid
  <2>7. KeyAsSaid(e, v)
    BY <1>1, <2>2, <2>4, <2>5 DEF AsSaid, KeyAsSaid, IvTaken
  <2>8. MsgAsSaid(e, v)
    BY <1>0, <1>1, <2>6 DEF MsgAsSaid
  <2> QED BY <2>7, <2>8 DEF AsSaid
<1>3. CASE k # ""
  <2>1. v.key = k /\ Rekeyed(d, e, k)
    BY <1>3 DEF TakenIn
  <2>2. e.in.data = <<>>
    <3>1. mac = "gmac" => d.in.data = <<>>
      BY DEF AsSaid, MsgAsSaid
    <3> QED BY <2>1, <3>1 DEF Rekeyed
  <2>3. KeyAsSaid(e, v)
    BY <1>1, <1>3, <2>1 DEF AsSaid, KeyAsSaid, IvTaken, Rekeyed
  <2>4. MsgAsSaid(e, v)
    BY <1>0, <1>1, <2>2 DEF MsgAsSaid
  <2> QED BY <2>3, <2>4 DEF AsSaid
<1> QED BY <1>2, <1>3

------------------------------------------------------------------------------
(* The calls.  A context that refused is given up, and means nothing.        *)
LEMMA NewMeansNothing ==
  MacNew \in MacObject /\ NotSaid \in MacMeant /\ AsSaid(MacNew, NotSaid)
<1>1. "" \in MacText /\ "new" \in {"new", "ready", "done"} /\ <<>> \in Seq(STRING)
  BY MacTexts, EmptySeq
<1>2. NotKeyed \in MacPart
  <2> HIDE DEF MacText
  <2> QED BY <1>1 DEF NotKeyed, MacPart
<1>3. MacNew \in MacObject
  <2> HIDE DEF MacText, MacPart
  <2> QED BY <1>1, <1>2 DEF MacNew, MacObject
<1>4. NotSaid \in MacMeant
  <2> HIDE DEF MacText
  <2> QED BY <1>1 DEF NotSaid, MacMeant
<1>5. /\ MacNew.alg = "" /\ MacNew.iv = "" /\ MacNew.in.key = "" /\ MacNew.in.data = <<>>
      /\ NotSaid.alg = "" /\ NotSaid.iv = "" /\ NotSaid.key = "" /\ NotSaid.msg = <<>>
      /\ NotSaid.phase = "new"
  BY DEF MacNew, NotSaid, NotKeyed
<1>6. AsSaid(MacNew, NotSaid)
  BY <1>5 DEF AsSaid, KeyAsSaid, MsgAsSaid, Cleared
<1> QED BY <1>3, <1>4, <1>6

LEMMA AnswerKeeps ==
  ASSUME MacInv, NEW c \in MacContexts, NEW r, NEW w, AnswerOf(r),
         r.ok => w \in MacMeant /\ AsSaid(r.c, w), Answer(c, r, w)
  PROVE  MacInv'
<1> DEFINE e == IF r.ok THEN r.c ELSE MacNew
           v == IF r.ok THEN w ELSE NotSaid
<1> HIDE DEF MacObject, MacMeant
<1>1. e \in MacObject /\ v \in MacMeant /\ AsSaid(e, v)
  <2>1. CASE r.ok
    BY <2>1 DEF AnswerOf
  <2>2. CASE ~r.ok
    BY <2>2, NewMeansNothing
  <2> QED BY <2>1, <2>2
<1>2. /\ mctx' = [mctx EXCEPT ![c] = e] /\ macSaid' = [macSaid EXCEPT ![c] = v]
      /\ tag' = NoTag /\ compared' = NothingAsked
      /\ UNCHANGED <<mac, signs, mkeys, madeOf, gen>>
  BY DEF Answer
<1> HIDE DEF e, v
<1>3. /\ mctx' \in [MacContexts -> MacObject] /\ macSaid' \in [MacContexts -> MacMeant]
      /\ \A x \in MacContexts : /\ mctx'[x] = (IF x = c THEN e ELSE mctx[x])
                                /\ macSaid'[x] = (IF x = c THEN v ELSE macSaid[x])
  BY <1>1, <1>2 DEF MacInv
<1>4. ASSUME NEW x \in MacContexts PROVE AsSaid(mctx'[x], macSaid'[x])
  BY <1>1, <1>3, Zenon DEF MacInv
<1>5. ASSUME NEW x \in MacContexts PROVE AsSaid(mctx[x], macSaid[x])'
  <2>1. mac' = mac /\ AsSaid(mctx'[x], macSaid'[x])
    BY <1>2, <1>4
  <2> HIDE DEF MacInv
  <2> QED BY <2>1 DEF AsSaid, KeyAsSaid, MsgAsSaid, Cleared
<1>6. KeyInv'
  BY <1>2 DEF MacInv, KeyInv
<1>7. tag'.got = tag'.due /\ compared'.answer = compared'.truth
  BY <1>2 DEF NoTag, NothingAsked
<1> QED BY <1>2, <1>3, <1>5, <1>6, <1>7 DEF MacInv

(* What it means that a program is plain.  *)
LEMMA PlainMeans ==
  ASSUME MacHabits = {}, NEW c \in MacContexts, NEW key \in MacNames, NEW p \in MacP,
         Plain(c, key, p)
  PROVE  LET k == GivenKey(key, p)
             u == Saying(macSaid[c], key, p)
         IN /\ mac = "gmac" => macSaid[c].phase = "new"
            /\ p.alg # "" /\ mctx[c].in.key # "" => k # ""
            /\ mac # "hmac" /\ u.alg # "" /\ u.key \in {"k16", "k32"} =>
                 u.key = KeyOfCipher(u.alg)
            /\ k = "" => macSaid[c].phase = "new" \/ (mac = "hmac" /\ macSaid[c].phase = "done")
<1> DEFINE u == Saying(macSaid[c], key, p)
<1>1. GivenKey(key, p) # "" <=> (key # "" \/ p.key # "")
  BY DEF GivenKey
<1> HIDE DEF u
<1>2. /\ mac = "gmac" /\ macSaid[c].phase # "new" => FALSE
      /\ p.alg # "" /\ mctx[c].in.key # "" /\ ~(key # "" \/ p.key # "") => FALSE
      /\ mac # "hmac" /\ u.alg # "" /\ u.key \in {"k16", "k32"} /\ u.key # KeyOfCipher(u.alg) =>
           FALSE
      /\ /\ ~(key # "" \/ p.key # "") /\ macSaid[c].phase # "new"
         /\ ~(mac = "hmac" /\ macSaid[c].phase = "done")
         => FALSE
  BY DEF Plain, u
<1> QED BY <1>1, <1>2 DEF u

LEMMA MacParamsP ==
  ASSUME mac \in {"hmac", "cmac", "gmac"}, NEW p \in MacParams
  PROVE  p \in MacP /\ (mac = "cmac" => p.iv = "")
<1>1. p.alg \in MacText /\ p.key \in MacNames /\ p.iv \in MacText
  BY MacTexts DEF MacParams, MacNames
<1> HIDE DEF MacText, MacNames
<1>2. p = [alg |-> p.alg, key |-> p.key, iv |-> p.iv]
  BY DEF MacParams
<1>3. p \in MacP
  BY <1>1, <1>2 DEF MacP
<1> QED BY <1>3 DEF MacParams

LEMMA SetParamsKeeps ==
  ASSUME MacInv, MacHabits = {}, mac # "none", NEW c \in MacContexts, NEW p \in MacParams,
         CallSetParams(c, p)
  PROVE  MacInv'
<1> DEFINE d == mctx[c]
           w == macSaid[c]
           r == MacSetParams(d, p)
           v == [Saying(w, "", p) EXCEPT !.phase = "new"]
<1>1. mac \in {"hmac", "cmac", "gmac"} /\ d \in MacObject /\ w \in MacMeant /\ AsSaid(d, w)
  BY DEF MacInv
<1>2. p \in MacP /\ (mac = "cmac" => p.iv = "") /\ "" \in MacNames /\ GivenKey("", p) = p.key
  BY <1>1, MacParamsP DEF MacNames, GivenKey
<1>3. Answer(c, r, v) /\ Plain(c, "", p)
  BY DEF CallSetParams
<1>4. AnswerOf(r) /\ (r.ok => TakenIn(d, r.c, p.key, p) /\ IvTaken(d, r.c, p))
  BY <1>1, <1>2, SetParamsTakes
<1> DEFINE u == Saying(w, "", p)
<1>5. /\ v \in MacMeant /\ v.phase = "new" /\ v.msg = <<>>
      /\ v.alg = (IF p.alg = "" THEN w.alg ELSE p.alg)
      /\ v.iv = (IF p.iv = "" THEN w.iv ELSE p.iv)
      /\ v.key = (IF p.key = "" THEN w.key ELSE p.key)
      /\ u.alg = v.alg /\ u.key = v.key
  <2>1. Means(v, u, w, p.key, p, "new")
    BY <1>1, <1>2, SayingMeans DEF SaidAfter
  <2> HIDE DEF v, u, w
  <2> QED BY <2>1 DEF Means
<1>6. /\ mac = "gmac" => w.phase = "new"
      /\ p.alg # "" /\ d.in.key # "" => p.key # ""
      /\ mac # "hmac" /\ u.alg # "" /\ u.key \in {"k16", "k32"} => u.key = KeyOfCipher(u.alg)
      /\ p.key = "" => w.phase = "new" \/ (mac = "hmac" /\ w.phase = "done")
  BY <1>2, <1>3, PlainMeans
<1> HIDE DEF r, v, u, d, w
<1>7. ASSUME r.ok PROVE AsSaid(r.c, v)
  <2>1. r.c \in MacObject /\ p.key \in MacNames
    BY <1>2, <1>4 DEF AnswerOf, MacP
  <2>2. mac # "hmac" /\ v.alg # "" /\ v.key \in {"k16", "k32"} => v.key = KeyOfCipher(v.alg)
    BY <1>5, <1>6
  <2>3. v.phase \in {"new", "ready"} /\ v.phase # "ready"
    BY <1>5
  <2> HIDE DEF MacObject, MacMeant, MacP, MacNames, MacText
  <2> QED BY <1>1, <1>2, <1>4, <1>5, <1>6, <1>7, <2>1, <2>2, <2>3, CallKeeps
<1> QED BY <1>3, <1>4, <1>5, <1>7, AnswerKeeps

LEMMA InitKeeps ==
  ASSUME MacInv, MacHabits = {}, mac # "none", NEW c \in MacContexts, NEW p \in MacParams,
         NEW key \in MacNames, CallInit(c, key, p)
  PROVE  MacInv'
<1> DEFINE d == mctx[c]
           w == macSaid[c]
           r == MacStart(d, key, p)
           u == Saying(w, key, p)
           v == [u EXCEPT !.phase = "ready"]
           k == GivenKey(key, p)
<1>1. mac \in {"hmac", "cmac", "gmac"} /\ d \in MacObject /\ w \in MacMeant /\ AsSaid(d, w)
  BY DEF MacInv
<1>2. p \in MacP /\ (mac = "cmac" => p.iv = "") /\ k \in MacNames
  BY <1>1, MacParamsP DEF GivenKey, MacP
<1>3. Answer(c, r, v) /\ Plain(c, key, p) /\ u.alg # "" /\ u.key # ""
  BY DEF CallInit
<1>4. AnswerOf(r) /\ (r.ok => /\ TakenIn(d, r.c, k, p) /\ IvTaken(d, r.c, p)
                              /\ mac = "hmac" => r.c.size = r.c.alg)
  BY <1>1, <1>2, StartTakes
<1>5. /\ v \in MacMeant /\ v.phase = "ready" /\ v.msg = <<>>
      /\ v.alg = (IF p.alg = "" THEN w.alg ELSE p.alg)
      /\ v.iv = (IF p.iv = "" THEN w.iv ELSE p.iv)
      /\ v.key = (IF k = "" THEN w.key ELSE k)
      /\ u.alg = v.alg /\ u.key = v.key
  <2>1. Means(v, u, w, k, p, "ready")
    BY <1>1, <1>2, SayingMeans DEF SaidAfter
  <2> HIDE DEF v, u, w, k
  <2> QED BY <2>1 DEF Means
<1>6. /\ mac = "gmac" => w.phase = "new"
      /\ p.alg # "" /\ d.in.key # "" => k # ""
      /\ mac # "hmac" /\ u.alg # "" /\ u.key \in {"k16", "k32"} => u.key = KeyOfCipher(u.alg)
      /\ k = "" => w.phase = "new" \/ (mac = "hmac" /\ w.phase = "done")
  BY <1>2, <1>3, PlainMeans
<1> HIDE DEF r, v, u, d, w, k
<1>7. ASSUME r.ok PROVE AsSaid(r.c, v)
  <2>1. r.c \in MacObject
    BY <1>4 DEF AnswerOf
  <2>2. mac # "hmac" /\ v.alg # "" /\ v.key \in {"k16", "k32"} => v.key = KeyOfCipher(v.alg)
    BY <1>5, <1>6
  <2>3. v.phase \in {"new", "ready"} /\ v.alg # "" /\ v.key # ""
    BY <1>3, <1>5
  <2> HIDE DEF MacObject, MacMeant, MacP, MacNames, MacText
  <2> QED BY <1>1, <1>2, <1>4, <1>5, <1>6, <1>7, <2>1, <2>2, <2>3, CallKeeps
<1> QED BY <1>3, <1>4, <1>5, <1>7, AnswerKeeps

(* An update adds its data to the object and to what was said. *)
LEMMA UpdateKeeps ==
  ASSUME MacInv, MacHabits = {}, mac # "none", NEW c \in MacContexts, NEW data \in MacInputs,
         CallUpdate(c, data)
  PROVE  MacInv'
<1> DEFINE d == mctx[c]
           w == macSaid[c]
           e == [d EXCEPT !.in.data = @ \o data]
           v == [w EXCEPT !.msg = @ \o data]
<1>1. d \in MacObject /\ w \in MacMeant /\ AsSaid(d, w)
  BY DEF MacInv
<1>2. data \in Seq(STRING) /\ data # <<>>
  <2>1. data \in Seq(STRING) /\ Len(data) > 0
    BY MacAssumption
  <2>2. Len(<<>>) = 0
    BY EmptySeq
  <2> QED BY <2>1, <2>2
<1>3. Answer(c, Ok(e), v)
  <2>1. Answer(c, Ok(MacUpdate(d, data)), v)
    BY DEF CallUpdate
  <2>2. MacUpdate(d, data) = e
    BY <1>1, <1>2, MacUpdateAdds
  <2> HIDE DEF d, w, e, v
  <2> QED BY <2>1, <2>2
<1>4. w.phase = "ready" /\ (mac = "gmac" => ~(Len(w.msg) + Len(data) >= Word))
  <2>1. mac = "gmac" /\ Len(w.msg) + Len(data) >= Word => FALSE
    BY DEF CallUpdate
  <2>2. w.phase = "ready"
    BY DEF CallUpdate
  <2> QED BY <2>1, <2>2
<1>5. d.in \in MacPart /\ d.in.data \in Seq(STRING) /\ w.msg \in Seq(STRING)
  <2> HIDE DEF MacText
  <2> QED BY <1>1 DEF MacObject, MacPart, MacMeant
<1>6. d.in.data \o data \in Seq(STRING) /\ w.msg \o data \in Seq(STRING)
  BY <1>2, <1>5, Joined
<1>7. /\ e \in MacObject /\ e.alg = d.alg /\ e.iv = d.iv /\ e.size = d.size
      /\ e.in.alg = d.in.alg /\ e.in.key = d.in.key /\ e.in.data = d.in.data \o data
  <2> HIDE DEF MacText
  <2> QED BY <1>1, <1>5, <1>6 DEF MacObject, MacPart
<1>8. /\ v \in MacMeant /\ v.alg = w.alg /\ v.iv = w.iv /\ v.key = w.key
      /\ v.phase = "ready" /\ v.msg = w.msg \o data
  <2> HIDE DEF MacText
  <2> QED BY <1>1, <1>4, <1>6 DEF MacMeant
<1>9. mac = "gmac" => Len(v.msg) < Word
  <2>1. Len(w.msg \o data) = Len(w.msg) + Len(data)
    BY <1>2, <1>5, ConcatProperties
  <2>2. Len(w.msg) \in Nat /\ Len(data) \in Nat /\ Word \in Nat
    BY <1>2, <1>5, MacAssumption
  <2> QED BY <1>4, <1>8, <2>1, <2>2
<1> HIDE DEF d, w, e, v, MacObject, MacMeant
<1>10. AsSaid(e, v)
  BY <1>1, <1>4, <1>7, <1>8, <1>9 DEF AsSaid, KeyAsSaid, MsgAsSaid, Cleared
<1>11. Ok(e).ok = TRUE /\ Ok(e).c = e
  BY DEF Ok
<1>12. AnswerOf(Ok(e))
  BY <1>7, <1>11, Zenon DEF AnswerOf
<1> QED BY <1>3, <1>8, <1>10, <1>11, <1>12, AnswerKeeps

LEMMA DupKeeps ==
  ASSUME MacInv, mac # "none", NEW c \in MacContexts, NEW to \in MacContexts, CallDup(c, to)
  PROVE  MacInv'
<1> DEFINE d == mctx[c]
           r == MacDup(d)
<1>1. /\ mac \in {"hmac", "cmac", "gmac"} /\ d \in MacObject /\ macSaid[c] \in MacMeant
      /\ AsSaid(d, macSaid[c])
  BY DEF MacInv
<1>2. AnswerOf(r) /\ (r.ok => r.c = d)
  BY <1>1, MacDupSame
<1>3. Answer(to, r, macSaid[c])
  BY DEF CallDup
<1> HIDE DEF d, r, MacObject, MacMeant
<1> QED BY <1>1, <1>2, <1>3, AnswerKeeps

LEMMA GiveUpKeeps ==
  ASSUME MacInv, NEW c \in MacContexts, CallFree(c)
  PROVE  MacInv'
<1> DEFINE r == Refuse(MacNew)
<1>1. r.ok = FALSE /\ r.c = MacNew /\ Answer(c, r, NotSaid)
  BY DEF CallFree, Refuse
<1>2. AnswerOf(r)
  BY <1>1, NewMeansNothing, Zenon DEF AnswerOf
<1> HIDE DEF r
<1> QED BY <1>1, <1>2, AnswerKeeps

(* A MAC made is the one asked for, and leaves the context ready or done.    *)
LEMMA FiveAreNotOne ==
  ASSUME NEW a, NEW b, NEW i, NEW m, NEW z
  PROVE  <<a, b, i, m, z>> # Refused
<1>1. Len(<<a, b, i, m, z>>) = 5 /\ Len(<<"refused">>) = 1
  OBVIOUS
<1> QED BY <1>1 DEF Refused

FinalAs(o, e, d, w, room) ==
  /\ e \in MacObject /\ o = TagDue(w, room)
  /\ \/ o = Refused /\ e = d
     \/ o # Refused /\ \A v \in MacMeant : v = [w EXCEPT !.phase = "done"] => AsSaid(e, v)

LEMMA Remainder ==
  ASSUME NEW a \in Nat, NEW b \in Nat, a < b
  PROVE  a % b = a
OBVIOUS

LEMMA FinalMakes ==
  ASSUME NEW d \in MacObject, NEW w \in MacMeant, AsSaid(d, w), w.phase = "ready",
         NEW room \in {"less", "exact", "more"}, mac \in {"hmac", "cmac", "gmac"}
  PROVE  FinalAs(MacFinal(d, room).out, MacFinal(d, room).c, d, w, room)
<1> DEFINE r == MacFinal(d, room)
<1>1. /\ d.alg = w.alg /\ d.in.key = w.key /\ d.in.data = w.msg /\ w.alg # "" /\ w.key # ""
      /\ mac = "hmac" => d.in.alg = w.alg /\ d.size = w.alg
      /\ mac = "gmac" => d.iv = w.iv /\ Len(w.msg) < Word
      /\ mac = "cmac" => w.iv = ""
      /\ mac # "hmac" => /\ w.key \in {"k16", "k32"} /\ w.key = KeyOfCipher(w.alg)
                         /\ d.in.alg = AesOf(w.key)
  <2>1. ~Cleared(w)
    BY DEF Cleared
  <2> HIDE DEF MacObject, MacMeant
  <2> QED BY <2>1 DEF AsSaid, KeyAsSaid, MsgAsSaid
<1>2. ASSUME NEW v \in MacMeant, v = [w EXCEPT !.phase = "done"]
      PROVE  v.alg = w.alg /\ v.key = w.key /\ v.iv = w.iv /\ v.phase = "done"
  BY <1>2 DEF MacMeant
<1> DEFINE kept == [d EXCEPT !.in.data = <<>>]
           cleared == [d EXCEPT !.in = NotKeyed]
<1>3. /\ kept \in MacObject /\ kept.alg = d.alg /\ kept.iv = d.iv
      /\ kept.in.alg = d.in.alg /\ kept.in.key = d.in.key /\ kept.in.data = <<>>
  <2>1. d.in \in MacPart /\ <<>> \in Seq(STRING)
    BY EmptySeq DEF MacObject
  <2> HIDE DEF MacText
  <2> QED BY <2>1 DEF MacObject, MacPart
<1>4. cleared \in MacObject /\ cleared.alg = d.alg /\ cleared.iv = d.iv
  <2>1. NotKeyed \in MacPart
    <3>1. "" \in MacText /\ <<>> \in Seq(STRING)
      BY MacTexts, EmptySeq
    <3> HIDE DEF MacText
    <3> QED BY <3>1 DEF NotKeyed, MacPart
  <2> HIDE DEF MacText, MacPart, NotKeyed
  <2> QED BY <2>1 DEF MacObject
<1>5. CASE mac = "hmac"
  <2> DEFINE o == <<w.alg, w.key, "", w.msg, w.alg>>
  <2>1. r = IF room = "less" THEN [out |-> Refused, c |-> d] ELSE [out |-> o, c |-> kept]
    <3> HIDE DEF MacObject, MacMeant
    <3> QED BY <1>1, <1>5 DEF MacFinal, HmacFinal
  <2>2. TagDue(w, room) = IF room = "less" THEN Refused ELSE o
    BY <1>1, <1>5 DEF TagDue
  <2>3. o # Refused
    BY FiveAreNotOne
  <2>4. ASSUME NEW v \in MacMeant, v = [w EXCEPT !.phase = "done"] PROVE AsSaid(kept, v)
    <3>1. v.alg = w.alg /\ v.key = w.key /\ v.iv = w.iv /\ v.phase = "done"
      BY <1>2, <2>4
    <3> HIDE DEF kept, MacObject, MacMeant
    <3> QED BY <1>1, <1>3, <1>5, <3>1 DEF AsSaid, KeyAsSaid, MsgAsSaid, Cleared
  <2> HIDE DEF r, o, kept, MacObject, MacMeant
  <2>5. CASE room = "less"
    BY <2>1, <2>2, <2>5 DEF FinalAs, r
  <2>6. CASE room # "less"
    <3>1. r.out = o /\ r.c = kept
      BY <2>1, <2>6
    <3> QED BY <1>3, <2>2, <2>3, <2>4, <2>6, <3>1 DEF FinalAs, r
  <2> QED BY <2>5, <2>6
<1>6. CASE mac = "cmac"
  <2> DEFINE o == <<AesOf(w.key), w.key, "", w.msg, "AES">>
  <2>0. AesOf(w.key) # ""
    BY DEF AesOf
  <2>1. r = IF room # "exact" THEN [out |-> Refused, c |-> d] ELSE [out |-> o, c |-> cleared]
    <3> HIDE DEF MacObject, MacMeant
    <3> QED BY <1>1, <1>6, <2>0 DEF MacFinal, CmacFinal
  <2>2. TagDue(w, room) = IF room # "exact" THEN Refused ELSE o
    BY <1>1, <1>6 DEF TagDue
  <2>3. o # Refused
    BY FiveAreNotOne
  <2>4. ASSUME NEW v \in MacMeant, v = [w EXCEPT !.phase = "done"] PROVE AsSaid(cleared, v)
    <3>1. v.alg = w.alg /\ v.key = w.key /\ v.iv = w.iv /\ v.phase = "done"
      BY <1>2, <2>4
    <3> HIDE DEF cleared, MacObject, MacMeant
    <3> QED BY <1>1, <1>4, <1>6, <3>1 DEF AsSaid, KeyAsSaid, MsgAsSaid, Cleared
  <2> HIDE DEF r, o, cleared, MacObject, MacMeant
  <2>5. CASE room # "exact"
    BY <2>1, <2>2, <2>5 DEF FinalAs, r
  <2>6. CASE room = "exact"
    <3>1. r.out = o /\ r.c = cleared
      BY <2>1, <2>6
    <3> QED BY <1>4, <2>2, <2>3, <2>4, <2>6, <3>1 DEF FinalAs, r
  <2> QED BY <2>5, <2>6
<1>7. CASE mac = "gmac"
  <2> DEFINE o == <<AesOf(w.key), w.key, w.iv, w.msg, "AES">>
  <2>0. SubSeq(w.msg, 1, Len(w.msg) % Word) = w.msg
    <3>1. w.msg \in Seq(STRING)
      <4> HIDE DEF MacText
      <4> QED BY DEF MacMeant
    <3>2. Len(w.msg) \in Nat /\ Len(w.msg) < Word
      <4>1. Len(w.msg) < Word
        <5> HIDE DEF MacObject, MacMeant
        <5> QED BY <1>1, <1>7, Zenon
      <4> QED BY <3>1, <4>1, LenProperties
    <3>3. Word \in Nat
      BY MacAssumption
    <3>4. Len(w.msg) % Word = Len(w.msg)
      BY <3>2, <3>3, Remainder
    <3> QED BY <3>1, <3>4, SubSeqFull
  <2>1. r = IF room # "exact" THEN [out |-> Refused, c |-> d] ELSE [out |-> o, c |-> d]
    <3> HIDE DEF MacObject, MacMeant
    <3> QED BY <1>1, <1>7, <2>0 DEF MacFinal, GmacFinal
  <2>2. TagDue(w, room) = IF room # "exact" THEN Refused ELSE o
    BY <1>1, <1>7 DEF TagDue
  <2>3. o # Refused
    BY FiveAreNotOne
  <2>4. ASSUME NEW v \in MacMeant, v = [w EXCEPT !.phase = "done"] PROVE AsSaid(d, v)
    <3>1. v.alg = w.alg /\ v.key = w.key /\ v.iv = w.iv /\ v.phase = "done"
      BY <1>2, <2>4
    <3> HIDE DEF MacObject, MacMeant
    <3> QED BY <1>1, <1>7, <3>1 DEF AsSaid, KeyAsSaid, MsgAsSaid, Cleared
  <2> HIDE DEF r, o, MacObject, MacMeant
  <2>5. CASE room # "exact"
    BY <2>1, <2>2, <2>5 DEF FinalAs, r
  <2>6. CASE room = "exact"
    <3>1. r.out = o /\ r.c = d
      BY <2>1, <2>6
    <3> QED BY <2>2, <2>3, <2>4, <2>6, <3>1 DEF FinalAs, r
  <2> QED BY <2>5, <2>6
<1> QED BY <1>5, <1>6, <1>7

LEMMA FinalKeeps ==
  ASSUME MacInv, mac # "none", NEW c \in MacContexts, NEW room \in {"less", "exact", "more"},
         CallFinal(c, room)
  PROVE  MacInv'
<1> DEFINE d == mctx[c]
           w == macSaid[c]
           o == MacFinal(d, room).out
           e == MacFinal(d, room).c
           v == [w EXCEPT !.phase = IF o = Refused THEN @ ELSE "done"]
<1>1. /\ mac \in {"hmac", "cmac", "gmac"} /\ d \in MacObject /\ w \in MacMeant
      /\ AsSaid(d, w) /\ w.phase = "ready"
  BY DEF MacInv, CallFinal
<1>2. FinalAs(o, e, d, w, room)
  BY <1>1, FinalMakes
<1>3. /\ mctx' = [mctx EXCEPT ![c] = e] /\ tag' = [got |-> o, due |-> TagDue(w, room)]
      /\ macSaid' = [macSaid EXCEPT ![c] = v]
      /\ compared' = NothingAsked /\ UNCHANGED <<mac, signs, mkeys, madeOf, gen>>
  BY Zenon DEF CallFinal
<1>4. v \in MacMeant
  <2> HIDE DEF MacText, o
  <2> QED BY <1>1 DEF MacMeant
<1>5. e \in MacObject /\ o = TagDue(w, room) /\ AsSaid(e, v)
  <2>1. CASE o = Refused /\ e = d
    <3>1. v = w
      <4> HIDE DEF o, w
      <4> QED BY <1>1, <2>1 DEF MacMeant
    <3> HIDE DEF v, o, e, d, w, MacObject, MacMeant
    <3> QED BY <1>1, <1>2, <2>1, <3>1 DEF FinalAs
  <2>2. CASE o # Refused
    <3>1. v = [w EXCEPT !.phase = "done"]
      <4> HIDE DEF o, w
      <4> QED BY <2>2
    <3> HIDE DEF v, o, e, d, w, MacObject, MacMeant
    <3> QED BY <1>2, <1>4, <2>2, <3>1 DEF FinalAs
  <2> HIDE DEF v, o, e, d, w, MacObject, MacMeant
  <2> QED BY <1>2, <2>1, <2>2 DEF FinalAs
<1> HIDE DEF d, w, o, e, v, MacObject, MacMeant
<1>6. /\ mctx' \in [MacContexts -> MacObject] /\ macSaid' \in [MacContexts -> MacMeant]
      /\ \A x \in MacContexts : /\ mctx'[x] = (IF x = c THEN e ELSE mctx[x])
                                /\ macSaid'[x] = (IF x = c THEN v ELSE macSaid[x])
  BY <1>3, <1>4, <1>5 DEF MacInv
<1>7. ASSUME NEW x \in MacContexts PROVE AsSaid(mctx[x], macSaid[x])'
  <2>1. AsSaid(mctx'[x], macSaid'[x])
    BY <1>5, <1>6, Zenon DEF MacInv
  <2>2. mac' = mac
    BY <1>3
  <2> HIDE DEF MacInv
  <2> QED BY <2>1, <2>2 DEF AsSaid, KeyAsSaid, MsgAsSaid, Cleared
<1>8. KeyInv'
  BY <1>3 DEF MacInv, KeyInv
<1>9. tag'.got = tag'.due /\ compared'.answer = compared'.truth
  BY <1>3, <1>5 DEF NothingAsked
<1> QED BY <1>3, <1>6, <1>7, <1>8, <1>9 DEF MacInv

(* Signing: the context is started with the bytes of the key object.         *)
LEMMA SignInitKeeps ==
  ASSUME MacInv, MacHabits = {}, NEW c \in MacContexts, NEW m \in MacKeys,
         NEW md \in AlgNames \cup {""}, NEW p \in MacParams, CallSignInit(c, m, md, p)
  PROVE  MacInv'
<1> DEFINE k == mkeys[m]
           named == IF mac = "cmac"
                    THEN IF p.alg # "" THEN p.alg
                         ELSE IF k.cipher # "" THEN k.cipher ELSE "AES-128-CBC"
                    ELSE IF p.alg # "" THEN p.alg ELSE md
           q == [alg |-> named, key |-> "", iv |-> ""]
           b == MacSetParams(mctx[c], p).c
           r == MacStart(b, k.key, q)
           alg == IF p.alg # "" THEN p.alg ELSE IF mac = "cmac" THEN k.cipher ELSE md
           w == [alg |-> alg, key |-> k.key, iv |-> "", msg |-> <<>>, phase |-> "ready"]
<1>1. /\ mac \in {"hmac", "cmac"} /\ mctx[c] \in MacObject /\ k \in MacMaterial
      /\ madeOf = mkeys /\ k.key \in KeyNames /\ p \in MacP
  <2>1. mac \in {"hmac", "cmac"} /\ madeOf[m].key \in KeyNames
    BY DEF CallSignInit
  <2>2. mctx[c] \in MacObject
    BY DEF MacInv
  <2>3. mkeys \in [MacKeys -> MacMaterial] /\ madeOf = mkeys
    BY DEF MacInv, KeyInv
  <2>4. p \in MacP
    BY <2>1, MacParamsP
  <2> HIDE DEF MacObject, MacMaterial, MacP
  <2> QED BY <2>1, <2>2, <2>3, <2>4
<1>2. /\ mac = "hmac" => md # ""
      /\ mac = "cmac" => alg # "" /\ k.key = KeyOfCipher(alg)
      /\ Answer(c, r, w)
  <2> DEFINE cipher == IF p.alg # "" THEN p.alg ELSE IF k.cipher # "" THEN k.cipher
                                                 ELSE "AES-128-CBC"
             qq == [alg |-> IF mac = "cmac" THEN cipher ELSE IF p.alg # "" THEN p.alg ELSE md,
                    key |-> "", iv |-> ""]
             a2 == IF p.alg # "" THEN p.alg ELSE IF mac = "cmac" THEN madeOf[m].cipher ELSE md
             w2 == [alg |-> a2, key |-> madeOf[m].key, iv |-> "", msg |-> <<>>, phase |-> "ready"]
  <2>1. /\ md \in (IF mac = "hmac" THEN Good ELSE {""})
        /\ mac = "cmac" /\ a2 = "" => FALSE
        /\ mac = "cmac" /\ a2 # "" /\ madeOf[m].key # KeyOfCipher(a2) => FALSE
        /\ Answer(c, SignInit(mctx[c], mkeys[m], md, p), w2)
    BY DEF CallSignInit
  <2>2. madeOf = mkeys
    BY <1>1
  <2>3. w2 = w /\ a2 = alg
    BY <2>2
  <2>4. SignInit(mctx[c], mkeys[m], md, p) = MacStart(b, k.key, qq)
    BY Zenon DEF SignInit
  <2>5. qq = q
    OBVIOUS
  <2>6. mac = "hmac" => md # ""
    BY <2>1, MacTexts
  <2> HIDE DEF a2, w2, alg, w, qq, q, b, k, r, KeyOfCipher
  <2>7. SignInit(mctx[c], mkeys[m], md, p) = r
    BY <2>4, <2>5 DEF r
  <2>8. Answer(c, r, w)
    BY <2>1, <2>3, <2>7
  <2>9. mac = "cmac" => alg # "" /\ k.key = KeyOfCipher(alg)
    BY <2>1, <2>2, <2>3 DEF k
  <2> QED BY <2>6, <2>8, <2>9
<1>3. /\ named \in MacText /\ alg \in MacText /\ named = alg /\ alg # ""
  <2>1. p.alg \in MacText /\ k.cipher \in MacText /\ md \in MacText /\ "AES-128-CBC" \in MacText
    BY <1>1, MacTexts DEF MacMaterial, MacP, MacText
  <2> HIDE DEF k, MacText
  <2> QED BY <1>1, <1>2, <2>1
<1>4. q \in MacP /\ k.key \in MacNames /\ GivenKey(k.key, q) = k.key /\ q.alg = named
  <2>1. "" \in MacText /\ "" \in MacNames /\ k.key \in MacNames
    BY <1>1, MacTexts DEF MacNames
  <2>2. k.key # ""
    BY <1>1 DEF KeyNames
  <2> HIDE DEF named, k, MacText, MacNames
  <2> QED BY <1>3, <2>1, <2>2 DEF MacP, GivenKey
<1>5. b \in MacObject
  <2> HIDE DEF MacObject, MacP
  <2>1. AnswerOf(MacSetParams(mctx[c], p))
    BY <1>1, SetParamsTakes
  <2> QED BY <2>1 DEF AnswerOf
<1> HIDE DEF named, q, b, alg, k
<1>6. AnswerOf(r) /\ (r.ok => /\ TakenIn(b, r.c, k.key, q) /\ IvTaken(b, r.c, q)
                              /\ mac = "hmac" => r.c.size = r.c.alg)
  <2> HIDE DEF MacObject, MacP
  <2>1. GivenKey(k.key, q) = k.key
    BY <1>4
  <2> QED BY <1>1, <1>4, <1>5, <2>1, StartTakes
<1>7. w \in MacMeant
  <2>1. k.key \in MacText /\ "" \in MacText
    BY <1>4, MacTexts
  <2>2. <<>> \in Seq(STRING) /\ "ready" \in {"new", "ready", "done"}
    BY EmptySeq
  <2> HIDE DEF MacText
  <2> QED BY <1>3, <2>1, <2>2 DEF MacMeant
<1>8. w.alg = alg /\ w.key = k.key /\ w.iv = "" /\ w.msg = <<>> /\ w.phase = "ready"
  OBVIOUS
<1> HIDE DEF r, w, MacObject, MacMeant
<1>9. ASSUME r.ok PROVE AsSaid(r.c, w)
  <2>1. k.key # "" /\ r.c.alg = alg /\ Rekeyed(b, r.c, k.key)
    <3>1. k.key # ""
      BY <1>1 DEF KeyNames
    <3>2. TakenIn(b, r.c, k.key, q)
      BY <1>6, <1>9
    <3> QED BY <1>3, <1>4, <3>1, <3>2 DEF TakenIn
  <2>2. mac = "hmac" => r.c.size = r.c.alg
    BY <1>6, <1>9
  <2>3. KeyAsSaid(r.c, w)
    BY <1>1, <1>2, <1>3, <1>8, <2>1 DEF KeyAsSaid, Rekeyed, Cleared
  <2>4. MsgAsSaid(r.c, w)
    BY <1>1, <1>3, <1>8, <2>1, <2>2 DEF MsgAsSaid, Rekeyed
  <2> QED BY <2>3, <2>4 DEF AsSaid
<1> QED BY <1>2, <1>6, <1>7, <1>9, AnswerKeeps

------------------------------------------------------------------------------
(* Keys: what a step on keys alone has to keep.                              *)
LEMMA KeysAlone ==
  ASSUME MacInv, KeyInv', compared'.answer = compared'.truth, tag' = NoTag,
         UNCHANGED <<mac, signs, mctx, macSaid>>
  PROVE  MacInv'
<1> HIDE DEF MacObject, MacMeant
<1>1. ASSUME NEW x \in MacContexts PROVE AsSaid(mctx[x], macSaid[x])'
  <2>1. AsSaid(mctx[x], macSaid[x])
    BY DEF MacInv
  <2> QED BY <2>1 DEF AsSaid, KeyAsSaid, MsgAsSaid, Cleared
<1>2. tag'.got = tag'.due
  BY DEF NoTag
<1> QED BY <1>1, <1>2 DEF MacInv

MaterialOf(k) == k \in MacMaterial /\ (mac # "cmac" => k.cipher = "")

LEMMA MakeKeyKeeps ==
  ASSUME MacInv, NEW m \in MacKeys, NEW k, MaterialOf(k), MakeKey(m, k, k)
  PROVE  MacInv'
<1> HIDE DEF MacMaterial
<1>1. /\ mkeys' = [mkeys EXCEPT ![m] = k] /\ madeOf' = [madeOf EXCEPT ![m] = k]
      /\ tag' = NoTag /\ compared' = NothingAsked /\ UNCHANGED <<mac, signs, mctx, macSaid, gen>>
  BY DEF MakeKey
<1>2. KeyInv'
  <2>1. KeyInv
    BY DEF MacInv
  <2>2. mkeys' \in [MacKeys -> MacMaterial] /\ madeOf' = mkeys'
    BY <1>1, <2>1 DEF KeyInv, MaterialOf
  <2>3. mac' # "cmac" => \A x \in MacKeys : mkeys'[x].cipher = ""
    BY <1>1, <2>1 DEF KeyInv, MaterialOf
  <2> QED BY <1>1, <2>1, <2>2, <2>3 DEF KeyInv
<1>3. compared'.answer = compared'.truth
  BY <1>1 DEF NothingAsked
<1> QED BY <1>1, <1>2, <1>3, KeysAlone

LEMMA KeysAreMaterial ==
  ASSUME MacInv, NEW m \in MacKeys
  PROVE  /\ mkeys[m] \in MacMaterial /\ MaterialOf(mkeys[m]) /\ madeOf = mkeys
         /\ mkeys[m] = [key |-> mkeys[m].key, cipher |-> mkeys[m].cipher]
<1>1. mkeys[m] \in MacMaterial /\ madeOf = mkeys /\ (mac # "cmac" => mkeys[m].cipher = "")
  <2> HIDE DEF MacMaterial
  <2> QED BY DEF MacInv, KeyInv
<1>2. mkeys[m] = [key |-> mkeys[m].key, cipher |-> mkeys[m].cipher]
  BY <1>1 DEF MacMaterial
<1> QED BY <1>1, <1>2 DEF MaterialOf

LEMMA KeyedKeeps ==
  ASSUME MacInv, MacHabits = {}, signs, NEW m \in MacKeys, Keyed(m)
  PROVE  MacInv'
<1>1. ASSUME NEW key \in KeyNames \cup {""}, NEW cipher \in Good \cup {""},
             ImportMacKey(m, key, cipher)
      PROVE  MacInv'
  <2> DEFINE k == [key |-> IF key = "" THEN "none" ELSE key, cipher |-> cipher]
  <2>1. KeyImport(NoMaterial, key, cipher) = k /\ (mac # "cmac" => cipher = "")
    BY <1>1 DEF ImportMacKey, KeyImport, NoMaterial
  <2>2. k \in MacMaterial
    BY MacTexts DEF MacMaterial, KeyNames
  <2>3. MakeKey(m, k, k)
    BY <1>1, <2>1 DEF ImportMacKey
  <2>4. MaterialOf(k)
    BY <2>1, <2>2 DEF MaterialOf
  <2> HIDE DEF k
  <2> QED BY <2>3, <2>4, MakeKeyKeeps
<1>2. ASSUME NEW to \in MacKeys, DupMacKey(m, to) PROVE MacInv'
  <2>1. MakeKey(to, mkeys[m], mkeys[m])
    BY <1>2, KeysAreMaterial DEF DupMacKey, KeyDup
  <2> QED BY <2>1, KeysAreMaterial, MakeKeyKeeps
<1>3. ASSUME NEW to \in MacKeys, CopyByExport(m, to) PROVE MacInv'
  <2> DEFINE k == mkeys[m]
             e == KeyExport(k)
  <2>1. e = [key |-> IF k.key = "none" THEN "" ELSE k.key, cipher |-> k.cipher]
    BY DEF KeyExport
  <2>2. k \in MacMaterial /\ (mac # "cmac" => k.cipher = "") /\ madeOf = mkeys
        /\ k = [key |-> k.key, cipher |-> k.cipher]
    BY KeysAreMaterial DEF MaterialOf
  <2>3. k.key # ""
    BY <2>2 DEF MacMaterial, KeyNames
  <2>4. KeyImport(NoMaterial, e.key, e.cipher)
          = [key |-> IF e.key = "" THEN "none" ELSE e.key,
             cipher |-> IF mac = "cmac" THEN e.cipher ELSE ""]
    BY DEF KeyImport, NoMaterial
  <2> HIDE DEF k, e
  <2>5. KeyImport(NoMaterial, e.key, e.cipher) = k
    <3>1. e.key = (IF k.key = "none" THEN "" ELSE k.key) /\ e.cipher = k.cipher
      BY <2>1
    <3>2. (IF e.key = "" THEN "none" ELSE e.key) = k.key
      BY <2>3, <3>1
    <3>3. (IF mac = "cmac" THEN e.cipher ELSE "") = k.cipher
      BY <2>2, <3>1
    <3> QED BY <2>2, <2>4, <3>2, <3>3
  <2>6. MakeKey(to, k, k)
    <3>1. MakeKey(to, KeyImport(NoMaterial, e.key, e.cipher), madeOf[m])
      BY <1>3 DEF CopyByExport, e, k
    <3> QED BY <2>2, <2>5, <3>1 DEF k
  <2> QED BY <2>2, <2>6, MakeKeyKeeps DEF MaterialOf
<1>4. ASSUME NEW to \in MacKeys, AskMatch(m, to) PROVE MacInv'
  <2>1. /\ mkeys[m].key # "none" /\ mkeys[to].key # "none"
        /\ compared' = [answer |-> KeyMatch(mkeys[m], mkeys[to]), truth |-> mkeys[m] = mkeys[to]]
        /\ tag' = NoTag /\ UNCHANGED <<mac, signs, mctx, macSaid, mkeys, madeOf, gen>>
    <3>1. madeOf = mkeys
      BY KeysAreMaterial
    <3>2. "none" \in {madeOf[m].key, madeOf[to].key} => FALSE
      BY <1>4 DEF AskMatch
    <3>3. /\ compared' = [answer |-> KeyMatch(mkeys[m], mkeys[to]),
                          truth |-> madeOf[m] = madeOf[to]]
          /\ tag' = NoTag /\ UNCHANGED <<mac, signs, mctx, macSaid, mkeys, madeOf, gen>>
      BY <1>4 DEF AskMatch
    <3> QED BY <3>1, <3>2, <3>3, Zenon
  <2>2. /\ mkeys[m] = [key |-> mkeys[m].key, cipher |-> mkeys[m].cipher]
        /\ mkeys[to] = [key |-> mkeys[to].key, cipher |-> mkeys[to].cipher]
    BY KeysAreMaterial
  <2>3. KeyMatch(mkeys[m], mkeys[to]) <=> mkeys[m] = mkeys[to]
    BY <2>1, <2>2 DEF KeyMatch
  <2>4. KeyMatch(mkeys[m], mkeys[to]) = (mkeys[m] = mkeys[to])
    BY <2>3 DEF KeyMatch
  <2>5. compared'.answer = compared'.truth
    BY <2>1, <2>4, Zenon
  <2>6. KeyInv'
    BY <2>1 DEF MacInv, KeyInv
  <2> QED BY <2>1, <2>5, <2>6, KeysAlone
<1>5. ASSUME FreeKey(m) PROVE MacInv'
  <2>1. NoMacKey \in MacMaterial /\ NoMacKey.cipher = ""
    BY MacTexts DEF NoMacKey, MacMaterial
  <2>2. MakeKey(m, NoMacKey, NoMacKey)
    BY <1>5 DEF FreeKey
  <2> QED BY <2>1, <2>2, MakeKeyKeeps DEF MaterialOf
<1>6. ASSUME GenMacKey(m) PROVE MacInv'
  <2> DEFINE k == [key |-> gen.key, cipher |-> gen.cipher]
  <2>1. gen # NoGen /\ ~gen.used
    <3>1. gen # NoGen /\ (gen.used => FALSE)
      BY <1>6 DEF GenMacKey
    <3> QED BY <3>1
  <2>2. /\ gen.key \in KeyNames /\ gen.cipher \in MacText /\ (mac # "cmac" => gen.cipher = "")
        /\ gen.gave = k
    BY <2>1 DEF MacInv, KeyInv
  <2>3. /\ mkeys' = [mkeys EXCEPT ![m] = k] /\ madeOf' = [madeOf EXCEPT ![m] = k]
        /\ gen' = [gen EXCEPT !.key = "empty", !.used = TRUE]
        /\ tag' = NoTag /\ compared' = NothingAsked /\ UNCHANGED <<mac, signs, mctx, macSaid>>
    BY <1>6, <2>2 DEF GenMacKey
  <2>4. k \in MacMaterial /\ k.cipher = gen.cipher
    <3> HIDE DEF MacText
    <3> QED BY <2>2 DEF MacMaterial
  <2>5. gen' = [key |-> "empty", cipher |-> gen.cipher, gave |-> gen.gave, used |-> TRUE]
    <3>1. gen = [key |-> gen.key, cipher |-> gen.cipher, gave |-> gen.gave, used |-> gen.used]
      BY DEF MacInv, KeyInv
    <3> QED BY <2>3, <3>1
  <2> HIDE DEF k, MacMaterial
  <2>6. mkeys' \in [MacKeys -> MacMaterial] /\ madeOf' = mkeys'
    BY <2>3, <2>4 DEF MacInv, KeyInv
  <2>7. mac' # "cmac" => \A x \in MacKeys : mkeys'[x].cipher = ""
    BY <2>2, <2>3, <2>4 DEF MacInv, KeyInv
  <2>8. KeyInv'
    BY <2>5, <2>6, <2>7 DEF KeyInv
  <2>9. compared'.answer = compared'.truth
    BY <2>3 DEF NothingAsked
  <2> QED BY <2>3, <2>8, <2>9, KeysAlone
<1>7. ASSUME AskHas(m) PROVE MacInv'
  <2>1. /\ compared' = [answer |-> KeyHas(mkeys[m]), truth |-> mkeys[m].key # "none"]
        /\ tag' = NoTag /\ UNCHANGED <<mac, signs, mctx, macSaid, mkeys, madeOf, gen>>
    BY <1>7, KeysAreMaterial DEF AskHas
  <2>2. mkeys[m].key # "empty"
    BY KeysAreMaterial DEF MacMaterial, KeyNames
  <2>3. KeyHas(mkeys[m]) = (mkeys[m].key # "none")
    BY <2>2 DEF KeyHas
  <2>4. compared'.answer = compared'.truth
    BY <2>1, <2>3, Zenon
  <2>5. KeyInv'
    BY <2>1 DEF MacInv, KeyInv
  <2> QED BY <2>1, <2>4, <2>5, KeysAlone
<1> QED BY <1>1, <1>2, <1>3, <1>4, <1>5, <1>6, <1>7 DEF Keyed

LEMMA GenInitKeeps ==
  ASSUME MacInv, signs, NEW key \in KeyNames, NEW cipher \in Good \cup {""}, GenInit(key, cipher)
  PROVE  MacInv'
<1>1. /\ gen' = [key |-> key, cipher |-> cipher, gave |-> [key |-> key, cipher |-> cipher],
                 used |-> FALSE]
      /\ tag' = NoTag /\ compared' = NothingAsked
      /\ UNCHANGED <<mac, signs, mctx, macSaid, mkeys, madeOf>>
      /\ cipher = "" <=> mac = "hmac"
  BY DEF GenInit
<1>2. cipher \in MacText /\ (mac # "cmac" => cipher = "")
  BY <1>1, MacTexts DEF MacInv
<1>3. /\ gen'.key = key /\ gen'.cipher = cipher /\ gen'.used = FALSE
      /\ gen'.gave = [key |-> key, cipher |-> cipher]
  BY <1>1
<1> HIDE DEF MacText, MacMaterial
<1>4. gen' = [key |-> gen'.key, cipher |-> gen'.cipher, gave |-> gen'.gave, used |-> gen'.used]
  BY <1>1
<1>5. KeyInv'
  BY <1>1, <1>2, <1>3, <1>4 DEF MacInv, KeyInv
<1>6. compared'.answer = compared'.truth
  BY <1>1 DEF NothingAsked
<1> QED BY <1>1, <1>5, <1>6, KeysAlone

LEMMA GenCleanupKeeps ==
  ASSUME MacInv, GenCleanup
  PROVE  MacInv'
<1>1. /\ gen' = NoGen /\ tag' = NoTag /\ compared' = NothingAsked
      /\ UNCHANGED <<mac, signs, mctx, macSaid, mkeys, madeOf>>
  BY DEF GenCleanup
<1>2. gen' = [key |-> gen'.key, cipher |-> gen'.cipher, gave |-> gen'.gave, used |-> gen'.used]
  BY <1>1 DEF NoGen
<1>3. KeyInv'
  BY <1>1, <1>2 DEF MacInv, KeyInv
<1>4. compared'.answer = compared'.truth
  BY <1>1 DEF NothingAsked
<1> QED BY <1>1, <1>3, <1>4, KeysAlone

------------------------------------------------------------------------------
LEMMA MacInitInv == MacInit => MacInv
<1> SUFFICES ASSUME MacInit PROVE MacInv
  OBVIOUS
<1>1. /\ mac \in {"hmac", "cmac", "gmac"} /\ (signs => mac \in {"hmac", "cmac"})
      /\ mctx = [c \in MacContexts |-> MacNew] /\ macSaid = [c \in MacContexts |-> NotSaid]
      /\ mkeys = [m \in MacKeys |-> NoMacKey] /\ madeOf = [m \in MacKeys |-> NoMacKey]
      /\ gen = NoGen /\ tag = NoTag /\ compared = NothingAsked
  BY MacAssumption DEF MacInit, MacKind
<1>2. NoMacKey \in MacMaterial /\ NoMacKey.cipher = ""
  BY MacTexts DEF NoMacKey, MacMaterial
<1>3. gen = [key |-> gen.key, cipher |-> gen.cipher, gave |-> gen.gave, used |-> gen.used]
  BY <1>1 DEF NoGen
<1> HIDE DEF MacObject, MacMeant, MacMaterial
<1>4. /\ mctx \in [MacContexts -> MacObject] /\ macSaid \in [MacContexts -> MacMeant]
      /\ \A c \in MacContexts : AsSaid(mctx[c], macSaid[c])
  BY <1>1, NewMeansNothing
<1>5. KeyInv
  BY <1>1, <1>2, <1>3 DEF KeyInv
<1>6. tag.got = tag.due /\ compared.answer = compared.truth
  BY <1>1 DEF NoTag, NothingAsked
<1> QED BY <1>1, <1>4, <1>5, <1>6 DEF MacInv

LEMMA MacNextKeeps ==
  ASSUME MacInv, MacHabits = {}, MacNext
  PROVE  MacInv'
<1>1. ASSUME mac # "none", NEW c \in MacContexts, Contextual(c) PROVE MacInv'
  <2>1. ASSUME NEW p \in MacParams, CallSetParams(c, p) PROVE MacInv'
    BY <1>1, <2>1, SetParamsKeeps
  <2>2. ASSUME NEW p \in MacParams, NEW key \in KeyNames \cup {""}, CallInit(c, key, p)
        PROVE  MacInv'
    <3>1. key \in MacNames
      BY DEF MacNames
    <3> QED BY <1>1, <2>2, <3>1, InitKeeps
  <2>3. ASSUME NEW m \in MacKeys, NEW md \in AlgNames \cup {""}, NEW p \in MacParams,
               CallSignInit(c, m, md, p)
        PROVE  MacInv'
    BY <2>3, SignInitKeeps
  <2>4. ASSUME NEW data \in MacInputs, CallUpdate(c, data) PROVE MacInv'
    BY <1>1, <2>4, UpdateKeeps
  <2>5. ASSUME NEW to \in MacContexts, CallDup(c, to) PROVE MacInv'
    BY <1>1, <2>5, DupKeeps
  <2>6. ASSUME NEW room \in {"less", "exact", "more"}, CallFinal(c, room) PROVE MacInv'
    BY <1>1, <2>6, FinalKeeps
  <2>7. ASSUME CallFree(c) PROVE MacInv'
    BY <2>7, GiveUpKeeps
  <2> QED BY <1>1, <2>1, <2>2, <2>3, <2>4, <2>5, <2>6, <2>7 DEF Contextual
<1>2. ASSUME signs, NEW m \in MacKeys, Keyed(m) PROVE MacInv'
  BY <1>2, KeyedKeeps
<1>3. ASSUME signs, NEW key \in KeyNames, NEW cipher \in Good \cup {""}, GenInit(key, cipher)
      PROVE  MacInv'
  BY <1>3, GenInitKeeps
<1>4. ASSUME GenCleanup PROVE MacInv'
  BY <1>4, GenCleanupKeeps
<1> QED BY <1>1, <1>2, <1>3, <1>4 DEF MacNext

LEMMA MacStutter == MacInv /\ UNCHANGED macVars => MacInv'
<1> SUFFICES ASSUME MacInv, UNCHANGED macVars PROVE MacInv'
  OBVIOUS
<1>1. /\ UNCHANGED <<mac, signs, mctx, macSaid, mkeys, madeOf, gen>>
      /\ tag' = tag /\ compared' = compared
  BY DEF macVars
<1> HIDE DEF MacObject, MacMeant
<1>2. ASSUME NEW x \in MacContexts PROVE AsSaid(mctx[x], macSaid[x])'
  <2>1. AsSaid(mctx[x], macSaid[x])
    BY DEF MacInv
  <2> QED BY <1>1, <2>1 DEF AsSaid, KeyAsSaid, MsgAsSaid, Cleared
<1>3. KeyInv'
  BY <1>1 DEF MacInv, KeyInv
<1> QED BY <1>1, <1>2, <1>3 DEF MacInv

LEMMA MacInvHolds ==
  ASSUME MacHabits = {}
  PROVE  MacSpec => []MacInv
<1>1. MacInit => MacInv
  BY MacInitInv
<1>2. MacInv /\ [MacNext]_macVars => MacInv'
  BY MacNextKeeps, MacStutter
<1> QED BY <1>1, <1>2, PTL DEF MacSpec

(* A MAC is that of the message given since it was begun, under the key and  *)
(* with the algorithm asked for, whatever the order in which the parameters, *)
(* the key and the pieces of the message came, the number of contexts, the   *)
(* copies made of them and the lengths of the pieces: wp_hmac.c, wp_cmac.c,  *)
(* wp_gmac.c and wp_mac_sig.c, of programs with none of the habits.          *)
THEOREM SpecTagAsAsked ==
  ASSUME MacHabits = {}
  PROVE  MacSpec => []TagAsAsked
<1>1. MacInv => TagAsAsked
  BY DEF MacInv, TagAsAsked
<1> QED BY <1>1, MacInvHolds, PTL

(* A MAC key is said to be there, and two are said to be the same, exactly   *)
(* when the program made them so: wp_mac_kmgmt.c, of such programs.          *)
THEOREM SpecKeysAreTold ==
  ASSUME MacHabits = {}
  PROVE  MacSpec => []KeysAreTold
<1>1. MacInv => KeysAreTold
  BY DEF MacInv, KeysAreTold
<1> QED BY <1>1, MacInvHolds, PTL

------------------------------------------------------------------------------
(* Key derivation.  What a context holds is what the program has set since   *)
(* it was new, field by field.                                               *)
KdfField == {"md", "mode", "key", "salt", "info", "seed", "label", "data", "type"}
KdfObject(c) == c = [w \in KdfField |-> c[w]] /\ c.seed \in Seq({"a", "b"})
Newest(c, b, v) ==
  IF ~Carries(b, v) THEN c[v]
  ELSE IF v = "info" THEN Pieces(To(b, v))
  ELSE IF v = "seed" THEN (IF kdf = "prf" THEN c[v] ELSE <<>>) \o Pieces(To(b, v))
  ELSE To(b, v)
(* e is c with the fields of W as the batch has them. *)
HasSet(c, e, b, W) ==
  /\ e = [w \in KdfField |-> e[w]]
  /\ \A v \in KdfField : e[v] = IF v \in W THEN Newest(c, b, v) ELSE c[v]

KdfHolds ==
  /\ kdf \in Kdfs
  /\ KdfObject(kctx) /\ wish.p = kctx
  /\ kdf = "krb5" => constant \in Constants /\ Len(constant) <= FoldSize
  /\ kdf = "prf" => kctx.md = NoName \/ kctx.md = "MD5-SHA1" \/ kctx.md = "SHA256"
  /\ derived.got = derived.due

LEMMA UnsetIs ==
  ASSUME NEW c, c = Unset
  PROVE  KdfObject(c) /\ c.md = NoName /\ c.info = <<>>
<1>1. c = [md |-> NoName, mode |-> NoName, key |-> NoName, salt |-> NoName, info |-> <<>>,
           seed |-> <<>>, label |-> NoName, data |-> NoName, type |-> NoName]
  BY DEF Unset, NoName
<1>2. c = [w \in KdfField |-> c[w]]
  BY <1>1 DEF KdfField
<1>3. c.seed = <<>> /\ c.md = NoName /\ c.info = <<>>
  BY <1>1
<1>4. <<>> \in Seq({"a", "b"})
  OBVIOUS
<1> QED BY <1>2, <1>3, <1>4 DEF KdfObject

(* What a batch brings. *)
LEMMA BatchBrings ==
  ASSUME NEW k \in Kdf, NEW b \in Batches(k), NEW w, Carries(b, w)
  PROVE  w \in Whats(k) /\ To(b, w) \in Values(k, w)
<1>1. \A s \in b : s \in Parameters(k)
  BY DEF Batches
<1>2. \A s \in Parameters(k) : s.what \in Whats(k) /\ s.to \in Values(k, s.what)
  BY DEF Parameters
<1> DEFINE s == CHOOSE s \in b : s.what = w
<1>3. s \in b /\ s.what = w
  BY DEF Carries
<1> HIDE DEF s
<1>4. s.to = To(b, w)
  BY DEF To, s
<1> QED BY <1>1, <1>2, <1>3, <1>4

LEMMA Brought ==
  ASSUME NEW k \in Kdf, NEW b \in Batches(k)
  PROVE  /\ Carries(b, "info") => To(b, "info") = "a" \/ To(b, "info") = "ab"
         /\ Carries(b, "seed") => To(b, "seed") = "a" \/ To(b, "seed") = "ab"
         /\ Carries(b, "md") /\ k = "prf" =>
              To(b, "md") \in {"SHA256", "unknown", "MD5-SHA1", "SHA512"}
<1>1. Carries(b, "info") => To(b, "info") \in Values(k, "info")
  BY BatchBrings
<1>2. Carries(b, "seed") => To(b, "seed") \in Values(k, "seed")
  BY BatchBrings
<1>3. Carries(b, "md") => To(b, "md") \in Values(k, "md")
  BY BatchBrings
<1>4. Values(k, "info") = {"a", "ab"} /\ Values(k, "seed") = {"a", "ab"}
  BY DEF Values
<1>5. k = "prf" => Values(k, "md") = {"SHA256", "unknown", "MD5-SHA1", "SHA512"}
  BY DEF Values
<1> QED BY <1>1, <1>2, <1>3, <1>4, <1>5

LEMMA PiecesAre ==
  ASSUME NEW t, t = "a" \/ t = "ab"
  PROVE  Pieces(t) \in Seq({"a", "b"})
<1>1. <<"a", "b">> \in Seq({"a", "b"}) /\ <<"a">> \in Seq({"a", "b"})
  OBVIOUS
<1>2. Pieces(t) = <<"a", "b">> \/ Pieces(t) = <<"a">>
  BY DEF Pieces
<1> QED BY <1>1, <1>2

(* One parameter after another. *)
LEMMA HasSetNone ==
  ASSUME NEW c, KdfObject(c), NEW b
  PROVE  HasSet(c, c, b, {})
BY DEF HasSet, KdfObject

LEMMA OneMore ==
  ASSUME NEW c, NEW e, NEW b, NEW W, HasSet(c, e, b, W),
         NEW w \in {"md", "mode", "key", "salt", "label", "data", "type"}, w \notin W
  PROVE  HasSet(c, GetOctetString(e, b, w), b, W \cup {w})
<1> DEFINE f == GetOctetString(e, b, w)
<1>0. w \in KdfField /\ w # "info" /\ w # "seed"
  BY DEF KdfField
<1> HIDE DEF KdfField
<1>1. CASE Carries(b, w)
  <2>1. f = [e EXCEPT ![w] = To(b, w)] /\ Newest(c, b, w) = To(b, w)
    BY <1>0, <1>1 DEF GetOctetString, Newest
  <2> HIDE DEF f
  <2>2. f = [v \in KdfField |-> f[v]] /\ f[w] = To(b, w)
        /\ \A v \in KdfField : v # w => f[v] = e[v]
    BY <1>0, <2>1 DEF HasSet
  <2>3. HasSet(c, f, b, W \cup {w})
    BY <2>1, <2>2 DEF HasSet
  <2> QED BY <2>3 DEF f
<1>2. CASE ~Carries(b, w)
  <2>1. f = e /\ Newest(c, b, w) = c[w]
    BY <1>2 DEF GetOctetString, Newest
  <2> HIDE DEF f
  <2>2. HasSet(c, f, b, W \cup {w})
    BY <2>1 DEF HasSet
  <2> QED BY <2>2 DEF f
<1> QED BY <1>1, <1>2

LEMMA DigestSet ==
  ASSUME NEW c, KdfObject(c), NEW b, GetDigest(c, b).ok
  PROVE  HasSet(c, GetDigest(c, b).c, b, {"md"}) /\ (Carries(b, "md") => To(b, "md") # "unknown")
<1> DEFINE e == GetOctetString(c, b, "md")
<1>1. HasSet(c, e, b, {} \cup {"md"})
  BY HasSetNone, OneMore
<1>2. GetDigest(c, b).c = e /\ (Carries(b, "md") => To(b, "md") # "unknown")
  <2>1. CASE Carries(b, "md")
    <3>1. To(b, "md") # "unknown"
      BY <2>1 DEF GetDigest, Not
    <3>2. GetDigest(c, b) = Taken([c EXCEPT !.md = To(b, "md")])
      BY <2>1, <3>1, Zenon DEF GetDigest
    <3> QED BY <2>1, <3>1, <3>2 DEF Taken, GetOctetString
  <2>2. CASE ~Carries(b, "md")
    <3>1. GetDigest(c, b) = Taken(c)
      BY <2>2, Zenon DEF GetDigest
    <3> QED BY <2>2, <3>1 DEF Taken, GetOctetString
  <2> QED BY <2>1, <2>2
<1> HIDE DEF e
<1>3. {} \cup {"md"} = {"md"}
  OBVIOUS
<1> QED BY <1>1, <1>2, <1>3

(* The parameters of each KDF, taken, are what they are to be.               *)
SetsAll(c, r, b) == r.ok => r.c = WishAll(c, b)

LEMMA AllSet ==
  ASSUME NEW k \in Kdf, NEW b \in Batches(k), NEW c, KdfObject(c), NEW e, NEW W,
         HasSet(c, e, b, W), Whats(k) \subseteq W
  PROVE  e = WishAll(c, b)
<1>1. DOMAIN c = KdfField
  BY DEF KdfObject
<1>2. \A w : Carries(b, w) => w \in W
  BY BatchBrings
<1>3. \A v \in KdfField : e[v] = Newest(c, b, v)
  BY <1>2 DEF HasSet, Newest
<1>4. WishAll(c, b) = [w \in KdfField |-> Newest(c, b, w)]
  <2> DEFINE Wished(w) == CASE ~Carries(b, w) -> c[w]
                  [] Carries(b, w) /\ w = "info" -> Pieces(To(b, w))
                  [] Carries(b, w) /\ w = "seed" ->
                       (IF kdf = "prf" THEN c[w] ELSE <<>>) \o Pieces(To(b, w))
                  [] OTHER -> To(b, w)
  <2>1. WishAll(c, b) = [w \in DOMAIN c |-> Wished(w)]
    BY Zenon DEF WishAll
  <2>2. ASSUME NEW w \in KdfField PROVE Wished(w) = Newest(c, b, w)
    BY DEF Newest
  <2> HIDE DEF Wished
  <2> QED BY <1>1, <2>1, <2>2
<1>5. e = [v \in KdfField |-> e[v]]
  BY DEF HasSet
<1> QED BY <1>3, <1>4, <1>5

LEMMA HkdfBaseSets ==
  ASSUME NEW c, KdfObject(c), NEW b, NEW r, r = HkdfBaseSet(c, b), r.ok
  PROVE  HasSet(c, r.c, b, {"md", "mode", "key", "salt"})
<1> DEFINE d == GetDigest(c, b)
           set == GetOctetString(d.c, b, "mode")
           m == HkdfGetMode(d.c, b)
           e == GetOctetString(set, b, "key")
           f == GetOctetString(e, b, "salt")
<1>1. r = LET n == IF d.ok THEN m ELSE d
          IN IF n.ok THEN Taken(GetOctetString(GetOctetString(n.c, b, "key"), b, "salt")) ELSE n
  BY Zenon DEF HkdfBaseSet
<1>2. m = Not(set) \/ m = Taken(set)
  BY Zenon DEF HkdfGetMode
<1>3. m.c = set
  <2> HIDE DEF m, set
  <2> QED BY <1>2 DEF Not, Taken
<1> HIDE DEF d, m
<1>4. d.ok = TRUE
  BY <1>1 DEF d, GetDigest, Taken, Not
<1>5. m.ok /\ r.c = f
  BY <1>1, <1>3, <1>4 DEF Taken
<1>6. HasSet(c, d.c, b, {"md"})
  BY <1>4, DigestSet DEF d
<1>7. HasSet(c, set, b, {"md"} \cup {"mode"})
  BY <1>6, OneMore
<1> HIDE DEF set
<1>8. HasSet(c, e, b, ({"md"} \cup {"mode"}) \cup {"key"})
  BY <1>7, OneMore
<1> HIDE DEF e
<1>9. HasSet(c, f, b, (({"md"} \cup {"mode"}) \cup {"key"}) \cup {"salt"})
  BY <1>8, OneMore
<1>10. (({"md"} \cup {"mode"}) \cup {"key"}) \cup {"salt"} = {"md", "mode", "key", "salt"}
  OBVIOUS
<1> HIDE DEF f
<1> QED BY <1>5, <1>9, <1>10

(* Info that was there before comes with the call again. *)
LEMMA HkdfSets ==
  ASSUME NEW b \in Batches("hkdf"), NEW c, KdfObject(c),
         c.info # <<>> => Carries(b, "info")
  PROVE  SetsAll(c, HkdfSet(c, b), b)
<1> DEFINE r == HkdfBaseSet(c, b)
           all == IF Carries(b, "info") THEN Pieces(To(b, "info")) ELSE <<>>
           e == r.c
           f == [e EXCEPT !.info = all]
           s == HkdfSet(c, b)
<1>1. SUFFICES ASSUME s.ok PROVE s.c = WishAll(c, b)
  BY DEF SetsAll
<1>2. s = IF r.ok THEN IF Len(all) <= MaxPieces THEN Taken(f) 
                   ELSE Not([e EXCEPT !.info = SubSeq(all, 1, MaxPieces)])
          ELSE r
  BY Zenon DEF HkdfSet, HkdfSetInfo
<1>3. r.ok /\ s.c = f
  BY <1>1, <1>2 DEF Taken, Not
<1>4. HasSet(c, e, b, {"md", "mode", "key", "salt"})
  BY <1>3, HkdfBaseSets
<1>5. all = Newest(c, b, "info")
  BY DEF Newest
<1> HIDE DEF r, e, all, s
<1>6. HasSet(c, f, b, {"md", "mode", "key", "salt", "info"})
  <2>1. "info" \in KdfField
    BY DEF KdfField
  <2>2. f = [v \in KdfField |-> f[v]] /\ f["info"] = all
        /\ \A v \in KdfField : v # "info" => f[v] = e[v]
    BY <1>4, <2>1 DEF HasSet
  <2> HIDE DEF f
  <2> QED BY <1>4, <1>5, <2>2 DEF HasSet
<1>7. Whats("hkdf") \subseteq {"md", "mode", "key", "salt", "info"} /\ "hkdf" \in Kdf
  BY DEF Whats, Kdf
<1> HIDE DEF f
<1>8. f = WishAll(c, b)
  BY <1>6, <1>7, AllSet
<1> QED BY <1>3, <1>8

LEMMA Tls13Sets ==
  ASSUME NEW b \in Batches("tls13"), NEW c, KdfObject(c)
  PROVE  SetsAll(c, Tls13Set(c, b), b)
<1> DEFINE r == HkdfBaseSet(c, b)
           e == GetOctetString(r.c, b, "label")
           f == GetOctetString(e, b, "data")
           s == Tls13Set(c, b)
<1>1. SUFFICES ASSUME s.ok PROVE s.c = WishAll(c, b)
  BY DEF SetsAll
<1>2. \/ s = Not(r.c) \/ (r.ok /\ s = Taken(f)) \/ (~r.ok /\ s = r)
  BY Zenon DEF Tls13Set
<1>3. r.ok /\ s.c = f
  BY <1>1, <1>2 DEF Taken, Not
<1>4. HasSet(c, r.c, b, {"md", "mode", "key", "salt"})
  BY <1>3, HkdfBaseSets
<1>5. HasSet(c, e, b, {"md", "mode", "key", "salt"} \cup {"label"})
  BY <1>4, OneMore
<1> HIDE DEF e
<1>6. HasSet(c, f, b, ({"md", "mode", "key", "salt"} \cup {"label"}) \cup {"data"})
  BY <1>5, OneMore
<1>7. Whats("tls13") \subseteq ({"md", "mode", "key", "salt"} \cup {"label"}) \cup {"data"}
      /\ "tls13" \in Kdf
  BY DEF Whats, Kdf
<1> HIDE DEF f
<1>8. f = WishAll(c, b)
  BY <1>6, <1>7, AllSet
<1> QED BY <1>3, <1>8

LEMMA PrfSets ==
  ASSUME kdf = "prf", NEW b \in Batches("prf"), NEW c, KdfObject(c)
  PROVE  SetsAll(c, PrfSet(c, b), b)
<1> DEFINE d == GetDigest(c, b)
           e == GetOctetString(d.c, b, "key")
           all == e.seed \o (IF Carries(b, "seed") THEN Pieces(To(b, "seed")) ELSE <<>>)
           f == [e EXCEPT !.seed = all]
           s == PrfSet(c, b)
<1>1. SUFFICES ASSUME s.ok PROVE s.c = WishAll(c, b)
  BY DEF SetsAll
<1> DEFINE g == [e EXCEPT !.seed = SubSeq(all, 1, MaxPieces)]
<1>2. s = IF d.ok THEN IF Len(all) <= MaxPieces THEN Taken(f) ELSE Not(g) ELSE d
  BY Zenon DEF PrfSet, PrfGetSeed
<1> HIDE DEF g
<1>3. d.ok /\ s.c = f
  <2>1. (d.ok /\ s = Taken(f)) \/ s = Not(g) \/ (~d.ok /\ s = d)
    BY <1>2, Zenon
  <2> HIDE DEF d, e, f, s
  <2> QED BY <1>1, <2>1 DEF Taken, Not
<1>4. HasSet(c, d.c, b, {"md"})
  BY <1>3, DigestSet
<1> HIDE DEF d
<1>5. HasSet(c, e, b, {"md"} \cup {"key"})
  BY <1>4, OneMore
<1>6. "seed" \in KdfField
  BY DEF KdfField
<1> HIDE DEF e
<1>7. e.seed = c.seed
  BY <1>5, <1>6 DEF HasSet
<1>8. all = Newest(c, b, "seed")
  <2>1. CASE Carries(b, "seed")
    BY <1>7, <2>1 DEF Newest
  <2>2. CASE ~Carries(b, "seed")
    <3>1. c.seed \in Seq({"a", "b"})
      BY DEF KdfObject
    <3>2. c.seed \o <<>> = c.seed
      BY <3>1, ConcatEmptySeq
    <3> QED BY <1>7, <2>2, <3>2 DEF Newest
  <2> QED BY <2>1, <2>2
<1> HIDE DEF all, s
<1>9. HasSet(c, f, b, {"md", "key", "seed"})
  <2>2. f = [v \in KdfField |-> f[v]] /\ f["seed"] = all
        /\ \A v \in KdfField : v # "seed" => f[v] = e[v]
    BY <1>5, <1>6 DEF HasSet
  <2> HIDE DEF f
  <2> QED BY <1>5, <1>8, <2>2 DEF HasSet
<1>10. Whats("prf") \subseteq {"md", "key", "seed"} /\ "prf" \in Kdf
  BY DEF Whats, Kdf
<1> HIDE DEF f
<1>11. f = WishAll(c, b)
  BY <1>9, <1>10, AllSet
<1> QED BY <1>3, <1>11

LEMMA Pbkdf2Has ==
  ASSUME NEW c, KdfObject(c), NEW b, NEW r, r = Pbkdf2Set(c, b), r.ok
  PROVE  HasSet(c, r.c, b, {"md", "key", "salt"})
<1> DEFINE d == GetDigest(c, b)
           e == GetOctetString(d.c, b, "key")
           f == GetOctetString(e, b, "salt")
<1>1. (d.ok /\ r = Taken(f)) \/ (~d.ok /\ r = d)
  BY Zenon DEF Pbkdf2Set
<1>2. d.ok /\ r.c = f
  <2> HIDE DEF d, f
  <2> QED BY <1>1 DEF Taken
<1>3. HasSet(c, d.c, b, {"md"})
  BY <1>2, DigestSet
<1> HIDE DEF d
<1>4. HasSet(c, e, b, {"md"} \cup {"key"})
  BY <1>3, OneMore
<1> HIDE DEF e
<1>5. HasSet(c, f, b, ({"md"} \cup {"key"}) \cup {"salt"})
  BY <1>4, OneMore
<1>6. ({"md"} \cup {"key"}) \cup {"salt"} = {"md", "key", "salt"}
  OBVIOUS
<1> HIDE DEF f
<1> QED BY <1>2, <1>5, <1>6

LEMMA Pbkdf2Sets ==
  ASSUME NEW b \in Batches("pbkdf2"), NEW c, KdfObject(c)
  PROVE  SetsAll(c, Pbkdf2Set(c, b), b)
<1> DEFINE r == Pbkdf2Set(c, b)
<1>1. SUFFICES ASSUME r.ok PROVE r.c = WishAll(c, b)
  BY DEF SetsAll
<1>2. HasSet(c, r.c, b, {"md", "key", "salt"})
  BY <1>1, Pbkdf2Has
<1>3. Whats("pbkdf2") \subseteq {"md", "key", "salt"} /\ "pbkdf2" \in Kdf
  BY DEF Whats, Kdf
<1> HIDE DEF r
<1> QED BY <1>2, <1>3, AllSet

LEMMA Pkcs12Sets ==
  ASSUME NEW b \in Batches("pkcs12"), NEW c, KdfObject(c)
  PROVE  SetsAll(c, Pkcs12Set(c, b), b)
<1> DEFINE r == Pbkdf2Set(c, b)
           f == GetOctetString(r.c, b, "type")
           s == Pkcs12Set(c, b)
<1>1. SUFFICES ASSUME s.ok PROVE s.c = WishAll(c, b)
  BY DEF SetsAll
<1>2. (r.ok /\ s = Taken(f)) \/ (~r.ok /\ s = r)
  BY Zenon DEF Pkcs12Set
<1>3. r.ok /\ s.c = f
  <2> HIDE DEF r, f, s
  <2> QED BY <1>1, <1>2 DEF Taken
<1>4. HasSet(c, r.c, b, {"md", "key", "salt"})
  BY <1>3, Pbkdf2Has
<1> HIDE DEF r
<1>5. HasSet(c, f, b, {"md", "key", "salt"} \cup {"type"})
  BY <1>4, OneMore
<1>6. Whats("pkcs12") \subseteq {"md", "key", "salt"} \cup {"type"} /\ "pkcs12" \in Kdf
  BY DEF Whats, Kdf
<1> HIDE DEF f
<1>7. f = WishAll(c, b)
  BY <1>5, <1>6, AllSet
<1> QED BY <1>3, <1>7

LEMMA SshSets ==
  ASSUME NEW b \in Batches("ssh"), NEW c, KdfObject(c)
  PROVE  SetsAll(c, SshSet(c, b), b)
<1> DEFINE d == GetDigest(c, b)
           e == GetOctetString(d.c, b, "key")
           f == GetOctetString(e, b, "data")
           g == GetOctetString(f, b, "label")
           h == GetOctetString(g, b, "type")
           s == SshSet(c, b)
<1>1. SUFFICES ASSUME s.ok PROVE s.c = WishAll(c, b)
  BY DEF SetsAll
<1>2. (d.ok /\ s = Taken(h)) \/ s = Not(g) \/ (~d.ok /\ s = d)
  BY Zenon DEF SshSet
<1>3. d.ok /\ s.c = h
  <2> HIDE DEF d, g, h, s
  <2> QED BY <1>1, <1>2 DEF Taken, Not
<1>4. HasSet(c, d.c, b, {"md"})
  BY <1>3, DigestSet
<1> HIDE DEF d
<1>5. HasSet(c, e, b, {"md"} \cup {"key"})
  BY <1>4, OneMore
<1> HIDE DEF e
<1>6. HasSet(c, f, b, ({"md"} \cup {"key"}) \cup {"data"})
  BY <1>5, OneMore
<1> HIDE DEF f
<1>7. HasSet(c, g, b, (({"md"} \cup {"key"}) \cup {"data"}) \cup {"label"})
  BY <1>6, OneMore
<1> HIDE DEF g
<1>8. HasSet(c, h, b, ((({"md"} \cup {"key"}) \cup {"data"}) \cup {"label"}) \cup {"type"})
  BY <1>7, OneMore
<1>9. /\ Whats("ssh") \subseteq ((({"md"} \cup {"key"}) \cup {"data"}) \cup {"label"}) \cup {"type"}
      /\ "ssh" \in Kdf
  BY DEF Whats, Kdf
<1> HIDE DEF h
<1>10. h = WishAll(c, b)
  BY <1>8, <1>9, AllSet
<1> QED BY <1>3, <1>10

LEMMA Krb5Sets ==
  ASSUME NEW b \in Batches("krb5"), NEW c, KdfObject(c)
  PROVE  SetsAll(c, Krb5Set(c, b), b)
<1> DEFINE e == GetOctetString(c, b, "type")
           f == GetOctetString(e, b, "key")
           g == GetOctetString(f, b, "data")
           s == Krb5Set(c, b)
<1>1. SUFFICES ASSUME s.ok PROVE s.c = WishAll(c, b)
  BY DEF SetsAll
<1>2. s = Taken(g) \/ s = Not(c)
  BY Zenon DEF Krb5Set
<1>3. s.c = g
  <2> HIDE DEF g, s
  <2> QED BY <1>1, <1>2 DEF Taken, Not
<1>4. HasSet(c, e, b, {} \cup {"type"})
  BY HasSetNone, OneMore
<1> HIDE DEF e
<1>5. HasSet(c, f, b, ({} \cup {"type"}) \cup {"key"})
  BY <1>4, OneMore
<1> HIDE DEF f
<1>6. HasSet(c, g, b, (({} \cup {"type"}) \cup {"key"}) \cup {"data"})
  BY <1>5, OneMore
<1>7. Whats("krb5") \subseteq (({} \cup {"type"}) \cup {"key"}) \cup {"data"} /\ "krb5" \in Kdf
  BY DEF Whats, Kdf
<1> HIDE DEF g
<1>8. g = WishAll(c, b)
  BY <1>6, <1>7, AllSet
<1> QED BY <1>3, <1>8

LEMMA KbkdfSets ==
  ASSUME kdf = "kbkdf", NEW b \in Batches("kbkdf"), NEW c, KdfObject(c)
  PROVE  SetsAll(c, KbkdfSet(c, b), b)
<1> DEFINE bad == Carries(b, "mode") /\ To(b, "mode") # "FEEDBACK"
           other == Carries(b, "type") /\ To(b, "type") = "other"
           d == GetOctetString(c, b, "mode")
           e == GetOctetString(d, b, "md")
           f == GetOctetString(e, b, "key")
           g == GetOctetString(f, b, "label")
           h == IF Carries(b, "seed") THEN [g EXCEPT !.seed = Pieces(To(b, "seed"))] ELSE g
           i == IF Carries(b, "info") THEN [h EXCEPT !.info = Pieces(To(b, "info"))] ELSE h
           j == GetOctetString(i, b, "type")
           s == KbkdfSet(c, b)
           W == (({} \cup {"mode"}) \cup {"md"}) \cup {"key"}
           X == (W \cup {"label"}) \cup {"seed", "info"}
<1>1. SUFFICES ASSUME s.ok PROVE s.c = WishAll(c, b)
  BY DEF SetsAll
<1>2. s = CASE bad -> Not(c) [] ~bad /\ other -> Not(i) [] OTHER -> Taken(j)
  BY Zenon DEF KbkdfSet
<1>3. s.c = j
  <2> HIDE DEF bad, other, i, j, s
  <2>1. s = Not(c) \/ s = Not(i) \/ s = Taken(j)
    BY <1>2
  <2> QED BY <1>1, <2>1 DEF Taken, Not
<1>4. HasSet(c, d, b, {} \cup {"mode"})
  BY HasSetNone, OneMore
<1> HIDE DEF d
<1>5. HasSet(c, e, b, ({} \cup {"mode"}) \cup {"md"})
  BY <1>4, OneMore
<1> HIDE DEF e
<1>6. HasSet(c, f, b, W)
  BY <1>5, OneMore
<1> HIDE DEF f
<1>7. HasSet(c, g, b, W \cup {"label"})
  BY <1>6, OneMore
<1> HIDE DEF g, h, i
<1>8. "seed" \in KdfField /\ "info" \in KdfField /\ "type" \in KdfField
  BY DEF KdfField
<1>9. h = [v \in KdfField |-> h[v]] /\ h["seed"] = Newest(c, b, "seed")
      /\ \A v \in KdfField : v # "seed" => h[v] = g[v]
  <2>1. CASE Carries(b, "seed")
    <3>1. h = [g EXCEPT !.seed = Pieces(To(b, "seed"))]
      BY <2>1 DEF h
    <3>2. Newest(c, b, "seed") = <<>> \o Pieces(To(b, "seed"))
      BY <2>1 DEF Newest
    <3>3. Pieces(To(b, "seed")) \in Seq({"a", "b"})
      <4>1. "kbkdf" \in Kdf
        BY DEF Kdf
      <4> QED BY <2>1, <4>1, Brought, PiecesAre
    <3>4. <<>> \o Pieces(To(b, "seed")) = Pieces(To(b, "seed"))
      BY <3>3, ConcatEmptySeq
    <3> HIDE DEF KdfField
    <3> QED BY <1>7, <1>8, <3>1, <3>2, <3>4 DEF HasSet
  <2>2. CASE ~Carries(b, "seed")
    <3>1. h = g /\ Newest(c, b, "seed") = c["seed"]
      BY <2>2 DEF h, Newest
    <3> QED BY <1>7, <1>8, <3>1 DEF HasSet
  <2> QED BY <2>1, <2>2
<1>10. i = [v \in KdfField |-> i[v]] /\ i["info"] = Newest(c, b, "info")
      /\ \A v \in KdfField : v # "info" => i[v] = h[v]
  <2>1. CASE Carries(b, "info")
    <3>1. i = [h EXCEPT !.info = Pieces(To(b, "info"))] /\ Newest(c, b, "info") = Pieces(To(b, "info"))
      BY <2>1 DEF i, Newest
    <3> QED BY <1>8, <1>9, <3>1
  <2>2. CASE ~Carries(b, "info")
    <3>1. i = h /\ Newest(c, b, "info") = c["info"]
      BY <2>2 DEF i, Newest
    <3>2. h["info"] = g["info"] /\ g["info"] = c["info"]
      BY <1>7, <1>8, <1>9 DEF HasSet
    <3> QED BY <1>8, <1>9, <3>1, <3>2
  <2> QED BY <2>1, <2>2
<1>11. HasSet(c, i, b, X)
  <2>1. \A v \in KdfField : i[v] = IF v \in X THEN Newest(c, b, v) ELSE c[v]
    BY <1>7, <1>9, <1>10 DEF HasSet
  <2> QED BY <1>10, <2>1 DEF HasSet
<1>12. "type" \notin X
  OBVIOUS
<1> HIDE DEF X
<1>13. HasSet(c, j, b, X \cup {"type"})
  BY <1>11, <1>12, OneMore
<1>14. Whats("kbkdf") \subseteq X \cup {"type"} /\ "kbkdf" \in Kdf
  BY DEF Whats, Kdf, X
<1> HIDE DEF j
<1>15. j = WishAll(c, b)
  BY <1>13, <1>14, AllSet
<1> QED BY <1>3, <1>15

LEMMA ParamsSet ==
  ASSUME kdf \in Kdf, NEW b \in Batches(kdf), NEW c, KdfObject(c),
         kdf = "hkdf" => (c.info # <<>> => Carries(b, "info"))
  PROVE  SetsAll(c, SetParams(c, b), b)
<1>1. CASE kdf = "hkdf"
  <2>1. SetParams(c, b) = HkdfSet(c, b)
    BY <1>1 DEF SetParams
  <2> QED BY <1>1, <2>1, HkdfSets
<1>2. CASE kdf = "tls13"
  <2>1. SetParams(c, b) = Tls13Set(c, b)
    BY <1>2 DEF SetParams
  <2> QED BY <1>2, <2>1, Tls13Sets
<1>3. CASE kdf = "prf"
  <2>1. SetParams(c, b) = PrfSet(c, b)
    BY <1>3 DEF SetParams
  <2> QED BY <1>3, <2>1, PrfSets
<1>4. CASE kdf = "pbkdf2"
  <2>1. SetParams(c, b) = Pbkdf2Set(c, b)
    BY <1>4 DEF SetParams
  <2> QED BY <1>4, <2>1, Pbkdf2Sets
<1>5. CASE kdf = "pkcs12"
  <2>1. SetParams(c, b) = Pkcs12Set(c, b)
    BY <1>5 DEF SetParams
  <2> QED BY <1>5, <2>1, Pkcs12Sets
<1>6. CASE kdf = "kbkdf"
  <2>1. SetParams(c, b) = KbkdfSet(c, b)
    BY <1>6 DEF SetParams
  <2> QED BY <1>6, <2>1, KbkdfSets
<1>7. CASE kdf = "krb5"
  <2>1. SetParams(c, b) = Krb5Set(c, b)
    BY <1>7 DEF SetParams
  <2> QED BY <1>7, <2>1, Krb5Sets
<1>8. CASE kdf = "ssh"
  <2>1. SetParams(c, b) = SshSet(c, b)
    BY <1>8 DEF SetParams
  <2> QED BY <1>8, <2>1, SshSets
<1> QED BY <1>1, <1>2, <1>3, <1>4, <1>5, <1>6, <1>7, <1>8 DEF Kdf

(* What a batch leaves has the fields of a context. *)
LEMMA WishedObject ==
  ASSUME kdf \in Kdf, NEW b \in Batches(kdf), NEW c, KdfObject(c)
  PROVE  /\ KdfObject(WishAll(c, b))
         /\ WishAll(c, b).md = IF Carries(b, "md") THEN To(b, "md") ELSE c.md
<1> DEFINE e == WishAll(c, b)
           Wished(w) == CASE ~Carries(b, w) -> c[w]
                  [] Carries(b, w) /\ w = "info" -> Pieces(To(b, w))
                  [] Carries(b, w) /\ w = "seed" ->
                       (IF kdf = "prf" THEN c[w] ELSE <<>>) \o Pieces(To(b, w))
                  [] OTHER -> To(b, w)
<1>1. e = [w \in DOMAIN c |-> Wished(w)] /\ DOMAIN c = KdfField
  <2>1. e = [w \in DOMAIN c |-> Wished(w)]
    BY Zenon DEF WishAll
  <2> HIDE DEF e, Wished
  <2> QED BY <2>1 DEF KdfObject
<1>2. "seed" \in KdfField /\ "md" \in KdfField
  BY DEF KdfField
<1>3. Wished("seed") \in Seq({"a", "b"})
  <2>1. CASE Carries(b, "seed")
    <3>1. Wished("seed") = (IF kdf = "prf" THEN c.seed ELSE <<>>) \o Pieces(To(b, "seed"))
      BY <2>1
    <3>2. Pieces(To(b, "seed")) \in Seq({"a", "b"})
      BY <2>1, Brought, PiecesAre
    <3>3. c.seed \in Seq({"a", "b"}) /\ <<>> \in Seq({"a", "b"})
      BY DEF KdfObject
    <3> QED BY <3>1, <3>2, <3>3, ConcatProperties
  <2>2. CASE ~Carries(b, "seed")
    <3>1. Wished("seed") = c.seed
      BY <2>2
    <3> QED BY <3>1 DEF KdfObject
  <2> QED BY <2>1, <2>2
<1>4. Wished("md") = IF Carries(b, "md") THEN To(b, "md") ELSE c.md
  OBVIOUS
<1> HIDE DEF e, Wished
<1>5. e = [w \in KdfField |-> Wished(w)]
  BY <1>1
<1>6. e.seed = Wished("seed") /\ e.md = Wished("md")
  BY <1>2, <1>5
<1>7. e = [w \in KdfField |-> e[w]]
  BY <1>5
<1>8. KdfObject(e)
  BY <1>3, <1>6, <1>7 DEF KdfObject
<1> QED BY <1>4, <1>6, <1>8 DEF e

------------------------------------------------------------------------------
------------------------------------------------------------------------------
(* n-fold.  A block is a number, its first byte the highest; adding with the *)
(* carry going round is adding modulo one less than 256^FoldSize, where only *)
(* nothing makes nothing.                                                    *)
LEMMA Fold == FoldSize \in Nat \ {0}
BY KdfAssumption

LEMMA Product ==
  ASSUME NEW a \in Nat, NEW b \in Nat
  PROVE  a * b \in Nat /\ (a * b = 0 => a = 0 \/ b = 0)
OBVIOUS

LEMMA SumTimes ==
  ASSUME NEW a \in Int, NEW b \in Int, NEW w \in Int
  PROVE  (a + b) * w = a * w + b * w
OBVIOUS

(* Running sums. *)
RunSums(v, t, n) == /\ v \in [0 .. n -> Nat] /\ v[0] = 0
                 /\ \A i \in 1 .. n : v[i] = v[i - 1] + t[i]
Sums(t, n) == CHOOSE v : RunSums(v, t, n)

LEMMA SumsAre ==
  ASSUME NEW n \in Nat, NEW t \in [1 .. n -> Nat]
  PROVE  RunSums(Sums(t, n), t, n)
<1> DEFINE step == [k \in 1 .. n |-> [y \in Nat |-> y + t[k]]]
<1>1. \A k \in 1 .. n : \A y \in Nat : step[k][y] = y + t[k] /\ step[k][y] \in Nat
  OBVIOUS
<1> HIDE DEF step
<1>2. PICK g \in [0 .. n -> Nat] : RunsAs(g, n, 0, step)
  <2>1. StaysIn(step, n, Nat)
    BY <1>1 DEF StaysIn
  <2> QED BY <2>1, LoopRuns
<1>3. RunSums(g, t, n)
  <2>1. ASSUME NEW i \in 1 .. n PROVE g[i] = g[i - 1] + t[i]
    <3>1. i - 1 \in 0 .. n
      OBVIOUS
    <3>2. g[i] = step[i][g[i - 1]] /\ g[i - 1] \in Nat
      BY <1>2, <3>1 DEF RunsAs
    <3> QED BY <1>1, <3>2
  <2> QED BY <1>2, <2>1 DEF RunSums, RunsAs
<1> QED BY <1>3, Zenon DEF Sums

LEMMA SumsGrow ==
  ASSUME NEW n \in Nat, NEW v, NEW t \in [1 .. n -> Nat], RunSums(v, t, n),
         NEW a \in 0 .. n, NEW b \in a .. n
  PROVE  v[a] <= v[b]
<1> DEFINE D == {k \in Nat : a + k <= n => v[a] <= v[a + k]}
<1>1. 0 \in D
  BY DEF RunSums
<1>2. ASSUME NEW k \in Nat, k \in D PROVE k + 1 \in D
  <2>1. SUFFICES ASSUME a + (k + 1) <= n PROVE v[a] <= v[a + (k + 1)]
    OBVIOUS
  <2> DEFINE i == a + (k + 1)
  <2>2. i \in 1 .. n /\ i - 1 = a + k /\ a + k \in 0 .. n /\ v[a] <= v[a + k]
    BY <1>2, <2>1
  <2> HIDE DEF i
  <2>3. v[i] = v[i - 1] + t[i] /\ v[i - 1] \in Nat /\ t[i] \in Nat /\ v[a] \in Nat
    BY <2>2 DEF RunSums
  <2>4. v[a] <= v[i]
    BY <2>2, <2>3
  <2> QED BY <2>4 DEF i
<1> HIDE DEF D
<1>3. b - a \in Nat /\ a + (b - a) = b /\ b <= n
  OBVIOUS
<1>4. b - a \in D
  BY <1>1, <1>2, <1>3, AllNumbers
<1> QED BY <1>3, <1>4 DEF D

(* What a byte counts for: the last one for 1, each other one for 256 times  *)
(* the next.                                                                 *)
Weighs(w) == /\ w \in [0 .. FoldSize -> Nat \ {0}] /\ w[0] = 1
             /\ \A i \in 1 .. FoldSize : w[i] = 256 * w[i - 1]
Weight == CHOOSE w : Weighs(w)

LEMMA WeightIs == Weighs(Weight)
<1> DEFINE P == Nat \ {0}
           step == [k \in 1 .. FoldSize |-> [y \in P |-> 256 * y]]
<1>1. \A k \in 1 .. FoldSize : \A y \in P : step[k][y] = 256 * y /\ step[k][y] \in P
  OBVIOUS
<1>2. 1 \in P /\ FoldSize \in Nat
  BY Fold
<1> HIDE DEF step, P
<1>3. PICK g \in [0 .. FoldSize -> P] : RunsAs(g, FoldSize, 1, step)
  <2>1. StaysIn(step, FoldSize, P)
    BY <1>1 DEF StaysIn
  <2> QED BY <1>2, <2>1, LoopRuns
<1>4. Weighs(g)
  <2>1. ASSUME NEW i \in 1 .. FoldSize PROVE g[i] = 256 * g[i - 1]
    <3>1. i - 1 \in 0 .. FoldSize
      BY <1>2
    <3>2. g[i] = step[i][g[i - 1]] /\ g[i - 1] \in P
      BY <1>3, <3>1 DEF RunsAs
    <3> QED BY <1>1, <3>2
  <2> QED BY <1>3, <2>1 DEF Weighs, RunsAs, P
<1> QED BY <1>4, Zenon DEF Weight

Byte == 0 .. 255
Block == [1 .. FoldSize -> Byte]
Terms(x) == [i \in 1 .. FoldSize |-> x[i] * Weight[FoldSize - i]]
Parts(x) == Sums(Terms(x), FoldSize)
Val(x) == Parts(x)[FoldSize]
Top == Weight[FoldSize] - 1

LEMMA ByteIs == \A q \in Byte : q \in Nat
BY DEF Byte

LEMMA BytesAre ==
  ASSUME NEW x \in Block, NEW i \in 1 .. FoldSize
  PROVE  x[i] \in Byte /\ x[i] \in Nat /\ x[i] <= 255
<1>1. x[i] \in Byte
  BY DEF Block
<1> QED BY <1>1 DEF Byte

LEMMA PartsAre ==
  ASSUME NEW x \in Block
  PROVE  /\ Parts(x) \in [0 .. FoldSize -> Nat] /\ Parts(x)[0] = 0
         /\ \A i \in 1 .. FoldSize : /\ Parts(x)[i] = Parts(x)[i - 1] + x[i] * Weight[FoldSize - i]
                                     /\ x[i] * Weight[FoldSize - i] \in Nat
                                     /\ FoldSize - i \in 0 .. FoldSize
<1>1. ASSUME NEW i \in 1 .. FoldSize
      PROVE  FoldSize - i \in 0 .. FoldSize /\ x[i] * Weight[FoldSize - i] \in Nat
  <2>1. FoldSize - i \in 0 .. FoldSize
    BY Fold
  <2>2. x[i] \in Nat /\ Weight[FoldSize - i] \in Nat
    BY <2>1, WeightIs, BytesAre DEF Weighs
  <2> QED BY <2>1, <2>2, Product
<1>2. Terms(x) \in [1 .. FoldSize -> Nat]
  BY <1>1 DEF Terms
<1>3. RunSums(Parts(x), Terms(x), FoldSize)
  BY <1>2, Fold, SumsAre DEF Parts
<1>4. \A i \in 1 .. FoldSize : Terms(x)[i] = x[i] * Weight[FoldSize - i]
  BY DEF Terms
<1> QED BY <1>1, <1>3, <1>4 DEF RunSums

(* The bytes from one place on count for less than the one before it.        *)
LEMMA PartsBelow ==
  ASSUME NEW x \in Block, NEW a \in 0 .. FoldSize, NEW b \in a .. FoldSize
  PROVE  /\ Parts(x)[a] <= Parts(x)[b]
         /\ Parts(x)[b] - Parts(x)[a] <= Weight[FoldSize - a] - Weight[FoldSize - b]
<1> DEFINE v == Parts(x)
           W(i) == Weight[FoldSize - i]
           D == {k \in Nat : a + k <= FoldSize =>
                   v[a] <= v[a + k] /\ v[a + k] - v[a] <= W(a) - W(a + k)}
<1>1. \A i \in 0 .. FoldSize : v[i] \in Nat /\ W(i) \in Nat
  <2>1. \A i \in 0 .. FoldSize : FoldSize - i \in 0 .. FoldSize
    BY Fold
  <2> QED BY <2>1, PartsAre, WeightIs DEF Weighs
<1>2. 0 \in D
  BY <1>1
<1>3. \A i \in 1 .. FoldSize : v[i] = v[i - 1] + x[i] * W(i) /\ x[i] * W(i) \in Nat
  BY PartsAre
<1>4. \A i \in 1 .. FoldSize : W(i - 1) = 256 * W(i)
  <2>1. ASSUME NEW i \in 1 .. FoldSize PROVE W(i - 1) = 256 * W(i)
    <3> DEFINE j == FoldSize - (i - 1)
    <3>1. j \in 1 .. FoldSize /\ j - 1 = FoldSize - i
      BY Fold
    <3> HIDE DEF j
    <3>2. Weight[j] = 256 * Weight[j - 1]
      BY <3>1, WeightIs DEF Weighs
    <3> QED BY <3>1, <3>2 DEF j
  <2> QED BY <2>1
<1>5. \A i \in 1 .. FoldSize : x[i] * W(i) <= 255 * W(i)
  <2>1. ASSUME NEW i \in 1 .. FoldSize PROVE x[i] * W(i) <= 255 * W(i)
    <3> DEFINE w == W(i)
    <3>1. w \in Nat /\ x[i] \in Nat /\ x[i] <= 255
      <4>1. w \in Nat
        BY <1>1
      <4> QED BY <4>1, BytesAre
    <3> HIDE DEF w
    <3>2. x[i] * w <= 255 * w
      BY <3>1
    <3> QED BY <3>2 DEF w
  <2> QED BY <2>1
<1> HIDE DEF v, W
<1>6. ASSUME NEW k \in Nat, k \in D PROVE k + 1 \in D
  <2>1. SUFFICES ASSUME a + (k + 1) <= FoldSize
                 PROVE  v[a] <= v[a + (k + 1)] /\ v[a + (k + 1)] - v[a] <= W(a) - W(a + (k + 1))
    OBVIOUS
  <2> DEFINE i == a + (k + 1)
  <2>2. i \in 1 .. FoldSize /\ i - 1 = a + k /\ a + k \in 0 .. FoldSize /\ i \in 0 .. FoldSize
        /\ v[a] <= v[a + k] /\ v[a + k] - v[a] <= W(a) - W(a + k)
    BY <1>6, <2>1, Fold
  <2> HIDE DEF i, D
  <2> DEFINE p == x[i] * W(i)
  <2>3. v[i] = v[i - 1] + p /\ p \in Nat /\ W(i - 1) = 256 * W(i) /\ p <= 255 * W(i)
    BY <1>3, <1>4, <1>5, <2>2
  <2> HIDE DEF p
  <2>4. v[i] \in Nat /\ v[i - 1] \in Nat /\ W(i) \in Nat /\ W(i - 1) \in Nat /\ v[a] \in Nat /\ W(a) \in Nat
    BY <1>1, <2>2
  <2>5. v[a] <= v[i] /\ v[i] - v[a] <= W(a) - W(i)
    BY <2>2, <2>3, <2>4
  <2> QED BY <2>5 DEF i
<1> HIDE DEF D
<1>7. b - a \in Nat /\ b - a \in D /\ a + (b - a) = b /\ b <= FoldSize
  BY <1>2, <1>6, Fold, AllNumbers
<1>8. v[a] <= v[b] /\ v[b] - v[a] <= W(a) - W(b)
  BY <1>7 DEF D
<1> QED BY <1>8 DEF v, W

LEMMA TopIs == Top \in Nat \ {0} /\ Weight[FoldSize] = Top + 1
<1>1. FoldSize \in 1 .. FoldSize /\ FoldSize - 1 \in 0 .. FoldSize /\ FoldSize \in 0 .. FoldSize
  BY Fold
<1>2. Weight[FoldSize] = 256 * Weight[FoldSize - 1] /\ Weight[FoldSize - 1] \in Nat \ {0}
      /\ Weight[FoldSize] \in Nat
  BY <1>1, WeightIs DEF Weighs
<1> QED BY <1>2 DEF Top

LEMMA ValBelow ==
  ASSUME NEW x \in Block
  PROVE  Val(x) \in 0 .. Top
<1>1. /\ 0 \in 0 .. FoldSize /\ FoldSize \in 0 .. FoldSize
      /\ FoldSize - 0 = FoldSize /\ FoldSize - FoldSize = 0
  BY Fold
<1>2. Parts(x)[FoldSize] - Parts(x)[0] <= Weight[FoldSize - 0] - Weight[FoldSize - FoldSize]
  BY <1>1, PartsBelow
<1>3. Parts(x)[0] = 0 /\ Parts(x)[FoldSize] \in Nat /\ Weight[0] = 1
  BY <1>1, PartsAre, WeightIs DEF Weighs
<1> QED BY <1>1, <1>2, <1>3, TopIs DEF Val

(* Blocks that count for the same are the same.                              *)
LEMMA Leading ==
  ASSUME NEW w \in Nat \ {0}, NEW a \in Nat, NEW b \in Nat, NEW c \in 0 .. w - 1, NEW d \in 0 .. w - 1,
         a * w + c = b * w + d
  PROVE  a = b
<1>1. ASSUME NEW e \in Nat, NEW f \in Nat, e < f PROVE e * w + w <= f * w
  <2>1. f * w = e * w + (f - e) * w
    OBVIOUS
  <2>2. (f - e) * w = w + (f - e - 1) * w
    OBVIOUS
  <2>3. (f - e - 1) * w \in Nat /\ e * w \in Nat
    BY <1>1
  <2> QED BY <2>1, <2>2, <2>3
<1>2. a * w \in Nat /\ b * w \in Nat
  OBVIOUS
<1>3. CASE a < b
  BY <1>1, <1>2, <1>3
<1>4. CASE b < a
  BY <1>1, <1>2, <1>4
<1> QED BY <1>3, <1>4

LEMMA ValOnce ==
  ASSUME NEW x \in Block, NEW y \in Block, Val(x) = Val(y)
  PROVE  x = y
<1> DEFINE v == Parts(x)
           u == Parts(y)
           D == {k \in Nat : k <= FoldSize => v[k] = u[k]}
<1>1. v[0] = 0 /\ u[0] = 0 /\ v[FoldSize] = u[FoldSize] /\ FoldSize \in Nat
      /\ \A i \in 0 .. FoldSize : v[i] \in Nat /\ u[i] \in Nat
  BY PartsAre, Fold DEF Val
<1>2. 0 \in D
  BY <1>1
<1>3. ASSUME NEW i \in 1 .. FoldSize, v[i - 1] = u[i - 1] PROVE x[i] = y[i]
  <2> DEFINE w == Weight[FoldSize - i]
             c == v[FoldSize] - v[i]
             d == u[FoldSize] - u[i]
  <2>1. FoldSize - i \in 0 .. FoldSize /\ i \in 0 .. FoldSize /\ FoldSize \in i .. FoldSize
        /\ FoldSize - FoldSize = 0 /\ i - 1 \in 0 .. FoldSize /\ FoldSize \in 0 .. FoldSize
    BY Fold
  <2>2. w \in Nat \ {0} /\ Weight[0] = 1
    BY <2>1, WeightIs DEF Weighs
  <2>3. c \in 0 .. w - 1 /\ d \in 0 .. w - 1
    <3>1. /\ v[i] <= v[FoldSize] /\ v[FoldSize] - v[i] <= w - Weight[FoldSize - FoldSize]
          /\ u[i] <= u[FoldSize] /\ u[FoldSize] - u[i] <= w - Weight[FoldSize - FoldSize]
      BY <2>1, PartsBelow
    <3> HIDE DEF v, u, w
    <3>2. v[i] \in Nat /\ u[i] \in Nat /\ v[FoldSize] \in Nat /\ u[FoldSize] \in Nat
      BY <1>1, <2>1
    <3> QED BY <2>1, <2>2, <3>1, <3>2
  <2>4. v[i] = v[i - 1] + x[i] * w /\ u[i] = u[i - 1] + y[i] * w /\ x[i] * w \in Nat /\ y[i] * w \in Nat
    BY PartsAre
  <2>5. x[i] \in Nat /\ y[i] \in Nat
    BY BytesAre
  <2>6. x[i] * w + c = y[i] * w + d
    <3> DEFINE p == x[i] * w
               q == y[i] * w
    <3>1. v[i] = v[i - 1] + p /\ u[i] = u[i - 1] + q /\ p \in Nat /\ q \in Nat
      BY <2>4
    <3>2. v[i - 1] = u[i - 1] /\ v[FoldSize] = u[FoldSize]
          /\ v[i - 1] \in Nat /\ v[FoldSize] \in Nat
      BY <1>1, <1>3, <2>1
    <3> HIDE DEF v, u, p, q
    <3>3. p + c = q + d
      BY <3>1, <3>2
    <3> QED BY <3>3 DEF p, q
  <2> HIDE DEF w, c, d
  <2> QED BY <2>2, <2>3, <2>5, <2>6, Leading
<1>4. ASSUME NEW k \in Nat, k \in D PROVE k + 1 \in D
  <2>1. SUFFICES ASSUME k + 1 <= FoldSize PROVE v[k + 1] = u[k + 1]
    OBVIOUS
  <2> DEFINE i == k + 1
  <2>2. i \in 1 .. FoldSize /\ i - 1 = k /\ v[i - 1] = u[i - 1]
    BY <1>4, <2>1, Fold
  <2> HIDE DEF i
  <2>3. x[i] = y[i]
    BY <1>3, <2>2
  <2>4. v[i] = v[i - 1] + x[i] * Weight[FoldSize - i] /\ u[i] = u[i - 1] + y[i] * Weight[FoldSize - i]
    BY <2>2, PartsAre
  <2> HIDE DEF v, u
  <2>5. v[i] = u[i]
    BY <2>2, <2>3, <2>4
  <2> QED BY <2>5 DEF i
<1>5. \A k \in Nat : k \in D
  <2> HIDE DEF D
  <2> QED BY <1>2, <1>4, AllNumbers
<1>6. ASSUME NEW i \in 1 .. FoldSize PROVE x[i] = y[i]
  <2>1. i - 1 \in Nat /\ i - 1 <= FoldSize
    BY Fold
  <2>2. v[i - 1] = u[i - 1]
    BY <1>5, <2>1
  <2> QED BY <1>3, <2>2
<1> HIDE DEF v, u, D
<1>7. \A i \in 1 .. FoldSize : x[i] = y[i]
  BY <1>6
<1>8. x = [i \in 1 .. FoldSize |-> x[i]] /\ y = [i \in 1 .. FoldSize |-> y[i]]
  BY DEF Block
<1>9. [i \in 1 .. FoldSize |-> x[i]] = [i \in 1 .. FoldSize |-> y[i]]
  BY <1>7
<1> QED BY <1>8, <1>9, Zenon

(* A byte changed. *)
LEMMA ValExcept ==
  ASSUME NEW x \in Block, NEW j \in 1 .. FoldSize, NEW e \in Byte
  PROVE  /\ [x EXCEPT ![j] = e] \in Block
         /\ Val([x EXCEPT ![j] = e]) + x[j] * Weight[FoldSize - j] = Val(x) + e * Weight[FoldSize - j]
<1> DEFINE y == [x EXCEPT ![j] = e]
           v == Parts(x)
           u == Parts(y)
           p == x[j] * Weight[FoldSize - j]
           q == e * Weight[FoldSize - j]
           D == {k \in Nat : k <= FoldSize => /\ k < j => u[k] = v[k]
                                              /\ k >= j => u[k] + p = v[k] + q}
<1>1. y \in Block /\ y[j] = e /\ \A i \in 1 .. FoldSize : i # j => y[i] = x[i]
  BY DEF Block
<1> HIDE DEF y
<1>2. /\ v[0] = 0 /\ u[0] = 0 /\ \A i \in 0 .. FoldSize : v[i] \in Nat /\ u[i] \in Nat
      /\ \A i \in 1 .. FoldSize : /\ v[i] = v[i - 1] + x[i] * Weight[FoldSize - i]
                                  /\ u[i] = u[i - 1] + y[i] * Weight[FoldSize - i]
                                  /\ x[i] * Weight[FoldSize - i] \in Nat
                                  /\ y[i] * Weight[FoldSize - i] \in Nat
  BY <1>1, PartsAre
<1> HIDE DEF v, u
<1>3. 0 \in D
  BY <1>2
<1>4. p \in Nat /\ q \in Nat
  BY <1>1, <1>2
<1>5. ASSUME NEW k \in Nat, k \in D PROVE k + 1 \in D
  <2>1. SUFFICES ASSUME k + 1 <= FoldSize
                 PROVE  /\ k + 1 < j => u[k + 1] = v[k + 1]
                        /\ k + 1 >= j => u[k + 1] + p = v[k + 1] + q
    OBVIOUS
  <2> DEFINE i == k + 1
             r == x[i] * Weight[FoldSize - i]
             s == y[i] * Weight[FoldSize - i]
  <2>2. i \in 1 .. FoldSize /\ i - 1 = k /\ k \in 0 .. FoldSize /\ i \in 0 .. FoldSize
        /\ (k < j => u[k] = v[k]) /\ (k >= j => u[k] + p = v[k] + q) /\ (k < j <=> i <= j)
    BY <1>5, <2>1, Fold
  <2>3. v[i] = v[i - 1] + r /\ u[i] = u[i - 1] + s /\ r \in Nat /\ s \in Nat
        /\ v[i - 1] \in Nat /\ u[i - 1] \in Nat
    BY <1>2, <2>2
  <2>4. (i = j => r = p /\ s = q) /\ (i # j => r = s)
    BY <1>1, <2>2
  <2> HIDE DEF i, r, s, p, q, D
  <2>5. (i < j => u[i] = v[i]) /\ (i >= j => u[i] + p = v[i] + q)
    BY <1>4, <2>2, <2>3, <2>4
  <2> QED BY <2>5 DEF i
<1> HIDE DEF D, p, q
<1>6. FoldSize \in D /\ FoldSize >= j
  BY <1>3, <1>5, Fold, AllNumbers
<1>7. u[FoldSize] + p = v[FoldSize] + q
  BY <1>6 DEF D
<1> QED BY <1>1, <1>7 DEF u, v, y, p, q, Val

(* Numbers that are the same going round: apart by a multiple of Top, and    *)
(* both of them nothing or none of them.                                     *)
Same(a, b) == /\ a \in Nat /\ b \in Nat /\ (a = 0 <=> b = 0)
              /\ \E q \in Int : a = b + q * Top

LEMMA SameAs ==
  ASSUME NEW a \in Nat
  PROVE  Same(a, a)
<1>1. a = a + 0 * Top /\ 0 \in Int
  BY TopIs
<1> QED BY <1>1 DEF Same

LEMMA SameBack ==
  ASSUME NEW a, NEW b, Same(a, b)
  PROVE  Same(b, a)
<1>1. PICK q \in Int : a = b + q * Top
  BY DEF Same
<1>2. (-q) * Top = -(q * Top) /\ q * Top \in Int /\ -q \in Int
  BY TopIs
<1>3. a \in Nat /\ b \in Nat
  BY DEF Same
<1>4. b = a + (-q) * Top
  BY <1>1, <1>2, <1>3
<1> QED BY <1>2, <1>4 DEF Same

LEMMA SameThen ==
  ASSUME NEW a, NEW b, NEW c, Same(a, b), Same(b, c)
  PROVE  Same(a, c)
<1>1. PICK q \in Int : a = b + q * Top
  BY DEF Same
<1>2. PICK r \in Int : b = c + r * Top
  BY DEF Same
<1>3. (q + r) * Top = q * Top + r * Top /\ q * Top \in Int /\ r * Top \in Int /\ q + r \in Int
  BY TopIs, SumTimes
<1>4. a \in Nat /\ b \in Nat /\ c \in Nat
  BY DEF Same
<1>5. a = c + (q + r) * Top
  BY <1>1, <1>2, <1>3, <1>4
<1> QED BY <1>3, <1>5 DEF Same

LEMMA SameAdds ==
  ASSUME NEW a, NEW b, Same(a, b), NEW c \in Nat
  PROVE  Same(a + c, b + c)
<1>1. PICK q \in Int : a = b + q * Top
  BY DEF Same
<1>2. a \in Nat /\ b \in Nat /\ q * Top \in Int
  BY TopIs DEF Same
<1>3. a + c = (b + c) + q * Top
  BY <1>1, <1>2
<1>4. a + c = 0 <=> b + c = 0
  BY <1>2 DEF Same
<1> QED BY <1>2, <1>3, <1>4 DEF Same

(* What goes over the first byte comes back at the last. *)
LEMMA SameTurn ==
  ASSUME NEW v \in Nat, NEW c \in Nat
  PROVE  Same(v + c, v + c * Weight[FoldSize])
<1>1. c * Weight[FoldSize] = c * Top + c /\ c * Top \in Nat
  <2>1. Top \in Nat
    BY TopIs
  <2>2. c * (Top + 1) = c * Top + c
    BY <2>1
  <2> QED BY <2>1, <2>2, TopIs, Product
<1>2. (-c) * Top = -(c * Top) /\ -c \in Int
  BY TopIs
<1>3. v + c = (v + c * Weight[FoldSize]) + (-c) * Top
  BY <1>1, <1>2
<1>4. v + c = 0 <=> v + c * Weight[FoldSize] = 0
  <2>1. c = 0 => c * Top = 0
    BY TopIs
  <2> QED BY <1>1, <2>1
<1> QED BY <1>1, <1>2, <1>3, <1>4 DEF Same

LEMMA SameWhole ==
  ASSUME NEW a \in 0 .. Top, NEW b \in 0 .. Top, Same(a, b)
  PROVE  a = b
<1>1. PICK q \in Int : a = b + q * Top
  BY DEF Same
<1>2. Top \in Nat \ {0} /\ (a = 0 <=> b = 0)
  BY TopIs DEF Same
<1>3. CASE q = 0
  <2>1. q * Top = 0
    BY <1>2, <1>3
  <2> QED BY <1>1, <1>2, <2>1
<1>4. CASE q >= 1
  <2>1. q * Top = Top + (q - 1) * Top /\ (q - 1) * Top \in Nat
    <3>1. q - 1 \in Nat
      BY <1>4
    <3>2. (q - 1) * Top \in Nat
      BY <1>2, <3>1, Product
    <3>3. q * Top = Top + (q - 1) * Top
      BY <1>2
    <3> QED BY <3>2, <3>3
  <2> QED BY <1>1, <1>2, <2>1
<1>5. CASE q <= -1
  <2>1. q * Top = -Top - (-q - 1) * Top /\ (-q - 1) * Top \in Nat
    <3>1. -q - 1 \in Nat
      BY <1>5
    <3>2. (-q - 1) * Top \in Nat
      BY <1>2, <3>1, Product
    <3>3. q * Top = -Top - (-q - 1) * Top
      BY <1>2
    <3> QED BY <3>2, <3>3
  <2> QED BY <1>1, <1>2, <2>1
<1> QED BY <1>3, <1>4, <1>5

(* Places go round. *)
LEMMA Remains ==
  ASSUME NEW a \in Int, NEW b \in Nat \ {0}, NEW q \in Int, NEW r \in 0 .. b - 1, a = b * q + r
  PROVE  a % b = r /\ a \div b = q
<1> DEFINE t == a \div b
           u == a % b
<1>1. t \in Int /\ u \in 0 .. b - 1 /\ a = b * t + u
  OBVIOUS
<1> HIDE DEF t, u
<1>2. b * (q - t) = u - r
  <2>1. b * (q - t) = b * q - b * t /\ b * q \in Int /\ b * t \in Int
    BY <1>1
  <2> QED BY <1>1, <2>1
<1>3. q - t = 0
  <2>1. ASSUME q - t >= 1 PROVE FALSE
    <3>1. b * (q - t) = b + b * (q - t - 1) /\ q - t - 1 \in Nat
      BY <1>1, <2>1
    <3>2. b * (q - t - 1) \in Nat
      BY <3>1, Product
    <3> QED BY <1>1, <1>2, <3>1, <3>2
  <2>2. ASSUME q - t <= -1 PROVE FALSE
    <3>1. b * (q - t) = -b - b * (t - q - 1) /\ t - q - 1 \in Nat
      BY <1>1, <2>2
    <3>2. b * (t - q - 1) \in Nat
      BY <3>1, Product
    <3> QED BY <1>1, <1>2, <3>1, <3>2
  <2> QED BY <1>1, <2>1, <2>2
<1>4. q = t /\ u = r
  BY <1>1, <1>2, <1>3
<1> QED BY <1>4 DEF t, u

LEMMA Rounds ==
  ASSUME NEW k \in Nat
  PROVE  /\ k % FoldSize \in 0 .. FoldSize - 1
         /\ (k + 1) % FoldSize = IF k % FoldSize = FoldSize - 1 THEN 0 ELSE (k % FoldSize) + 1
<1> DEFINE p == k % FoldSize
           q == k \div FoldSize
<1>1. FoldSize \in Nat \ {0}
  BY Fold
<1>2. p \in 0 .. FoldSize - 1 /\ q \in Nat /\ k = FoldSize * q + p
  BY <1>1, Division
<1> HIDE DEF p, q
<1>3. CASE p = FoldSize - 1
  <2>1. FoldSize * (q + 1) = FoldSize * q + FoldSize /\ FoldSize * q \in Int
    BY <1>1, <1>2
  <2>2. k + 1 = FoldSize * (q + 1) + 0 /\ 0 \in 0 .. FoldSize - 1 /\ q + 1 \in Int /\ k + 1 \in Int
    BY <1>1, <1>2, <1>3, <2>1
  <2>3. (k + 1) % FoldSize = 0
    BY <1>1, <2>2, Remains
  <2> QED BY <1>2, <1>3, <2>3 DEF p
<1>4. CASE p # FoldSize - 1
  <2>1. k + 1 = FoldSize * q + (p + 1) /\ p + 1 \in 0 .. FoldSize - 1 /\ k + 1 \in Int
    <3>1. FoldSize * q \in Int
      BY <1>1, <1>2
    <3> QED BY <1>1, <1>2, <1>4, <3>1
  <2>2. (k + 1) % FoldSize = p + 1
    BY <1>1, <1>2, <2>1, Remains
  <2> QED BY <1>2, <1>4, <2>2 DEF p
<1> QED BY <1>3, <1>4

(* A block of the code starts at 0. *)
Low == [0 .. FoldSize - 1 -> Byte]
Up(b) == [j \in 1 .. FoldSize |-> b[j - 1]]
Place(k) == FoldSize - 1 - (k % FoldSize)
Adding == [block : Low, carry : {0, 1}]
Carried(st, k) == Val(Up(st.block)) + st.carry * Weight[k % FoldSize]
Put(st, k, new) == [block |-> [st.block EXCEPT ![Place(k)] = new % 256], carry |-> new \div 256]

LEMMA UpIs ==
  ASSUME NEW b \in Low
  PROVE  Up(b) \in Block
<1>1. \A j \in 1 .. FoldSize : j - 1 \in 0 .. FoldSize - 1
  BY Fold
<1> QED BY <1>1 DEF Up, Block, Low

LEMMA UpExcept ==
  ASSUME NEW b \in Low, NEW y \in 0 .. FoldSize - 1, NEW e \in Byte
  PROVE  /\ [b EXCEPT ![y] = e] \in Low /\ y + 1 \in 1 .. FoldSize /\ Up(b)[y + 1] = b[y]
         /\ Up([b EXCEPT ![y] = e]) = [Up(b) EXCEPT ![y + 1] = e]
<1>1. y + 1 \in 1 .. FoldSize /\ y + 1 - 1 = y
  BY Fold
<1>2. \A j \in 1 .. FoldSize : j - 1 \in 0 .. FoldSize - 1 /\ (j = y + 1 <=> j - 1 = y)
  BY Fold
<1> QED BY <1>1, <1>2 DEF Up, Low

LEMMA PlaceIs ==
  ASSUME NEW k \in Nat
  PROVE  /\ Place(k) \in 0 .. FoldSize - 1 /\ k % FoldSize \in 0 .. FoldSize
         /\ FoldSize - (Place(k) + 1) = k % FoldSize
         /\ Weight[k % FoldSize] \in Nat /\ (k + 1) % FoldSize \in 0 .. FoldSize
         /\ (k % FoldSize) + 1 \in 1 .. FoldSize /\ Weight[(k % FoldSize) + 1] = 256 * Weight[k % FoldSize]
<1>1. FoldSize \in Nat \ {0} /\ k % FoldSize \in 0 .. FoldSize - 1 /\ (k + 1) % FoldSize \in 0 .. FoldSize - 1
  BY Fold, Rounds
<1> DEFINE p == k % FoldSize
<1> HIDE DEF p
<1>2. p \in 0 .. FoldSize - 1 /\ Place(k) = FoldSize - 1 - p
  BY <1>1 DEF p, Place
<1>3. /\ Place(k) \in 0 .. FoldSize - 1 /\ FoldSize - (Place(k) + 1) = p
      /\ p \in 0 .. FoldSize /\ p + 1 \in 1 .. FoldSize
      /\ (p + 1) - 1 = p
  BY <1>1, <1>2
<1>4. Weight[p] \in Nat /\ Weight[p + 1] = 256 * Weight[p]
  BY <1>3, WeightIs DEF Weighs
<1>5. (k + 1) % FoldSize \in 0 .. FoldSize
  BY <1>1
<1> QED BY <1>3, <1>4, <1>5 DEF p

LEMMA BytesAdd ==
  ASSUME NEW r \in {0, 1}, NEW z \in Byte, NEW c \in Byte, NEW new, new = r + z + c
  PROVE  new % 256 \in Byte /\ new \div 256 \in {0, 1} /\ new = 256 * (new \div 256) + (new % 256)
<1>1. r \in Nat /\ r <= 1 /\ z \in Nat /\ z <= 255 /\ c \in Nat /\ c <= 255
  BY DEF Byte
<1>2. new \in Nat /\ new <= 511
  BY <1>1
<1> QED BY <1>2 DEF Byte

(* One byte added at its place. *)
LEMMA PutIs ==
  ASSUME NEW st \in Adding, NEW k \in Nat, NEW c \in Byte, NEW new,
         new = st.carry + st.block[Place(k)] + c
  PROVE  /\ Put(st, k, new) \in Adding
         /\ Same(Carried(Put(st, k, new), k + 1), Carried(st, k) + c * Weight[k % FoldSize])
         /\ Carried(st, k) \in Nat /\ c * Weight[k % FoldSize] \in Nat
<1> DEFINE y == Place(k)
           w == Weight[k % FoldSize]
           b == st.block
           e == new % 256
           d == new \div 256
           b2 == [b EXCEPT ![y] = e]
<1>1. /\ y \in 0 .. FoldSize - 1 /\ FoldSize - (y + 1) = k % FoldSize /\ w \in Nat
      /\ (k % FoldSize) + 1 \in 1 .. FoldSize /\ Weight[(k % FoldSize) + 1] = 256 * w
  BY PlaceIs
<1>2. b \in Low /\ st.carry \in {0, 1} /\ b[y] \in Byte
  BY <1>1 DEF Adding, Low
<1>3. e \in Byte /\ d \in {0, 1} /\ st.carry + b[y] + c = 256 * d + e
  <2>1. e \in Byte /\ d \in {0, 1} /\ new = 256 * d + e
    BY <1>2, BytesAdd
  <2> QED BY <2>1
<1> HIDE DEF e, d
<1>4. b2 \in Low /\ y + 1 \in 1 .. FoldSize /\ Up(b)[y + 1] = b[y] /\ Up(b2) = [Up(b) EXCEPT ![y + 1] = e]
  BY <1>1, <1>2, <1>3, UpExcept
<1>5. Put(st, k, new) = [block |-> b2, carry |-> d]
  BY DEF Put, e, d
<1>6. Put(st, k, new) \in Adding
  BY <1>3, <1>4, <1>5 DEF Adding
<1>7. Val(Up(b2)) + b[y] * w = Val(Up(b)) + e * w
  <2>1. Val([Up(b) EXCEPT ![y + 1] = e]) + Up(b)[y + 1] * Weight[FoldSize - (y + 1)]
          = Val(Up(b)) + e * Weight[FoldSize - (y + 1)]
    BY <1>2, <1>3, <1>4, UpIs, ValExcept
  <2> QED BY <1>1, <1>4, <2>1
<1>8. Val(Up(b2)) \in Nat /\ Val(Up(b)) \in Nat
  <2>1. Up(b) \in Block /\ Up(b2) \in Block
    BY <1>2, <1>4, UpIs
  <2> QED BY <2>1, ValBelow, TopIs
<1> DEFINE V2 == Val(Up(b2))
           V == Val(Up(b))
           z == b[y]
           r == st.carry
<1>9. /\ V2 \in Nat /\ V \in Nat /\ z \in Nat /\ r \in {0, 1} /\ w \in Nat /\ c \in Nat /\ d \in {0, 1}
      /\ e \in Nat /\ r + z + c = 256 * d + e /\ V2 + z * w = V + e * w
  <2>1. z \in Nat /\ c \in Nat /\ e \in Nat
    <3>1. \A q \in Byte : q \in Nat
      BY DEF Byte
    <3> QED BY <1>2, <1>3, <3>1
  <2>2. V2 \in Nat /\ V \in Nat
    BY <1>8
  <2>3. V2 + z * w = V + e * w
    BY <1>7
  <2> QED BY <1>1, <1>2, <1>3, <2>1, <2>2, <2>3
<1>10. Carried(st, k) = V + r * w /\ Carried(Put(st, k, new), k + 1) = V2 + d * Weight[(k + 1) % FoldSize]
  BY <1>5 DEF Carried
<1>11. \/ k % FoldSize = FoldSize - 1 /\ Weight[(k + 1) % FoldSize] = 1 /\ Weight[FoldSize] = 256 * w
       \/ Weight[(k + 1) % FoldSize] = 256 * w
  <2>1. (k + 1) % FoldSize = IF k % FoldSize = FoldSize - 1 THEN 0 ELSE (k % FoldSize) + 1
    BY Rounds
  <2>2. Weight[0] = 1 /\ (k % FoldSize = FoldSize - 1 => (k % FoldSize) + 1 = FoldSize)
    BY <1>1, WeightIs, Fold DEF Weighs
  <2> HIDE DEF w
  <2> QED BY <1>1, <2>1, <2>2
<1> DEFINE x == Weight[(k + 1) % FoldSize]
<1> HIDE DEF V2, V, z, r, w, x, y, b
<1>12. V2 + d * (256 * w) = (V + r * w) + c * w /\ r * w \in Nat /\ c * w \in Nat
  <2>1. (r + z + c) * w = r * w + z * w + c * w
    BY <1>9
  <2>2. (256 * d + e) * w = d * (256 * w) + e * w
    BY <1>9
  <2>3. r * w \in Nat /\ c * w \in Nat /\ z * w \in Nat /\ e * w \in Nat /\ d * (256 * w) \in Nat
    BY <1>9, Product
  <2>4. r * w + z * w + c * w = d * (256 * w) + e * w
    BY <1>9, <2>1, <2>2
  <2> QED BY <1>9, <2>3, <2>4
<1>13. Same(V2 + d * x, V2 + d * (256 * w))
  <2>1. CASE x = 256 * w
    <3>1. V2 + d * (256 * w) \in Nat
      BY <1>9
    <3> QED BY <2>1, <3>1, SameAs
  <2>2. CASE x = 1 /\ Weight[FoldSize] = 256 * w
    <3>1. Same(V2 + d, V2 + d * (256 * w))
      BY <1>9, <2>2, SameTurn
    <3>2. d * 1 = d
      BY <1>9
    <3> QED BY <2>2, <3>1, <3>2
  <2> QED BY <1>11, <2>1, <2>2 DEF x
<1>14. Same(V2 + d * x, (V + r * w) + c * w) /\ V + r * w \in Nat /\ c * w \in Nat
  BY <1>9, <1>12, <1>13
<1> QED BY <1>6, <1>10, <1>14 DEF w, x

(* The bytes of the copies, and what the first of them count for together.   *)
CopyWeight(s, l) == CopyByte(s, l) * Weight[FoldSize - 1 - (l % FoldSize)]
Total(s, m) == Sums([l \in 1 .. m |-> CopyWeight(s, l - 1)], m)
BytesOf(s) == \A l \in Nat : CopyByte(s, l) \in Byte

LEMMA TotalIs ==
  ASSUME NEW s, BytesOf(s), NEW m \in Nat
  PROVE  /\ Total(s, m) \in [0 .. m -> Nat] /\ Total(s, m)[0] = 0
         /\ \A l \in 0 .. m - 1 : /\ Total(s, m)[l + 1] = Total(s, m)[l] + CopyWeight(s, l)
                                  /\ CopyWeight(s, l) \in Nat
         /\ \A a \in 0 .. m : \A b \in a .. m : Total(s, m)[a] <= Total(s, m)[b]
<1> DEFINE t == [l \in 1 .. m |-> CopyWeight(s, l - 1)]
<1>1. ASSUME NEW l \in Nat PROVE CopyWeight(s, l) \in Nat
  <2>1. FoldSize - 1 - (l % FoldSize) \in 0 .. FoldSize
    BY Fold, Rounds
  <2>2. CopyByte(s, l) \in Nat /\ Weight[FoldSize - 1 - (l % FoldSize)] \in Nat
    <3>1. CopyByte(s, l) \in Byte
      BY DEF BytesOf
    <3>2. CopyByte(s, l) \in Nat
      BY <3>1, ByteIs, Zenon
    <3>3. Weight[FoldSize - 1 - (l % FoldSize)] \in Nat
      BY <2>1, WeightIs DEF Weighs
    <3> QED BY <3>2, <3>3
  <2> QED BY <2>2, Product DEF CopyWeight
<1>2. t \in [1 .. m -> Nat]
  BY <1>1
<1>3. RunSums(Total(s, m), t, m)
  BY <1>2, SumsAre DEF Total
<1>4. ASSUME NEW l \in 0 .. m - 1
      PROVE  Total(s, m)[l + 1] = Total(s, m)[l] + CopyWeight(s, l) /\ CopyWeight(s, l) \in Nat
  <2>1. l + 1 \in 1 .. m /\ (l + 1) - 1 = l /\ l \in Nat
    OBVIOUS
  <2>2. t[l + 1] = CopyWeight(s, l)
    BY <2>1
  <2> HIDE DEF t
  <2> QED BY <1>1, <1>3, <2>1, <2>2 DEF RunSums
<1>5. \A a \in 0 .. m : \A b \in a .. m : Total(s, m)[a] <= Total(s, m)[b]
  <2> HIDE DEF t
  <2> QED BY <1>2, <1>3, SumsGrow
<1> QED BY <1>3, <1>4, <1>5 DEF RunSums

(* Places from the end and from the beginning. *)
LEMMA Mirror ==
  ASSUME NEW B \in Nat, NEW k \in Nat, k + 1 <= FoldSize * B
  PROVE  FoldSize - 1 - ((FoldSize * B - (k + 1)) % FoldSize) = k % FoldSize
<1> DEFINE p == k % FoldSize
           q == k \div FoldSize
           m == FoldSize * B
<1>1. FoldSize \in Nat \ {0} /\ m \in Nat
  BY Fold, Product
<1>2. p \in 0 .. FoldSize - 1 /\ q \in Nat /\ k = FoldSize * q + p
  BY <1>1, Division
<1>3. FoldSize * (B - q - 1) = m - FoldSize * q - FoldSize /\ FoldSize * q \in Int
  BY <1>1, <1>2
<1> HIDE DEF p, q, m
<1>4. m - (k + 1) = FoldSize * (B - q - 1) + (FoldSize - 1 - p)
  BY <1>1, <1>2, <1>3
<1>5. m - (k + 1) \in Int /\ FoldSize - 1 - p \in 0 .. FoldSize - 1 /\ B - q - 1 \in Int
  BY <1>1, <1>2
<1>6. (m - (k + 1)) % FoldSize = FoldSize - 1 - p
  BY <1>1, <1>4, <1>5, Remains
<1>7. FoldSize - 1 - (FoldSize - 1 - p) = p
  BY <1>1, <1>2
<1> QED BY <1>6, <1>7 DEF p, m

LEMMA Early ==
  ASSUME NEW k \in 0 .. FoldSize - 1
  PROVE  k % FoldSize = k
<1>1. k = FoldSize * 0 + k /\ 0 \in Int /\ k \in Int /\ FoldSize \in Nat \ {0}
  BY Fold
<1> QED BY <1>1, Remains

(* The first copy lies at the beginning. *)
Starts(s) == [j \in 0 .. FoldSize - 1 |-> IF j < Len(s) THEN s[j + 1] ELSE 0]

LEMMA StartIs ==
  ASSUME NEW s \in Seq(Byte), Len(s) \in 1 .. FoldSize, BytesOf(s),
         \A l \in 0 .. Len(s) - 1 : CopyByte(s, l) = s[l + 1], NEW m \in Nat, Len(s) <= m
  PROVE  Starts(s) \in Low /\ Val(Up(Starts(s))) = Total(s, m)[Len(s)]
<1> DEFINE n == Len(s)
           x == Up(Starts(s))
           v == Parts(x)
           t == Total(s, m)
           D == {k \in Nat : k <= FoldSize => v[k] = t[IF k <= n THEN k ELSE n]}
<1>1. n \in Nat /\ n <= FoldSize /\ n <= m /\ n >= 1 /\ FoldSize \in Nat \ {0}
  BY Fold
<1>2. Starts(s) \in Low
  <2>1. ASSUME NEW j \in 0 .. FoldSize - 1 PROVE (IF j < n THEN s[j + 1] ELSE 0) \in Byte
    <3>1. CASE j < n
      <4>1. j + 1 \in 1 .. Len(s)
        BY <3>1
      <4> QED BY <3>1, <4>1, ElementOfSeq
    <3>2. CASE ~(j < n)
      BY <3>2 DEF Byte
    <3> QED BY <3>1, <3>2
  <2> QED BY <2>1 DEF Starts, Low
<1>3. x \in Block /\ \A j \in 1 .. FoldSize : x[j] = IF j <= n THEN s[j] ELSE 0
  <2>1. ASSUME NEW j \in 1 .. FoldSize PROVE x[j] = IF j <= n THEN s[j] ELSE 0
    <3>1. j - 1 \in 0 .. FoldSize - 1 /\ (j - 1 < n <=> j <= n) /\ (j - 1) + 1 = j
      BY <1>1
    <3>2. x[j] = Starts(s)[j - 1]
      BY DEF Up
    <3>3. Starts(s)[j - 1] = IF j - 1 < n THEN s[(j - 1) + 1] ELSE 0
      BY <3>1 DEF Starts
    <3> QED BY <3>1, <3>2, <3>3
  <2> QED BY <1>2, <2>1, UpIs
<1> HIDE DEF x
<1>4. /\ v[0] = 0 /\ \A i \in 0 .. FoldSize : v[i] \in Nat
      /\ \A i \in 1 .. FoldSize : v[i] = v[i - 1] + x[i] * Weight[FoldSize - i]
  BY <1>3, PartsAre
<1>5. /\ t[0] = 0 /\ \A l \in 0 .. m - 1 : t[l + 1] = t[l] + CopyWeight(s, l)
      /\ \A l \in 0 .. m : t[l] \in Nat
  BY TotalIs
<1> HIDE DEF v, t
<1>6. 0 \in D
  BY <1>1, <1>4, <1>5
<1>7. ASSUME NEW k \in Nat, k \in D PROVE k + 1 \in D
  <2>1. SUFFICES ASSUME k + 1 <= FoldSize PROVE v[k + 1] = t[IF k + 1 <= n THEN k + 1 ELSE n]
    OBVIOUS
  <2> DEFINE i == k + 1
             w == Weight[FoldSize - i]
  <2>2. i \in 1 .. FoldSize /\ i - 1 = k /\ k \in 0 .. FoldSize - 1 /\ FoldSize - i = FoldSize - 1 - k
        /\ k \in 0 .. FoldSize /\ v[k] = t[IF k <= n THEN k ELSE n] /\ v[k] \in Nat
    BY <1>1, <1>4, <1>7, <2>1
  <2>3. v[i] = v[k] + x[i] * w
    BY <1>4, <2>2
  <2>4. CASE k < n
    <3>1. x[i] = CopyByte(s, k)
      <4>1. k \in 0 .. n - 1 /\ i <= n
        BY <1>1, <2>2, <2>4
      <4> QED BY <1>3, <2>2, <4>1
    <3>2. CopyWeight(s, k) = CopyByte(s, k) * w
      BY <2>2, Early DEF CopyWeight
    <3>3. k \in 0 .. m - 1 /\ k <= n /\ k + 1 <= n
      BY <1>1, <2>2, <2>4
    <3> HIDE DEF w, i, D
    <3>4. t[k + 1] = t[k] + CopyWeight(s, k)
      BY <1>5, <3>3
    <3>5. v[i] = t[k + 1]
      BY <2>2, <2>3, <3>1, <3>2, <3>3, <3>4
    <3> QED BY <3>3, <3>5 DEF i
  <2>5. CASE k >= n
    <3>1. x[i] = 0 /\ w \in Nat
      <4>1. ~(i <= n) /\ FoldSize - i \in 0 .. FoldSize
        BY <1>1, <2>2, <2>5
      <4> QED BY <1>3, <2>2, <4>1, WeightIs DEF Weighs
    <3>2. x[i] * w = 0
      BY <3>1
    <3> HIDE DEF w
    <3>3. v[i] = v[k]
      BY <2>2, <2>3, <3>2
    <3>4. v[k] = t[n]
      BY <1>1, <2>2, <2>5
    <3> QED BY <1>1, <2>5, <3>3, <3>4
  <2> QED BY <1>1, <2>4, <2>5
<1> HIDE DEF D
<1>8. FoldSize \in D
  BY <1>1, <1>6, <1>7, AllNumbers
<1>9. v[FoldSize] = t[n]
  BY <1>1, <1>8 DEF D
<1> QED BY <1>2, <1>9 DEF v, x, t, Val

(* The loop that adds the copies, the last byte first. *)
SumStep(s, m, st, k) == Put(st, k - 1, st.carry + st.block[Place(k - 1)] + CopyByte(s, m - k))
SumRuns(sum, s, m, K) ==
  sum[0] = [block |-> Starts(s), carry |-> 0] /\ \A k \in 1 .. K : sum[k] = SumStep(s, m, sum[k - 1], k)

LEMMA SumKeeps ==
  ASSUME NEW s \in Seq(Byte), Len(s) \in 1 .. FoldSize, BytesOf(s),
         \A l \in 0 .. Len(s) - 1 : CopyByte(s, l) = s[l + 1],
         NEW B \in Nat, Len(s) <= FoldSize * B, NEW sum, SumRuns(sum, s, FoldSize * B, FoldSize * B - Len(s))
  PROVE  /\ \A k \in 0 .. FoldSize * B - Len(s) : sum[k] \in Adding
         /\ Same(Carried(sum[FoldSize * B - Len(s)], FoldSize * B - Len(s)),
                 Total(s, FoldSize * B)[FoldSize * B])
<1> DEFINE m == FoldSize * B
           n == Len(s)
           K == m - n
           t == Total(s, m)
           G(k) == /\ sum[k] \in Adding
                   /\ Same(Carried(sum[k], k) + (t[m - k] - t[n]), t[m])
           D == {k \in Nat : k <= K => G(k)}
<1>1. m \in Nat /\ n \in Nat /\ n <= m /\ K \in Nat /\ K <= m /\ m - K = n /\ FoldSize \in Nat \ {0}
  <2>1. m \in Nat
    BY Fold, Product
  <2> HIDE DEF m
  <2>2. n \in Nat /\ n <= m
    BY DEF m
  <2> QED BY <2>1, <2>2, Fold
<1>2. sum[0] = [block |-> Starts(s), carry |-> 0] /\ \A k \in 1 .. K : sum[k] = SumStep(s, m, sum[k - 1], k)
  BY DEF SumRuns
<1>3. /\ \A l \in 0 .. m - 1 : t[l + 1] = t[l] + CopyWeight(s, l) /\ CopyWeight(s, l) \in Nat
      /\ \A l \in 0 .. m : t[l] \in Nat
      /\ \A l \in n .. m : t[n] <= t[l]
  <2>1. n \in 0 .. m
    BY <1>1
  <2>2. /\ t \in [0 .. m -> Nat]
        /\ \A l \in 0 .. m - 1 : t[l + 1] = t[l] + CopyWeight(s, l) /\ CopyWeight(s, l) \in Nat
        /\ \A a \in 0 .. m : \A b \in a .. m : t[a] <= t[b]
    BY <1>1, TotalIs
  <2> HIDE DEF t, m, n, K
  <2>3. \A l \in n .. m : t[n] <= t[l]
    BY <2>1, <2>2
  <2> QED BY <2>2, <2>3
<1>4. Starts(s) \in Low /\ Val(Up(Starts(s))) = t[n]
  BY <1>1, StartIs
<1>5. 0 \in D
  <2>1. sum[0] \in Adding
    BY <1>2, <1>4 DEF Adding
  <2>2. Carried(sum[0], 0) = t[n] + 0 * Weight[0 % FoldSize]
    BY <1>2, <1>4 DEF Carried
  <2>3. Weight[0 % FoldSize] \in Nat /\ m - 0 = m /\ t[n] \in Nat /\ t[m] \in Nat
    <3>1. 0 \in Nat /\ n \in 0 .. m /\ m \in 0 .. m
      BY <1>1
    <3>2. Weight[0 % FoldSize] \in Nat
      BY <3>1, PlaceIs
    <3> QED BY <1>1, <1>3, <3>1, <3>2
  <2> DEFINE w == Weight[0 % FoldSize]
  <2> HIDE DEF w, t, m
  <2>4. Carried(sum[0], 0) + (t[m - 0] - t[n]) = t[m]
    <3>1. 0 * w = 0
      BY <2>3 DEF w
    <3> QED BY <2>2, <2>3, <3>1 DEF w
  <2>5. G(0)
    BY <2>1, <2>3, <2>4, SameAs
  <2> QED BY <2>5
<1>6. ASSUME NEW k \in Nat, k \in D PROVE k + 1 \in D
  <2> HIDE DEF m, n, K, t
  <2>1. SUFFICES ASSUME k + 1 <= K PROVE G(k + 1)
    OBVIOUS
  <2> DEFINE st == sum[k]
             l == m - (k + 1)
             c == CopyByte(s, l)
             new == st.carry + st.block[Place(k)] + c
             w == Weight[k % FoldSize]
             r == t[l] - t[n]
  <2>2. G(k) /\ k + 1 \in 1 .. K /\ (k + 1) - 1 = k /\ l \in 0 .. m - 1 /\ l + 1 = m - k
        /\ l \in n .. m /\ l \in Nat /\ k + 1 <= m /\ l \in 0 .. m
    BY <1>1, <1>6, <2>1
  <2>3. sum[k + 1] = Put(st, k, new)
    <3>1. sum[k + 1] = SumStep(s, m, sum[(k + 1) - 1], k + 1)
      BY <1>2, <2>2
    <3> QED BY <2>2, <3>1 DEF SumStep
  <2>4. c \in Byte /\ st \in Adding
    BY <2>2 DEF BytesOf
  <2> HIDE DEF G, D
  <2>5. /\ Put(st, k, new) \in Adding
        /\ Same(Carried(Put(st, k, new), k + 1), Carried(st, k) + c * w)
        /\ Carried(st, k) \in Nat /\ c * w \in Nat
    <3> HIDE DEF st, c, w
    <3> QED BY <2>4, PutIs DEF w
  <2>6. r \in Nat /\ t[m - k] = t[l] + c * w /\ t[l] \in Nat /\ t[n] \in Nat
    <3>1. t[l + 1] = t[l] + CopyWeight(s, l) /\ t[l] \in Nat /\ t[n] <= t[l]
      BY <1>3, <2>2
    <3>2. t[n] \in Nat
      BY <1>1, <1>3
    <3>3. CopyWeight(s, l) = c * w
      <4>1. FoldSize - 1 - (l % FoldSize) = k % FoldSize
        BY <2>2, Mirror DEF m
      <4> QED BY <4>1 DEF CopyWeight
    <3> HIDE DEF l, c, w
    <3> QED BY <2>2, <3>1, <3>2, <3>3
  <2> DEFINE V == Carried(st, k)
             V2 == Carried(Put(st, k, new), k + 1)
             p == c * w
  <2> HIDE DEF V, V2, p, st, l, c, w, new, r
  <2>7. Same(V2, V + p) /\ V \in Nat /\ p \in Nat
    BY <2>5 DEF V, V2, p
  <2>8. Same(V2 + r, (V + p) + r)
    BY <2>6, <2>7, SameAdds
  <2>9. (V + p) + r = V + (t[m - k] - t[n])
    BY <2>6, <2>7 DEF p, r
  <2>10. Same(V + (t[m - k] - t[n]), t[m])
    BY <2>2 DEF G, V, st
  <2>11. Same(V2 + r, t[m])
    BY <2>8, <2>9, <2>10, SameThen
  <2>12. sum[k + 1] \in Adding
    BY <2>3, <2>5
  <2>13. Carried(sum[k + 1], k + 1) = V2
    BY <2>3 DEF V2
  <2> QED BY <2>11, <2>12, <2>13 DEF G, r, l
<1> HIDE DEF m, n, t
<1>7. \A k \in Nat : k \in D
  <2> HIDE DEF D
  <2> QED BY <1>5, <1>6, AllNumbers
<1>8. G(K) /\ \A k \in 0 .. K : G(k)
  BY <1>1, <1>7
<1>9. K \in Nat /\ t[m - K] - t[n] = 0
  <2>1. n \in 0 .. m
    BY <1>1
  <2>2. t[n] \in Nat
    BY <1>3, <2>1
  <2> QED BY <1>1, <2>2
<1>10. Carried(sum[K], K) + 0 = Carried(sum[K], K)
  <2> HIDE DEF K
  <2>1. sum[K] \in Adding
    BY <1>8
  <2>2. 0 \in Byte
    BY DEF Byte
  <2>3. Carried(sum[K], K) \in Nat
    BY <1>9, <2>1, <2>2, PutIs
  <2> QED BY <2>3
<1>11. Same(Carried(sum[K], K), t[m])
  BY <1>8, <1>9, <1>10
<1>12. \A k \in 0 .. K : sum[k] \in Adding
  BY <1>8
<1> QED BY <1>11, <1>12 DEF K, m, n, t

(* What is carried goes round until a byte takes it: all it has passed is 0, *)
(* and so it ends when it has been everywhere.                               *)
RoundStep(K, st, k) ==
  IF st.carry = 0 THEN st ELSE Put(st, K + k - 1, st.carry + st.block[Place(K + k - 1)])
RoundRuns(round, K, first) ==
  round[0] = first /\ \A k \in 1 .. 2 * FoldSize : round[k] = RoundStep(K, round[k - 1], k)
Passed(st, K, k) == k <= FoldSize /\ \A i \in 0 .. k - 1 : st.block[Place(K + i)] = 0

LEMMA Around ==
  ASSUME NEW k \in Nat
  PROVE  Place(k + FoldSize) = Place(k)
<1> DEFINE p == k % FoldSize
           q == k \div FoldSize
<1>1. FoldSize \in Nat \ {0}
  BY Fold
<1>2. p \in 0 .. FoldSize - 1 /\ q \in Nat /\ k = FoldSize * q + p
  BY <1>1, Division
<1> HIDE DEF p, q
<1>3. FoldSize * (q + 1) = FoldSize * q + FoldSize /\ FoldSize * q \in Int /\ q + 1 \in Int
  BY <1>1, <1>2
<1>4. k + FoldSize = FoldSize * (q + 1) + p /\ k + FoldSize \in Int
  BY <1>1, <1>2, <1>3
<1>5. (k + FoldSize) % FoldSize = p
  BY <1>1, <1>2, <1>3, <1>4, Remains
<1> QED BY <1>5 DEF p, Place

LEMMA RoundIs ==
  ASSUME NEW st \in Adding, NEW K \in Nat, NEW k \in Nat, NEW x, Same(Carried(st, K + k), x),
         st.carry = 1 => Passed(st, K, k), NEW r, r = RoundStep(K, st, k + 1)
  PROVE  r \in Adding /\ Same(Carried(r, K + (k + 1)), x) /\ (r.carry = 1 => Passed(r, K, k + 1))
<1>1. st.carry \in {0, 1} /\ st.block \in Low
  BY DEF Adding
<1>2. CASE st.carry = 0
  <2>1. r = st
    BY <1>2 DEF RoundStep
  <2>2. Carried(st, K + (k + 1)) = Carried(st, K + k)
    <3> DEFINE w == Weight[(K + k) % FoldSize]
               u == Weight[(K + (k + 1)) % FoldSize]
    <3>1. w \in Nat /\ u \in Nat
      <4>1. K + k \in Nat /\ K + (k + 1) \in Nat
        OBVIOUS
      <4> QED BY <4>1, PlaceIs
    <3> HIDE DEF w, u
    <3>2. 0 * w = 0 /\ 0 * u = 0
      BY <3>1
    <3> QED BY <1>2, <3>2 DEF Carried, w, u
  <2> QED BY <1>2, <2>1, <2>2
<1>3. CASE st.carry = 1
  <2> DEFINE j == K + k
             y == Place(j)
             new == st.carry + st.block[y]
  <2>1. j \in Nat /\ K + (k + 1) - 1 = j /\ K + (k + 1) = j + 1
    OBVIOUS
  <2>2. r = Put(st, j, new)
    BY <1>3, <2>1 DEF RoundStep
  <2> HIDE DEF j
  <2>3. y \in 0 .. FoldSize - 1
    BY <2>1, PlaceIs
  <2>4. st.block[y] \in Byte
    BY <1>1, <2>3 DEF Low
  <2>5. 0 \in Byte /\ new = st.carry + st.block[y] + 0
    <3>1. st.block[y] \in Nat
      BY <2>4, ByteIs, Zenon
    <3> QED BY <1>1, <3>1 DEF Byte
  <2>6. r \in Adding /\ Same(Carried(r, j + 1), Carried(st, j) + 0 * Weight[j % FoldSize])
        /\ Carried(st, j) \in Nat
    <3> HIDE DEF new
    <3> QED BY <2>1, <2>2, <2>5, PutIs DEF y
  <2>7. Carried(st, j) + 0 * Weight[j % FoldSize] = Carried(st, j)
    <3> DEFINE w == Weight[j % FoldSize]
    <3>1. w \in Nat
      BY <2>1, PlaceIs
    <3> HIDE DEF w
    <3>2. 0 * w = 0
      BY <3>1
    <3> QED BY <2>6, <3>2 DEF w
  <2>8. Same(Carried(r, K + (k + 1)), x)
    BY <2>1, <2>6, <2>7, SameThen DEF j
  <2>9. ASSUME r.carry = 1 PROVE Passed(r, K, k + 1)
    <3>1. r.carry = new \div 256 /\ r.block = [st.block EXCEPT ![y] = new % 256]
      BY <2>2 DEF Put
    <3>2. st.block[y] = 255 /\ new = 256
      <4> DEFINE z == st.block[y]
      <4>1. z \in Nat /\ z <= 255 /\ new = 1 + z
        BY <1>3, <2>4 DEF Byte
      <4> HIDE DEF z
      <4>2. new \div 256 = 1
        BY <2>9, <3>1
      <4> HIDE DEF new
      <4>3. z = 255 /\ new = 256
        BY <4>1, <4>2
      <4> QED BY <4>3 DEF z
    <3>3. r.block[y] = 0 /\ \A i \in 0 .. FoldSize - 1 : st.block[i] = 0 => r.block[i] = 0
      <4>1. new % 256 = 0
        BY <3>2
      <4> QED BY <1>1, <2>3, <3>1, <4>1 DEF Low
    <3>4. Passed(st, K, k)
      BY <1>3
    <3>5. k # FoldSize
      <4>1. SUFFICES ASSUME k = FoldSize PROVE FALSE
        OBVIOUS
      <4>2. y = Place(K)
        BY <4>1, Around DEF j
      <4>3. 0 \in 0 .. k - 1 /\ K + 0 = K
        BY <4>1, Fold
      <4>4. st.block[Place(K)] = 0
        BY <3>4, <4>3 DEF Passed
      <4> QED BY <3>2, <4>2, <4>4
    <3>6. k + 1 <= FoldSize
      <4>1. k <= FoldSize
        BY <3>4 DEF Passed
      <4> QED BY <3>5, <4>1, Fold
    <3>7. ASSUME NEW i \in 0 .. (k + 1) - 1 PROVE r.block[Place(K + i)] = 0
      <4>1. CASE i = k
        BY <3>3, <4>1 DEF j
      <4>2. CASE i # k
        <5>1. i \in 0 .. k - 1 /\ K + i \in Nat
          BY <4>2
        <5>2. st.block[Place(K + i)] = 0
          BY <3>4, <5>1 DEF Passed
        <5> QED BY <3>3, <5>1, <5>2, PlaceIs
      <4> QED BY <4>1, <4>2
    <3> QED BY <3>6, <3>7 DEF Passed
  <2> QED BY <2>6, <2>8, <2>9
<1> QED BY <1>1, <1>2, <1>3

LEMMA RoundKeeps ==
  ASSUME NEW K \in Nat, NEW first \in Adding, NEW x, Same(Carried(first, K), x),
         NEW round, RoundRuns(round, K, first)
  PROVE  /\ \A k \in 0 .. 2 * FoldSize : round[k] \in Adding
         /\ Same(Val(Up(round[2 * FoldSize].block)), x)
<1> DEFINE m == 2 * FoldSize
           G(k) == /\ round[k] \in Adding /\ Same(Carried(round[k], K + k), x)
                   /\ round[k].carry = 1 => Passed(round[k], K, k)
           D == {k \in Nat : k <= m => G(k)}
<1>1. m \in Nat /\ FoldSize \in Nat \ {0} /\ ~(m <= FoldSize)
  BY Fold
<1>2. round[0] = first /\ \A k \in 1 .. m : round[k] = RoundStep(K, round[k - 1], k)
  BY DEF RoundRuns
<1> HIDE DEF m
<1>3. 0 \in D
  <2>1. K + 0 = K /\ Passed(first, K, 0)
    BY <1>1 DEF Passed
  <2> QED BY <1>2, <2>1
<1>4. ASSUME NEW k \in Nat, k \in D PROVE k + 1 \in D
  <2>1. SUFFICES ASSUME k + 1 <= m PROVE G(k + 1)
    OBVIOUS
  <2>2. G(k) /\ k + 1 \in 1 .. m /\ (k + 1) - 1 = k
    BY <1>1, <1>4, <2>1
  <2>3. round[k + 1] = RoundStep(K, round[k], k + 1)
    <3>1. round[k + 1] = RoundStep(K, round[(k + 1) - 1], k + 1)
      BY <1>2, <2>2
    <3> QED BY <2>2, <3>1
  <2> QED BY <2>2, <2>3, RoundIs
<1>5. \A k \in Nat : k \in D
  <2> HIDE DEF D
  <2> QED BY <1>3, <1>4, AllNumbers
<1>6. G(m) /\ \A k \in 0 .. m : G(k)
  BY <1>1, <1>5
<1>7. round[m] \in Adding /\ round[m].carry = 0
  <2>1. round[m].carry \in {0, 1} /\ round[m] \in Adding
    BY <1>6 DEF Adding
  <2>2. ~Passed(round[m], K, m)
    BY <1>1 DEF Passed
  <2> QED BY <1>6, <2>1, <2>2
<1>8. Carried(round[m], K + m) = Val(Up(round[m].block))
  <2> DEFINE w == Weight[(K + m) % FoldSize]
             V == Val(Up(round[m].block))
  <2>1. w \in Nat
    <3>1. K + m \in Nat
      BY <1>1
    <3> QED BY <3>1, PlaceIs
  <2>2. V \in Nat
    <3>1. round[m].block \in Low
      BY <1>7 DEF Adding
    <3> QED BY <3>1, UpIs, ValBelow, TopIs
  <2>3. Carried(round[m], K + m) = V + 0 * w
    BY <1>7 DEF Carried
  <2> HIDE DEF w, V
  <2>4. V + 0 * w = V
    BY <2>1, <2>2
  <2> QED BY <2>3, <2>4 DEF V
<1>9. Same(Val(Up(round[m].block)), x)
  BY <1>6, <1>8
<1> QED BY <1>6, <1>9 DEF m

(* So the loops of the code add up the copies.                               *)
LEMMA FoldSumIs ==
  ASSUME NEW s \in Seq(Byte), Len(s) \in 1 .. FoldSize, BytesOf(s),
         \A l \in 0 .. Len(s) - 1 : CopyByte(s, l) = s[l + 1],
         NEW B \in Nat, Len(s) <= FoldSize * B,
         (Len(s) * FoldSize) \div Gcd(Len(s), FoldSize) = FoldSize * B
  PROVE  FoldSum(s) \in Block /\ Same(Val(FoldSum(s)), Total(s, FoldSize * B)[FoldSize * B])
<1> DEFINE n == Len(s)
           cnt == (n * FoldSize) \div Gcd(n, FoldSize)
           at(k) == (FoldSize - 1) - (k % FoldSize)
           start == [j \in 0 .. FoldSize - 1 |-> IF j < n THEN s[j + 1] ELSE 0]
           sum[k \in 0 .. cnt - n] ==
             IF k = 0 THEN [block |-> start, carry |-> 0]
             ELSE LET was == sum[k - 1]
                      new == was.carry + was.block[at(k - 1)] + CopyByte(s, cnt - k)
                  IN [block |-> [was.block EXCEPT ![at(k - 1)] = new % 256], carry |-> new \div 256]
           round[k \in 0 .. 2 * FoldSize] ==
             IF k = 0 THEN sum[cnt - n]
             ELSE LET was == round[k - 1]
                      new == was.carry + was.block[at(cnt - n + k - 1)]
                  IN IF was.carry = 0 THEN was
                     ELSE [block |-> [was.block EXCEPT ![at(cnt - n + k - 1)] = new % 256],
                           carry |-> new \div 256]
           K == cnt - n
           t == Total(s, cnt)
           R == 2 * FoldSize
<1>1. FoldSum(s) = [j \in 1 .. FoldSize |-> round[R].block[j - 1]]
  BY Zenon DEF FoldSum
<1> HIDE DEF sum, round
<1>2. cnt = FoldSize * B
  OBVIOUS
<1>3. n \in Nat /\ cnt \in Nat /\ K \in Nat /\ R \in Nat /\ FoldSize \in Nat \ {0}
  <2>1. FoldSize * B \in Nat /\ FoldSize \in Nat \ {0}
    BY Fold, Product
  <2> HIDE DEF cnt
  <2> QED BY <1>2, <2>1
<1> HIDE DEF cnt, K, R
<1>4. start = Starts(s) /\ Starts(s) \in Low
  <2>1. start = Starts(s)
    BY DEF Starts
  <2>2. FoldSize * B \in Nat
    BY <1>2, <1>3
  <2> QED BY <2>1, <2>2, StartIs
<1> HIDE DEF start
<1>5. ASSUME NEW k \in 1 .. K, NEW st \in Adding PROVE SumStep(s, cnt, st, k) \in Adding
  <2>1. CopyByte(s, cnt - k) \in Byte /\ k - 1 \in Nat
    <3>1. cnt - k \in Nat
      BY <1>3 DEF K
    <3> QED BY <1>3, <3>1 DEF BytesOf
  <2> QED BY <2>1, PutIs DEF SumStep
<1>6. SumRuns(sum, s, cnt, K)
  <2> DEFINE x == [block |-> start, carry |-> 0]
             step == [k \in 1 .. K |-> [st \in Adding |-> SumStep(s, cnt, st, k)]]
  <2>1. x \in Adding
    BY <1>4 DEF Adding
  <2>2. \A k \in 1 .. K : \A st \in Adding : step[k][st] = SumStep(s, cnt, st, k) /\ step[k][st] \in Adding
    BY <1>5
  <2> HIDE DEF x, step
  <2>3. PICK g \in [0 .. K -> Adding] : LoopOf(g, K, x, step)
    <3>1. StaysIn(step, K, Adding)
      BY <2>2 DEF StaysIn
    <3> QED BY <1>3, <2>1, <3>1, LoopIs
  <2>4. \A k \in 0 .. K : g[k] = IF k = 0 THEN x ELSE SumStep(s, cnt, g[k - 1], k)
    <3>1. \A k \in 0 .. K : g[k] = IF k = 0 THEN x ELSE step[k][g[k - 1]]
      BY <2>3, Zenon DEF LoopOf
    <3>2. \A k \in 0 .. K : k # 0 => k \in 1 .. K /\ g[k - 1] \in Adding
      BY <1>3
    <3> QED BY <2>2, <3>1, <3>2, Zenon
  <2>5. g = [k \in 0 .. K |-> IF k = 0 THEN x ELSE SumStep(s, cnt, g[k - 1], k)]
    BY <2>4
  <2>6. g = [k \in 0 .. cnt - n |-> IF k = 0 THEN [block |-> start, carry |-> 0]
             ELSE LET was == g[k - 1]
                      new == was.carry + was.block[at(k - 1)] + CopyByte(s, cnt - k)
                  IN [block |-> [was.block EXCEPT ![at(k - 1)] = new % 256], carry |-> new \div 256]]
    BY <2>5, Zenon DEF K, x, SumStep, Put, Place
  <2>7. \E f : f = [k \in 0 .. cnt - n |-> IF k = 0 THEN [block |-> start, carry |-> 0]
             ELSE LET was == f[k - 1]
                      new == was.carry + was.block[at(k - 1)] + CopyByte(s, cnt - k)
                  IN [block |-> [was.block EXCEPT ![at(k - 1)] = new % 256], carry |-> new \div 256]]
    BY <2>6, Zenon
  <2>8. sum = [k \in 0 .. cnt - n |-> IF k = 0 THEN [block |-> start, carry |-> 0]
             ELSE LET was == sum[k - 1]
                      new == was.carry + was.block[at(k - 1)] + CopyByte(s, cnt - k)
                  IN [block |-> [was.block EXCEPT ![at(k - 1)] = new % 256], carry |-> new \div 256]]
    BY <2>7, Zenon DEF sum
  <2>9. sum = [k \in 0 .. K |-> IF k = 0 THEN x ELSE SumStep(s, cnt, sum[k - 1], k)]
    BY <2>8, Zenon DEF K, x, SumStep, Put, Place
  <2>10. \A k \in 0 .. K : sum[k] = IF k = 0 THEN x ELSE SumStep(s, cnt, sum[k - 1], k)
    BY <2>9, Zenon
  <2>11. 0 \in 0 .. K /\ \A k \in 1 .. K : k \in 0 .. K /\ k # 0
    BY <1>3
  <2>12. sum[0] = x /\ \A k \in 1 .. K : sum[k] = SumStep(s, cnt, sum[k - 1], k)
    BY <2>10, <2>11, Zenon
  <2> QED BY <1>4, <2>12, Zenon DEF SumRuns, x
<1>7. sum[K] \in Adding /\ Same(Carried(sum[K], K), t[cnt])
  <2>1. K = FoldSize * B - Len(s)
    BY <1>2 DEF K
  <2>2. SumRuns(sum, s, FoldSize * B, FoldSize * B - Len(s))
    BY <1>2, <1>6, <2>1
  <2>3. FoldSize * B - Len(s) \in 0 .. FoldSize * B - Len(s)
    BY <1>3, <2>1
  <2>4. sum[FoldSize * B - Len(s)] \in Adding
        /\ Same(Carried(sum[FoldSize * B - Len(s)], FoldSize * B - Len(s)),
                Total(s, FoldSize * B)[FoldSize * B])
    BY <2>2, <2>3, SumKeeps
  <2> QED BY <1>2, <2>1, <2>4
<1>8. RoundRuns(round, K, sum[K])
  <2> DEFINE x == sum[K]
             step == [k \in 1 .. R |-> [st \in Adding |-> RoundStep(K, st, k)]]
  <2>1. x \in Adding
    BY <1>7
  <2>2. ASSUME NEW k \in 1 .. R, NEW st \in Adding PROVE RoundStep(K, st, k) \in Adding
    <3> DEFINE new == st.carry + st.block[Place(K + k - 1)]
    <3>1. K + k - 1 \in Nat
      BY <1>3
    <3>2. Place(K + k - 1) \in 0 .. FoldSize - 1
      BY <3>1, PlaceIs
    <3>3. st.carry \in {0, 1} /\ st.block[Place(K + k - 1)] \in Byte
      BY <3>2 DEF Adding, Low
    <3>4. 0 \in Byte /\ new = st.carry + st.block[Place(K + k - 1)] + 0
      <4>1. st.block[Place(K + k - 1)] \in Nat
        BY <3>3, ByteIs, Zenon
      <4> QED BY <3>3, <4>1 DEF Byte
    <3> HIDE DEF new
    <3>5. Put(st, K + k - 1, new) \in Adding
      BY <3>1, <3>4, PutIs
    <3> QED BY <3>5 DEF RoundStep, new
  <2>3. \A k \in 1 .. R : \A st \in Adding : step[k][st] = RoundStep(K, st, k) /\ step[k][st] \in Adding
    BY <2>2
  <2> HIDE DEF x, step
  <2>4. PICK g \in [0 .. R -> Adding] : LoopOf(g, R, x, step)
    <3>1. StaysIn(step, R, Adding)
      BY <2>3 DEF StaysIn
    <3> QED BY <1>3, <2>1, <3>1, LoopIs
  <2>5. \A k \in 0 .. R : g[k] = IF k = 0 THEN x ELSE RoundStep(K, g[k - 1], k)
    <3>1. \A k \in 0 .. R : g[k] = IF k = 0 THEN x ELSE step[k][g[k - 1]]
      BY <2>4, Zenon DEF LoopOf
    <3>2. \A k \in 0 .. R : k # 0 => k \in 1 .. R /\ g[k - 1] \in Adding
      BY <1>3
    <3> QED BY <2>3, <3>1, <3>2, Zenon
  <2>6. g = [k \in 0 .. R |-> IF k = 0 THEN x ELSE RoundStep(K, g[k - 1], k)]
    BY <2>5
  <2>7. g = [k \in 0 .. 2 * FoldSize |-> IF k = 0 THEN sum[cnt - n]
             ELSE LET was == g[k - 1]
                      new == was.carry + was.block[at(cnt - n + k - 1)]
                  IN IF was.carry = 0 THEN was
                     ELSE [block |-> [was.block EXCEPT ![at(cnt - n + k - 1)] = new % 256],
                           carry |-> new \div 256]]
    BY <2>6, Zenon DEF K, R, x, RoundStep, Put, Place
  <2>8. \E f : f = [k \in 0 .. 2 * FoldSize |-> IF k = 0 THEN sum[cnt - n]
             ELSE LET was == f[k - 1]
                      new == was.carry + was.block[at(cnt - n + k - 1)]
                  IN IF was.carry = 0 THEN was
                     ELSE [block |-> [was.block EXCEPT ![at(cnt - n + k - 1)] = new % 256],
                           carry |-> new \div 256]]
    BY <2>7, Zenon
  <2>9. round = [k \in 0 .. 2 * FoldSize |-> IF k = 0 THEN sum[cnt - n]
             ELSE LET was == round[k - 1]
                      new == was.carry + was.block[at(cnt - n + k - 1)]
                  IN IF was.carry = 0 THEN was
                     ELSE [block |-> [was.block EXCEPT ![at(cnt - n + k - 1)] = new % 256],
                           carry |-> new \div 256]]
    BY <2>8, Zenon DEF round
  <2>10. round = [k \in 0 .. R |-> IF k = 0 THEN x ELSE RoundStep(K, round[k - 1], k)]
    BY <2>9, Zenon DEF K, R, x, RoundStep, Put, Place
  <2>11. \A k \in 0 .. R : round[k] = IF k = 0 THEN x ELSE RoundStep(K, round[k - 1], k)
    BY <2>10, Zenon
  <2>12. 0 \in 0 .. R /\ \A k \in 1 .. R : k \in 0 .. R /\ k # 0
    BY <1>3
  <2>13. round[0] = x /\ \A k \in 1 .. R : round[k] = RoundStep(K, round[k - 1], k)
    BY <2>11, <2>12, Zenon
  <2> QED BY <2>13, Zenon DEF RoundRuns, x, R
<1>9. round[R] \in Adding /\ Same(Val(Up(round[R].block)), t[cnt])
  <2>1. \A k \in 0 .. 2 * FoldSize : round[k] \in Adding
    BY <1>3, <1>7, <1>8, RoundKeeps
  <2>2. Same(Val(Up(round[2 * FoldSize].block)), t[cnt])
    BY <1>3, <1>7, <1>8, RoundKeeps
  <2>3. 2 * FoldSize \in 0 .. 2 * FoldSize
    BY <1>3
  <2> QED BY <2>1, <2>2, <2>3 DEF R
<1>10. FoldSum(s) = Up(round[R].block) /\ Up(round[R].block) \in Block
  <2>1. round[R].block \in Low
    BY <1>9 DEF Adding
  <2> QED BY <1>1, <2>1, UpIs DEF Up
<1> QED BY <1>2, <1>9, <1>10

(* n-fold as it is defined: one block added to another.                      *)
Carrying(v, x, y, c) == /\ v \in [1 .. FoldSize + 1 -> {0, 1}] /\ v[FoldSize + 1] = c
                        /\ \A i \in 1 .. FoldSize : v[i] = (v[i + 1] + x[i] + y[i]) \div 256

LEMMA CarryRuns ==
  ASSUME NEW x \in Block, NEW y \in Block, NEW c \in {0, 1}
  PROVE  \E v : /\ Carrying(v, x, y, c)
                /\ AddCarrying(x, y, c)
                     = [carry |-> v[1], sum |-> [i \in 1 .. FoldSize |-> (v[i + 1] + x[i] + y[i]) % 256]]
<1> DEFINE v[i \in 1 .. FoldSize + 1] ==
             IF i = FoldSize + 1 THEN c ELSE (v[i + 1] + x[i] + y[i]) \div 256
           F == FoldSize
           Next1(i, z) == (z + x[i] + y[i]) \div 256
           step == [k \in 1 .. F |-> [z \in {0, 1} |-> Next1(F + 1 - k, z)]]
<1>1. AddCarrying(x, y, c)
        = [carry |-> v[1], sum |-> [i \in 1 .. FoldSize |-> (v[i + 1] + x[i] + y[i]) % 256]]
  BY Zenon DEF AddCarrying
<1> HIDE DEF v
<1>2. F \in Nat \ {0}
  BY Fold
<1>3. ASSUME NEW i \in 1 .. F, NEW z \in {0, 1} PROVE Next1(i, z) \in {0, 1}
  <2>1. x[i] \in Byte /\ y[i] \in Byte
    BY <1>3, BytesAre
  <2> QED BY <2>1, BytesAdd
<1> HIDE DEF F
<1>4. \A k \in 1 .. F : \A z \in {0, 1} : step[k][z] = Next1(F + 1 - k, z) /\ step[k][z] \in {0, 1}
  <2>1. ASSUME NEW k \in 1 .. F, NEW z \in {0, 1}
        PROVE  step[k][z] = Next1(F + 1 - k, z) /\ step[k][z] \in {0, 1}
    <3>1. F + 1 - k \in 1 .. F
      BY <1>2
    <3>2. step[k][z] = Next1(F + 1 - k, z)
      OBVIOUS
    <3> HIDE DEF Next1, step
    <3> QED BY <1>3, <3>1, <3>2
  <2> QED BY <2>1
<1> HIDE DEF step, Next1
<1>5. PICK g \in [0 .. F -> {0, 1}] : LoopOf(g, F, c, step)
  <2>1. StaysIn(step, F, {0, 1})
    BY <1>4 DEF StaysIn
  <2> QED BY <1>2, <2>1, LoopIs
<1>6. g[0] = c /\ \A k \in 1 .. F : g[k] = Next1(F + 1 - k, g[k - 1])
  <2>1. \A i \in 0 .. F : g[i] = IF i = 0 THEN c ELSE step[i][g[i - 1]]
    BY <1>5, Zenon DEF LoopOf
  <2>2. \A i \in 1 .. F : i \in 0 .. F /\ i # 0 /\ g[i - 1] \in {0, 1}
    BY <1>2
  <2>3. 0 \in 0 .. F
    BY <1>2
  <2> QED BY <1>4, <2>1, <2>2, <2>3, Zenon
<1> DEFINE h == [i \in 1 .. F + 1 |-> g[F + 1 - i]]
<1>7. h \in [1 .. F + 1 -> {0, 1}] /\ h[F + 1] = c
  <2>1. \A i \in 1 .. F + 1 : F + 1 - i \in 0 .. F
    BY <1>2
  <2>2. F + 1 - (F + 1) = 0 /\ F + 1 \in 1 .. F + 1
    BY <1>2
  <2> QED BY <1>6, <2>1, <2>2
<1>8. ASSUME NEW i \in 1 .. F PROVE h[i] = Next1(i, h[i + 1])
  <2> DEFINE k == F + 1 - i
  <2>1. k \in 1 .. F /\ F + 1 - k = i /\ k - 1 = F + 1 - (i + 1) /\ i \in 1 .. F + 1
        /\ i + 1 \in 1 .. F + 1
    BY <1>2
  <2>2. h[i] = g[k] /\ h[i + 1] = g[F + 1 - (i + 1)]
    BY <2>1
  <2> HIDE DEF k, h
  <2>3. g[k] = Next1(F + 1 - k, g[k - 1])
    BY <1>6, <2>1
  <2> QED BY <2>1, <2>2, <2>3
<1> HIDE DEF h
<1>9. h = [i \in 1 .. FoldSize + 1 |-> IF i = FoldSize + 1 THEN c ELSE (h[i + 1] + x[i] + y[i]) \div 256]
  <2>1. h = [i \in 1 .. F + 1 |-> h[i]]
    BY <1>7
  <2>2. ASSUME NEW i \in 1 .. F + 1
        PROVE  h[i] = IF i = F + 1 THEN c ELSE (h[i + 1] + x[i] + y[i]) \div 256
    <3>1. CASE i = F + 1
      BY <1>7, <3>1
    <3>2. CASE i # F + 1
      <4>1. i \in 1 .. F
        BY <1>2, <3>2
      <4>2. h[i] = Next1(i, h[i + 1])
        BY <1>8, <4>1
      <4> QED BY <3>2, <4>2, Zenon DEF Next1
    <3> QED BY <3>1, <3>2
  <2> QED BY <2>1, <2>2, Zenon DEF F
<1>10. \E l : l = [i \in 1 .. FoldSize + 1 |-> IF i = FoldSize + 1 THEN c
                                               ELSE (l[i + 1] + x[i] + y[i]) \div 256]
  BY <1>9, Zenon
<1>11. v = [i \in 1 .. FoldSize + 1 |-> IF i = FoldSize + 1 THEN c ELSE (v[i + 1] + x[i] + y[i]) \div 256]
  BY <1>10, Zenon DEF v
<1>12. v = [i \in 1 .. F + 1 |-> IF i = F + 1 THEN c ELSE Next1(i, v[i + 1])]
  BY <1>11, Zenon DEF F, Next1
<1>13. v[F + 1] = c /\ \A i \in 1 .. F : v[i] = Next1(i, v[i + 1])
  <2>1. F + 1 \in 1 .. F + 1 /\ \A i \in 1 .. F : i \in 1 .. F + 1 /\ i # F + 1
    BY <1>2
  <2>2. \A i \in 1 .. F + 1 : v[i] = IF i = F + 1 THEN c ELSE Next1(i, v[i + 1])
    BY <1>12, Zenon
  <2> QED BY <2>1, <2>2, Zenon
<1> DEFINE D == {k \in Nat : k <= F => v[F + 1 - k] \in {0, 1}}
<1>14. 0 \in D
  <2>1. F + 1 - 0 = F + 1
    BY <1>2
  <2> QED BY <1>13, <2>1
<1>15. ASSUME NEW k \in Nat, k \in D PROVE k + 1 \in D
  <2>1. SUFFICES ASSUME k + 1 <= F PROVE v[F + 1 - (k + 1)] \in {0, 1}
    OBVIOUS
  <2> DEFINE i == F + 1 - (k + 1)
  <2>2. i \in 1 .. F /\ i + 1 = F + 1 - k /\ v[F + 1 - k] \in {0, 1}
    BY <1>2, <1>15, <2>1
  <2> HIDE DEF i
  <2>3. v[i] = Next1(i, v[i + 1]) /\ v[i + 1] \in {0, 1}
    BY <1>13, <2>2
  <2> QED BY <1>3, <2>2, <2>3 DEF i
<1> HIDE DEF D
<1>16. \A k \in Nat : k \in D
  BY <1>14, <1>15, AllNumbers
<1>17. v \in [1 .. F + 1 -> {0, 1}]
  <2>1. ASSUME NEW i \in 1 .. F + 1 PROVE v[i] \in {0, 1}
    <3>1. F + 1 - i \in Nat /\ F + 1 - i <= F /\ F + 1 - (F + 1 - i) = i
      BY <1>2
    <3>2. v[F + 1 - (F + 1 - i)] \in {0, 1}
      BY <1>16, <3>1 DEF D
    <3> QED BY <3>1, <3>2
  <2>2. v = [i \in 1 .. F + 1 |-> v[i]]
    BY <1>12
  <2> QED BY <2>1, <2>2
<1>18. Carrying(v, x, y, c)
  BY <1>13, <1>17, Zenon DEF Carrying, Next1, F
<1> QED BY <1>1, <1>18

LEMMA AddIs ==
  ASSUME NEW x \in Block, NEW y \in Block, NEW c \in {0, 1}, NEW a, a = AddCarrying(x, y, c)
  PROVE  /\ a.sum \in Block /\ a.carry \in {0, 1}
         /\ Val(a.sum) + a.carry * Weight[FoldSize] = Val(x) + Val(y) + c
<1>1. PICK v : Carrying(v, x, y, c)
               /\ a = [carry |-> v[1], sum |-> [i \in 1 .. FoldSize |-> (v[i + 1] + x[i] + y[i]) % 256]]
  BY CarryRuns
<1> DEFINE z == a.sum
           F == FoldSize
           W(i) == Weight[F - i]
<1>2. F \in Nat \ {0}
  BY Fold
<1>3. v \in [1 .. F + 1 -> {0, 1}] /\ v[F + 1] = c
      /\ \A i \in 1 .. F : v[i] = (v[i + 1] + x[i] + y[i]) \div 256
  BY <1>1 DEF Carrying
<1>4. a.carry = v[1] /\ \A i \in 1 .. F : z[i] = (v[i + 1] + x[i] + y[i]) % 256
  BY <1>1
<1>5. z = [i \in 1 .. F |-> z[i]]
  BY <1>1
<1> HIDE DEF z
<1>6. ASSUME NEW i \in 1 .. F
      PROVE  z[i] \in Byte /\ v[i] \in {0, 1} /\ v[i + 1] \in {0, 1}
             /\ v[i + 1] + x[i] + y[i] = 256 * v[i] + z[i]
  <2>1. x[i] \in Byte /\ y[i] \in Byte
    BY BytesAre
  <2>2. i \in 1 .. F + 1 /\ i + 1 \in 1 .. F + 1
    BY <1>2
  <2>3. v[i] \in {0, 1} /\ v[i + 1] \in {0, 1}
    BY <1>3, <2>2
  <2> DEFINE e == v[i + 1] + x[i] + y[i]
  <2>4. z[i] = e % 256 /\ v[i] = e \div 256
    BY <1>3, <1>4
  <2>5. e % 256 \in Byte /\ e = 256 * (e \div 256) + (e % 256)
    BY <2>1, <2>3, BytesAdd
  <2> HIDE DEF e
  <2>6. z[i] \in Byte /\ e = 256 * v[i] + z[i]
    BY <2>4, <2>5
  <2> QED BY <2>3, <2>6 DEF e
<1>7. z \in Block
  BY <1>5, <1>6 DEF Block
<1> DEFINE p == Parts(x)
           q == Parts(y)
           r == Parts(z)
           D == {k \in Nat : k <= F => r[k] + v[1] * W(0) = p[k] + q[k] + v[k + 1] * W(k)}
<1>8. /\ p[0] = 0 /\ q[0] = 0 /\ r[0] = 0
      /\ \A i \in 0 .. F : p[i] \in Nat /\ q[i] \in Nat /\ r[i] \in Nat
      /\ \A i \in 1 .. F : /\ p[i] = p[i - 1] + x[i] * W(i) /\ q[i] = q[i - 1] + y[i] * W(i)
                           /\ r[i] = r[i - 1] + z[i] * W(i)
  BY <1>7, PartsAre
<1>9. \A i \in 0 .. F : W(i) \in Nat
  <2>1. \A i \in 0 .. F : F - i \in 0 .. F
    BY <1>2
  <2> QED BY <2>1, WeightIs DEF Weighs
<1>10. \A i \in 1 .. F : W(i - 1) = 256 * W(i)
  <2>1. ASSUME NEW i \in 1 .. F PROVE W(i - 1) = 256 * W(i)
    <3> DEFINE j == F - (i - 1)
    <3>1. j \in 1 .. F /\ j - 1 = F - i
      BY <1>2
    <3> HIDE DEF j
    <3>2. Weight[j] = 256 * Weight[j - 1]
      BY <3>1, WeightIs DEF Weighs
    <3> QED BY <3>1, <3>2 DEF j
  <2> QED BY <2>1
<1> HIDE DEF p, q, r, W, F
<1>11. 1 \in 1 .. F + 1 /\ F + 1 \in 1 .. F + 1 /\ F \in 0 .. F /\ 0 \in 0 .. F
  BY <1>2
<1>12. v[1] * W(0) \in Nat
  <2>1. v[1] \in Nat /\ W(0) \in Nat
    BY <1>3, <1>9, <1>11
  <2> QED BY <2>1, Product
<1>13. 0 \in D
  <2>1. 0 + 1 = 1
    OBVIOUS
  <2> QED BY <1>8, <1>12, <2>1
<1>14. ASSUME NEW k \in Nat, k \in D PROVE k + 1 \in D
  <2>1. SUFFICES ASSUME k + 1 <= F
                 PROVE  r[k + 1] + v[1] * W(0) = p[k + 1] + q[k + 1] + v[(k + 1) + 1] * W(k + 1)
    OBVIOUS
  <2> DEFINE i == k + 1
  <2>2. i \in 1 .. F /\ i - 1 = k /\ k \in 0 .. F /\ i \in 0 .. F
        /\ r[k] + v[1] * W(0) = p[k] + q[k] + v[i] * W(k)
    BY <1>2, <1>14, <2>1
  <2> DEFINE w == W(i)
             T == v[1] * W(0)
             u == v[i]
             u2 == v[i + 1]
             a1 == x[i]
             b1 == y[i]
             c1 == z[i]
  <2> HIDE DEF i
  <2>3. /\ w \in Nat /\ W(k) = 256 * w /\ T \in Nat /\ u \in Nat /\ u2 \in Nat
        /\ a1 \in Nat /\ b1 \in Nat /\ c1 \in Nat /\ u2 + a1 + b1 = 256 * u + c1
    <3>1. w \in Nat /\ W(i - 1) = 256 * w
      BY <1>9, <1>10, <2>2
    <3>2. u \in {0, 1} /\ u2 \in {0, 1} /\ z[i] \in Byte /\ u2 + a1 + b1 = 256 * u + c1
      BY <1>6, <2>2 DEF F
    <3>3. a1 \in Nat /\ b1 \in Nat /\ c1 \in Nat
      BY <2>2, <3>2, BytesAre, ByteIs DEF F
    <3> HIDE DEF w, T, u, u2, a1, b1, c1
    <3> QED BY <1>12, <2>2, <3>1, <3>2, <3>3 DEF T
  <2>4. /\ p[i] = p[k] + a1 * w /\ q[i] = q[k] + b1 * w /\ r[i] = r[k] + c1 * w
        /\ p[k] \in Nat /\ q[k] \in Nat /\ r[k] \in Nat /\ r[k] + T = p[k] + q[k] + u * W(k)
    BY <1>8, <2>2
  <2> HIDE DEF w, T, u, u2, a1, b1, c1
  <2>5. u2 * w + a1 * w + b1 * w = u * (256 * w) + c1 * w
    <3>1. (u2 + a1 + b1) * w = u2 * w + a1 * w + b1 * w
      BY <2>3
    <3>2. (256 * u + c1) * w = u * (256 * w) + c1 * w
      BY <2>3
    <3> QED BY <2>3, <3>1, <3>2
  <2>6. u2 * w \in Nat /\ a1 * w \in Nat /\ b1 * w \in Nat /\ c1 * w \in Nat /\ u * (256 * w) \in Nat
    BY <2>3, Product
  <2>7. r[i] + T = p[i] + q[i] + u2 * w
    <3> DEFINE e == u * (256 * w)
               a2 == a1 * w
               b2 == b1 * w
               c2 == c1 * w
               u3 == u2 * w
    <3>1. u * W(k) = e
      BY <2>3
    <3>2. /\ p[i] = p[k] + a2 /\ q[i] = q[k] + b2 /\ r[i] = r[k] + c2
          /\ r[k] + T = p[k] + q[k] + e /\ u3 + a2 + b2 = e + c2
      BY <2>4, <2>5, <3>1
    <3>3. u3 \in Nat /\ a2 \in Nat /\ b2 \in Nat /\ c2 \in Nat /\ e \in Nat
      BY <2>6
    <3> HIDE DEF e, a2, b2, c2, u3
    <3>4. r[i] + T = p[i] + q[i] + u3
      BY <2>3, <2>4, <3>2, <3>3
    <3> QED BY <3>4 DEF u3
  <2> QED BY <2>7 DEF i, w, T, u2
<1>15. F \in D
  <2> HIDE DEF D
  <2> QED BY <1>2, <1>13, <1>14, AllNumbers
<1>16. r[F] + v[1] * W(0) = p[F] + q[F] + v[F + 1] * W(F)
  BY <1>2, <1>15
<1>17. W(0) = Weight[FoldSize] /\ W(F) = 1
  <2>1. F - 0 = F /\ F - F = 0 /\ Weight[0] = 1
    BY <1>2, WeightIs DEF Weighs
  <2> QED BY <2>1 DEF W, F
<1>18. v[F + 1] * W(F) = c
  BY <1>3, <1>17
<1>19. v[1] \in {0, 1}
  BY <1>3, <1>11
<1>20. Val(x) = p[F] /\ Val(y) = q[F] /\ Val(z) = r[F]
  BY DEF Val, p, q, r, F
<1> QED BY <1>4, <1>7, <1>16, <1>17, <1>18, <1>19, <1>20 DEF z

(* With the carry added at the end nothing is carried again. *)
LEMMA RoundAddIs ==
  ASSUME NEW x \in Block, NEW y \in Block
  PROVE  RoundAdd(x, y) \in Block /\ Same(Val(RoundAdd(x, y)), Val(x) + Val(y))
<1> DEFINE a == AddCarrying(x, y, 0)
           b == AddCarrying(x, y, a.carry)
           s == Val(a.sum)
           t == Val(b.sum)
           c == a.carry
           d == b.carry
           u == Val(x)
           w == Val(y)
<1>1. a.sum \in Block /\ c \in {0, 1} /\ s + c * Weight[FoldSize] = u + w + 0
  <2>1. 0 \in {0, 1}
    OBVIOUS
  <2> HIDE DEF a
  <2> QED BY <2>1, AddIs DEF a
<1>2. b.sum \in Block /\ d \in {0, 1} /\ t + d * Weight[FoldSize] = u + w + c
  <2> HIDE DEF b, a
  <2> QED BY <1>1, AddIs DEF b
<1>3. s \in 0 .. Top /\ t \in 0 .. Top /\ u \in 0 .. Top /\ w \in 0 .. Top
  BY <1>1, <1>2, ValBelow
<1>4. RoundAdd(x, y) = b.sum
  BY DEF RoundAdd
<1> HIDE DEF a, b
<1> HIDE DEF s, t, c, d, u, w
<1>5. Top \in Nat \ {0} /\ Weight[FoldSize] = Top + 1
  BY TopIs
<1>6. CASE c = 0
  <2>1. u + w = s /\ t + d * (Top + 1) = u + w
    <3>1. 0 * (Top + 1) = 0
      BY <1>5
    <3> QED BY <1>1, <1>2, <1>3, <1>5, <1>6, <3>1
  <2>2. d # 1
    <3>1. SUFFICES ASSUME d = 1 PROVE FALSE
      OBVIOUS
    <3>2. d * (Top + 1) = Top + 1
      BY <1>5, <3>1
    <3> QED BY <1>3, <1>5, <2>1, <3>2
  <2>3. t = u + w
    <3>1. d * (Top + 1) = 0
      BY <1>2, <1>5, <2>2
    <3> QED BY <1>3, <2>1, <3>1
  <2>4. u + w \in Nat
    BY <1>3, <1>5
  <2> QED BY <1>2, <1>4, <2>3, <2>4, SameAs DEF t, u, w
<1>7. CASE c = 1
  <2>1. c * (Top + 1) = Top + 1
    BY <1>5, <1>7
  <2>2. s + Top + 1 = u + w
    BY <1>1, <1>3, <1>5, <2>1
  <2>3. d # 0
    <3>1. SUFFICES ASSUME d = 0 PROVE FALSE
      OBVIOUS
    <3>2. d * (Top + 1) = 0
      BY <1>5, <3>1
    <3> QED BY <1>2, <1>3, <1>5, <1>7, <2>2, <3>2
  <2>4. d * (Top + 1) = Top + 1
    BY <1>2, <1>5, <2>3
  <2>5. t = s + 1 /\ u + w = s + (Top + 1)
    BY <1>2, <1>3, <1>5, <1>7, <2>2, <2>4
  <2>6. Same(s + 1, s + 1 * Weight[FoldSize])
    <3>1. s \in Nat /\ 1 \in Nat
      BY <1>3, <1>5
    <3> QED BY <3>1, SameTurn
  <2>7. s + 1 * Weight[FoldSize] = u + w
    BY <1>3, <1>5, <2>5
  <2> QED BY <1>2, <1>4, <2>5, <2>6, <2>7 DEF t, u, w
<1> QED BY <1>1, <1>6, <1>7

(* The bytes of the copies, one block after another.                         *)
BlockOf(s, k) == [i \in 1 .. FoldSize |-> CopyByte(s, ((k - 1) * FoldSize) + i - 1)]

LEMMA BlockAdds ==
  ASSUME NEW s, BytesOf(s), NEW B \in Nat, NEW k \in 1 .. B
  PROVE  /\ BlockOf(s, k) \in Block
         /\ Total(s, FoldSize * B)[FoldSize * k]
              = Total(s, FoldSize * B)[FoldSize * (k - 1)] + Val(BlockOf(s, k))
         /\ Total(s, FoldSize * B)[FoldSize * (k - 1)] \in Nat
<1> DEFINE m == FoldSize * B
           o == FoldSize * (k - 1)
           F == FoldSize
           t == Total(s, m)
           x == BlockOf(s, k)
           v == Parts(x)
           D == {i \in Nat : i <= F => t[o + i] = t[o] + v[i]}
<1>1. F \in Nat \ {0} /\ o \in Nat /\ m \in Nat /\ o + F = FoldSize * k /\ o + F <= m
  <2>1. F \in Nat \ {0} /\ k - 1 \in Nat /\ B - k \in Nat
    BY Fold
  <2>2. o \in Nat /\ m \in Nat /\ F * (B - k) \in Nat
    BY <2>1, Product
  <2>3. F * (k - 1) + F = F * k /\ F * k + F * (B - k) = F * B /\ F * k \in Int
    BY <2>1
  <2> HIDE DEF F
  <2>4. o + F = F * k /\ m = F * k + F * (B - k)
    BY <2>3 DEF F
  <2> HIDE DEF o, m
  <2> QED BY <2>1, <2>2, <2>3, <2>4 DEF F
<1>2. \A i \in 0 .. F - 1 : x[i + 1] = CopyByte(s, o + i)
  <2>1. ASSUME NEW i \in 0 .. F - 1 PROVE x[i + 1] = CopyByte(s, o + i)
    <3>1. i + 1 \in 1 .. FoldSize /\ ((k - 1) * FoldSize) + (i + 1) - 1 = o + i
      <4>1. (k - 1) * FoldSize = o
        BY <1>1
      <4> HIDE DEF o
      <4> QED BY <1>1, <4>1
    <3> HIDE DEF o
    <3> QED BY <3>1 DEF BlockOf
  <2> QED BY <2>1
<1>3. x = [i \in 1 .. F |-> x[i]]
  BY DEF BlockOf
<1> HIDE DEF x, o, m
<1>4. x \in Block
  <2>1. ASSUME NEW i \in 1 .. F PROVE x[i] \in Byte
    <3>1. i - 1 \in 0 .. F - 1 /\ (i - 1) + 1 = i /\ o + (i - 1) \in Nat
      BY <1>1
    <3>2. x[i] = CopyByte(s, o + (i - 1))
      BY <1>2, <3>1
    <3> QED BY <3>1, <3>2 DEF BytesOf
  <2> QED BY <1>3, <2>1 DEF Block
<1>5. /\ t \in [0 .. m -> Nat]
      /\ \A l \in 0 .. m - 1 : t[l + 1] = t[l] + CopyWeight(s, l) /\ CopyWeight(s, l) \in Nat
  BY <1>1, TotalIs
<1>6. /\ v[0] = 0 /\ \A i \in 0 .. F : v[i] \in Nat
      /\ \A i \in 1 .. F : v[i] = v[i - 1] + x[i] * Weight[F - i]
  BY <1>4, PartsAre
<1> HIDE DEF t, v
<1>7. t[o] \in Nat
  <2>1. o \in 0 .. m
    BY <1>1
  <2> QED BY <1>5, <2>1
<1>8. 0 \in D
  <2>1. o + 0 = o
    BY <1>1
  <2> QED BY <1>6, <1>7, <2>1
<1>9. ASSUME NEW i \in Nat, i \in D PROVE i + 1 \in D
  <2>1. SUFFICES ASSUME i + 1 <= F PROVE t[o + (i + 1)] = t[o] + v[i + 1]
    OBVIOUS
  <2> DEFINE j == i + 1
  <2>2. j \in 1 .. F /\ j - 1 = i /\ i \in 0 .. F - 1 /\ i \in 0 .. F /\ F - j = F - 1 - i
        /\ o + j = (o + i) + 1 /\ o + i \in 0 .. m - 1 /\ o + i \in Nat /\ t[o + i] = t[o] + v[i]
    BY <1>1, <1>9, <2>1
  <2>3. (o + i) % F = i
    <3> DEFINE a == o + i
    <3>1. a = F * (k - 1) + i /\ k - 1 \in Int /\ a \in Int
      BY <1>1 DEF o
    <3> HIDE DEF a, F, D, j
    <3>2. a % F = i
      BY <1>1, <2>2, <3>1, Remains
    <3> QED BY <3>2 DEF a
  <2>4. CopyWeight(s, o + i) = x[j] * Weight[F - j]
    <3>1. x[j] = CopyByte(s, o + i)
      BY <1>2, <2>2
    <3> QED BY <2>2, <2>3, <3>1 DEF CopyWeight
  <2>5. t[(o + i) + 1] = t[o + i] + CopyWeight(s, o + i) /\ CopyWeight(s, o + i) \in Nat
    BY <1>5, <2>2
  <2>6. v[j] = v[i] + x[j] * Weight[F - j] /\ v[i] \in Nat
    BY <1>6, <2>2
  <2> DEFINE e == x[j] * Weight[F - j]
  <2> HIDE DEF e
  <2>7. t[(o + i) + 1] = (t[o] + v[i]) + e /\ v[j] = v[i] + e /\ v[i] \in Nat /\ e \in Nat
    BY <2>2, <2>4, <2>5, <2>6 DEF e
  <2> HIDE DEF j
  <2>8. t[o + j] = t[o] + v[j]
    BY <1>7, <2>2, <2>7
  <2> QED BY <2>8 DEF j
<1>10. F \in D
  <2> HIDE DEF D
  <2> QED BY <1>1, <1>8, <1>9, AllNumbers
<1>11. t[o + F] = t[o] + v[F]
  BY <1>1, <1>10
<1>12. t[FoldSize * k] = t[o] + Val(x)
  BY <1>1, <1>11 DEF Val, v
<1> QED BY <1>4, <1>7, <1>12 DEF t, o, m, x

LEMMA FoldOfIs ==
  ASSUME NEW s, BytesOf(s), \A l \in Nat : ByteOfBits(s, l) = CopyByte(s, l),
         NEW B \in Nat \ {0}, Len(s) \div Gcd(Len(s), FoldSize) = B
  PROVE  /\ NFoldOf(s) \in Block /\ Same(Val(NFoldOf(s)), Total(s, FoldSize * B)[FoldSize * B])
         /\ B = 1 => NFoldOf(s) = BlockOf(s, 1)
<1> DEFINE blocks == Len(s) \div Gcd(Len(s), FoldSize)
           add[k \in 1 .. blocks] ==
             LET block == [i \in 1 .. FoldSize |-> ByteOfBits(s, ((k - 1) * FoldSize) + i - 1)]
             IN IF k = 1 THEN block ELSE RoundAdd(add[k - 1], block)
           m == FoldSize * B
           t == Total(s, m)
           x == BlockOf(s, 1)
           Next1(y, k) == RoundAdd(y, BlockOf(s, k))
           step == [k \in 1 .. B - 1 |-> [y \in Block |-> Next1(y, k + 1)]]
<1>1. NFoldOf(s) = add[blocks]
  BY Zenon DEF NFoldOf
<1> HIDE DEF add
<1>2. blocks = B
  OBVIOUS
<1> HIDE DEF blocks
<1>3. \A k \in 1 .. B : BlockOf(s, k) \in Block
  BY BlockAdds
<1>4. ASSUME NEW k \in 1 .. B
      PROVE  [i \in 1 .. FoldSize |-> ByteOfBits(s, ((k - 1) * FoldSize) + i - 1)] = BlockOf(s, k)
  <2>1. \A i \in 1 .. FoldSize : ((k - 1) * FoldSize) + i - 1 \in Nat
    <3>1. (k - 1) * FoldSize \in Nat
      <4>1. k - 1 \in Nat /\ FoldSize \in Nat
        BY Fold
      <4> QED BY <4>1, Product
    <3> QED BY <3>1
  <2> QED BY <2>1, Zenon DEF BlockOf
<1>5. \A k \in 1 .. B - 1 : \A y \in Block : step[k][y] = Next1(y, k + 1) /\ step[k][y] \in Block
  <2>1. ASSUME NEW k \in 1 .. B - 1, NEW y \in Block PROVE Next1(y, k + 1) \in Block
    <3>1. k + 1 \in 1 .. B
      OBVIOUS
    <3> QED BY <1>3, <3>1, RoundAddIs
  <2> HIDE DEF Next1
  <2> QED BY <2>1
<1>6. x \in Block
  <2>1. 1 \in 1 .. B
    OBVIOUS
  <2> QED BY <1>3, <2>1
<1> HIDE DEF x, step, Next1
<1>7. PICK g \in [0 .. B - 1 -> Block] : LoopOf(g, B - 1, x, step)
  <2>1. StaysIn(step, B - 1, Block) /\ B - 1 \in Nat
    BY <1>5 DEF StaysIn
  <2> QED BY <1>6, <2>1, LoopIs
<1>8. g[0] = x /\ \A k \in 1 .. B - 1 : g[k] = Next1(g[k - 1], k + 1)
  <2>1. \A k \in 0 .. B - 1 : g[k] = IF k = 0 THEN x ELSE step[k][g[k - 1]]
    BY <1>7, Zenon DEF LoopOf
  <2>2. \A k \in 1 .. B - 1 : k \in 0 .. B - 1 /\ k # 0 /\ g[k - 1] \in Block
    OBVIOUS
  <2>3. 0 \in 0 .. B - 1
    OBVIOUS
  <2> QED BY <1>5, <2>1, <2>2, <2>3, Zenon
<1> DEFINE h == [k \in 1 .. B |-> g[k - 1]]
<1>9. \A k \in 1 .. B : h[k] = IF k = 1 THEN x ELSE Next1(h[k - 1], k)
  <2>1. ASSUME NEW k \in 1 .. B PROVE h[k] = IF k = 1 THEN x ELSE Next1(h[k - 1], k)
    <3>1. CASE k = 1
      BY <1>8, <3>1
    <3>2. CASE k # 1
      <4> DEFINE j == k - 1
      <4>1. j \in 1 .. B - 1 /\ j + 1 = k /\ h[k] = g[j] /\ h[k - 1] = g[j - 1]
        BY <3>2
      <4> HIDE DEF j, h
      <4>2. g[j] = Next1(g[j - 1], j + 1)
        BY <1>8, <4>1
      <4> QED BY <3>2, <4>1, <4>2
    <3> QED BY <3>1, <3>2
  <2> QED BY <2>1
<1>10. h = [k \in 1 .. B |-> h[k]]
  OBVIOUS
<1> HIDE DEF h
<1>11. h = [k \in 1 .. blocks |->
             LET block == [i \in 1 .. FoldSize |-> ByteOfBits(s, ((k - 1) * FoldSize) + i - 1)]
             IN IF k = 1 THEN block ELSE RoundAdd(h[k - 1], block)]
  <2>1. ASSUME NEW k \in 1 .. B
        PROVE  h[k] = LET block == [i \in 1 .. FoldSize |-> ByteOfBits(s, ((k - 1) * FoldSize) + i - 1)]
                      IN IF k = 1 THEN block ELSE RoundAdd(h[k - 1], block)
    <3> DEFINE b == [i \in 1 .. FoldSize |-> ByteOfBits(s, ((k - 1) * FoldSize) + i - 1)]
    <3>1. b = BlockOf(s, k)
      BY <1>4
    <3>2. h[k] = IF k = 1 THEN x ELSE Next1(h[k - 1], k)
      BY <1>9
    <3> HIDE DEF b
    <3>3. h[k] = IF k = 1 THEN b ELSE RoundAdd(h[k - 1], b)
      <4>1. CASE k = 1
        BY <3>1, <3>2, <4>1 DEF x
      <4>2. CASE k # 1
        BY <3>1, <3>2, <4>2 DEF Next1
      <4> QED BY <4>1, <4>2
    <3> QED BY <3>3 DEF b
  <2> QED BY <1>2, <1>10, <2>1, Zenon
<1>12. \E f : f = [k \in 1 .. blocks |->
             LET block == [i \in 1 .. FoldSize |-> ByteOfBits(s, ((k - 1) * FoldSize) + i - 1)]
             IN IF k = 1 THEN block ELSE RoundAdd(f[k - 1], block)]
  BY <1>11, Zenon
<1>13. add = [k \in 1 .. blocks |->
             LET block == [i \in 1 .. FoldSize |-> ByteOfBits(s, ((k - 1) * FoldSize) + i - 1)]
             IN IF k = 1 THEN block ELSE RoundAdd(add[k - 1], block)]
  BY <1>12, Zenon DEF add
<1>14. \A k \in 1 .. B : add[k] = IF k = 1 THEN x ELSE Next1(add[k - 1], k)
  <2>1. ASSUME NEW k \in 1 .. B PROVE add[k] = IF k = 1 THEN x ELSE Next1(add[k - 1], k)
    <3> DEFINE b == [i \in 1 .. FoldSize |-> ByteOfBits(s, ((k - 1) * FoldSize) + i - 1)]
    <3>1. b = BlockOf(s, k)
      BY <1>4
    <3>2. add[k] = IF k = 1 THEN b ELSE RoundAdd(add[k - 1], b)
      BY <1>2, <1>13, Zenon
    <3> HIDE DEF b
    <3>3. CASE k = 1
      BY <3>1, <3>2, <3>3 DEF x
    <3>4. CASE k # 1
      BY <3>1, <3>2, <3>4 DEF Next1
    <3> QED BY <3>3, <3>4
  <2> QED BY <2>1
<1> DEFINE G(k) == add[k] \in Block /\ Same(Val(add[k]), t[FoldSize * k])
           D == {k \in Nat : k + 1 <= B => G(k + 1)}
<1>15. \A k \in 1 .. B : /\ t[FoldSize * k] = t[FoldSize * (k - 1)] + Val(BlockOf(s, k))
                         /\ t[FoldSize * (k - 1)] \in Nat
  BY BlockAdds
<1>16. \A k \in 1 .. B : Val(BlockOf(s, k)) \in Nat
  BY <1>3, ValBelow, TopIs
<1>17. t[0] = 0
  <2>1. m \in Nat
    BY Fold, Product
  <2> HIDE DEF m
  <2> QED BY <2>1, TotalIs
<1> HIDE DEF t, m
<1>18. 0 \in D
  <2>1. 1 \in 1 .. B /\ FoldSize * (1 - 1) = 0 /\ 0 + 1 = 1
    BY Fold
  <2>2. add[1] = x
    BY <1>14, <2>1
  <2>3. t[FoldSize * 1] = t[FoldSize * (1 - 1)] + Val(BlockOf(s, 1)) /\ Val(BlockOf(s, 1)) \in Nat
    BY <1>15, <1>16, <2>1
  <2>4. t[FoldSize * 1] = Val(x) /\ Val(x) \in Nat
    BY <1>17, <2>1, <2>3 DEF x
  <2> QED BY <1>6, <2>1, <2>2, <2>4, SameAs
<1>19. ASSUME NEW j \in Nat, j \in D PROVE j + 1 \in D
  <2>1. SUFFICES ASSUME (j + 1) + 1 <= B PROVE G((j + 1) + 1)
    OBVIOUS
  <2> DEFINE k == (j + 1) + 1
             y == add[k - 1]
             b == BlockOf(s, k)
             T == t[FoldSize * (k - 1)]
  <2>2. k \in 1 .. B /\ k # 1 /\ k - 1 = j + 1 /\ G(k - 1)
    BY <1>19, <2>1
  <2> HIDE DEF k, D
  <2>3. add[k] = RoundAdd(y, b) /\ y \in Block /\ b \in Block
    BY <1>3, <1>14, <2>2 DEF Next1
  <2>4. t[FoldSize * k] = T + Val(b) /\ Same(Val(y), T) /\ Val(b) \in Nat
    BY <1>15, <1>16, <2>2
  <2> HIDE DEF G
  <2>5. add[k] \in Block /\ Same(Val(add[k]), Val(y) + Val(b))
    <3> HIDE DEF y, b
    <3> QED BY <2>3, RoundAddIs
  <2>6. Same(Val(y) + Val(b), T + Val(b))
    <3> HIDE DEF y, b, T
    <3> QED BY <2>4, SameAdds
  <2>7. Same(Val(add[k]), t[FoldSize * k])
    BY <2>4, <2>5, <2>6, SameThen
  <2>8. G(k)
    BY <2>5, <2>7 DEF G
  <2> QED BY <2>8 DEF k
<1>20. B - 1 \in Nat /\ (B - 1) + 1 = B
  OBVIOUS
<1>21. B - 1 \in D
  <2> HIDE DEF D
  <2> QED BY <1>18, <1>19, <1>20, AllNumbers
<1>22. G(B)
  BY <1>20, <1>21
<1>23. B = 1 => add[B] = x
  BY <1>14
<1> QED BY <1>1, <1>2, <1>22, <1>23 DEF t, m, x

(* The bits of a byte, the highest first, and shifts of them.                *)
LEMMA Powers == /\ 2 ^ 0 = 1 /\ 2 ^ 1 = 2 /\ 2 ^ 2 = 4 /\ 2 ^ 3 = 8 /\ 2 ^ 4 = 16 /\ 2 ^ 5 = 32
                /\ 2 ^ 6 = 64 /\ 2 ^ 7 = 128 /\ 2 ^ 8 = 256
OBVIOUS

LEMMA Halves ==
  ASSUME NEW z \in 0 .. 255
  PROVE  /\ z \div 1 = z /\ z = 2 * (z \div 2) + ((z \div 1) % 2)
         /\ z \div 2 = 2 * (z \div 4) + ((z \div 2) % 2)
         /\ z \div 4 = 2 * (z \div 8) + ((z \div 4) % 2)
         /\ z \div 8 = 2 * (z \div 16) + ((z \div 8) % 2)
         /\ z \div 16 = 2 * (z \div 32) + ((z \div 16) % 2)
         /\ z \div 32 = 2 * (z \div 64) + ((z \div 32) % 2)
         /\ z \div 64 = 2 * (z \div 128) + ((z \div 64) % 2)
         /\ z \div 128 = (z \div 128) % 2
OBVIOUS

LEMMA Lasts ==
  ASSUME NEW z \in 0 .. 255
  PROVE  /\ (z * 256) % 256 = 0
         /\ (z * 128) % 256 = 128 * (z - 2 * (z \div 2))
         /\ (z * 64) % 256 = 64 * (z - 4 * (z \div 4))
         /\ (z * 32) % 256 = 32 * (z - 8 * (z \div 8))
         /\ (z * 16) % 256 = 16 * (z - 16 * (z \div 16))
         /\ (z * 8) % 256 = 8 * (z - 32 * (z \div 32))
         /\ (z * 4) % 256 = 4 * (z - 64 * (z \div 64))
         /\ (z * 2) % 256 = 2 * (z - 128 * (z \div 128))
OBVIOUS

BitOf(z, e) == (z \div 2 ^ (7 - e)) % 2
SumOf(c) == 128 * c[0] + 64 * c[1] + 32 * c[2] + 16 * c[3] + 8 * c[4] + 4 * c[5] + 2 * c[6] + c[7]

LEMMA BitsAre ==
  ASSUME NEW z \in 0 .. 255
  PROVE  \E h \in [0 .. 8 -> Nat] :
           /\ h[0] = z /\ h[1] = z \div 2 /\ h[2] = z \div 4 /\ h[3] = z \div 8 /\ h[4] = z \div 16
           /\ h[5] = z \div 32 /\ h[6] = z \div 64 /\ h[7] = z \div 128 /\ h[8] = 0
           /\ BitOf(z, 7) = h[0] - 2 * h[1] /\ BitOf(z, 6) = h[1] - 2 * h[2]
           /\ BitOf(z, 5) = h[2] - 2 * h[3] /\ BitOf(z, 4) = h[3] - 2 * h[4]
           /\ BitOf(z, 3) = h[4] - 2 * h[5] /\ BitOf(z, 2) = h[5] - 2 * h[6]
           /\ BitOf(z, 1) = h[6] - 2 * h[7] /\ BitOf(z, 0) = h[7] - 2 * h[8]
<1> DEFINE h == [i \in 0 .. 8 |-> CASE i = 0 -> z [] i = 1 -> z \div 2 [] i = 2 -> z \div 4
                                  [] i = 3 -> z \div 8 [] i = 4 -> z \div 16 [] i = 5 -> z \div 32
                                  [] i = 6 -> z \div 64 [] i = 7 -> z \div 128 [] i = 8 -> 0]
<1>1. /\ z \div 2 \in Nat /\ z \div 4 \in Nat /\ z \div 8 \in Nat /\ z \div 16 \in Nat
      /\ z \div 32 \in Nat /\ z \div 64 \in Nat /\ z \div 128 \in Nat /\ z \in Nat
  OBVIOUS
<1>2. /\ h[0] = z /\ h[1] = z \div 2 /\ h[2] = z \div 4 /\ h[3] = z \div 8 /\ h[4] = z \div 16
      /\ h[5] = z \div 32 /\ h[6] = z \div 64 /\ h[7] = z \div 128 /\ h[8] = 0
  OBVIOUS
<1>3. h \in [0 .. 8 -> Nat]
  <2>1. ASSUME NEW i \in 0 .. 8 PROVE h[i] \in Nat
    <3>1. \/ i = 0 \/ i = 1 \/ i = 2 \/ i = 3 \/ i = 4 \/ i = 5 \/ i = 6 \/ i = 7 \/ i = 8
      OBVIOUS
    <3> HIDE DEF h
    <3> QED BY <1>1, <1>2, <3>1
  <2> QED BY <2>1
<1> HIDE DEF h
<1>4. /\ BitOf(z, 7) = (z \div 1) % 2 /\ BitOf(z, 6) = (z \div 2) % 2 /\ BitOf(z, 5) = (z \div 4) % 2
      /\ BitOf(z, 4) = (z \div 8) % 2 /\ BitOf(z, 3) = (z \div 16) % 2 /\ BitOf(z, 2) = (z \div 32) % 2
      /\ BitOf(z, 1) = (z \div 64) % 2 /\ BitOf(z, 0) = (z \div 128) % 2
  BY Powers DEF BitOf
<1>5. /\ BitOf(z, 7) = h[0] - 2 * h[1] /\ BitOf(z, 6) = h[1] - 2 * h[2]
      /\ BitOf(z, 5) = h[2] - 2 * h[3] /\ BitOf(z, 4) = h[3] - 2 * h[4]
      /\ BitOf(z, 3) = h[4] - 2 * h[5] /\ BitOf(z, 2) = h[5] - 2 * h[6]
      /\ BitOf(z, 1) = h[6] - 2 * h[7] /\ BitOf(z, 0) = h[7] - 2 * h[8]
  BY <1>1, <1>2, <1>4, Halves
<1> QED BY <1>2, <1>3, <1>5

(* Bits that are the last rr of x before the first of y.                     *)
HasBits(c, x, y, rr) ==
  /\ x \in 0 .. 255 /\ y \in 0 .. 255 /\ rr \in 0 .. 7
  /\ \A i \in 0 .. 7 : c[i] = IF i < rr THEN BitOf(x, 8 + i - rr) ELSE BitOf(y, i - rr)

(* They make a byte that shifts compute.                                     *)
SumIsShift(c, x, y, rr) == SumOf(c) = ((x * 2 ^ (8 - rr)) % 256) + (y \div 2 ^ rr)

LEMMA Shifted ==
  ASSUME NEW x, NEW y, NEW rr, NEW c, HasBits(c, x, y, rr)
  PROVE  SumIsShift(c, x, y, rr)
<1>a. /\ x \in 0 .. 255 /\ y \in 0 .. 255 /\ rr \in 0 .. 7
      /\ \A i \in 0 .. 7 : c[i] = IF i < rr THEN BitOf(x, 8 + i - rr) ELSE BitOf(y, i - rr)
  BY DEF HasBits
<1> USE <1>a
<1>z. SUFFICES SumOf(c) = ((x * 2 ^ (8 - rr)) % 256) + (y \div 2 ^ rr)
  BY DEF SumIsShift
<1>1. PICK g \in [0 .. 8 -> Nat] :
        /\ g[0] = x /\ g[1] = x \div 2 /\ g[2] = x \div 4 /\ g[3] = x \div 8 /\ g[4] = x \div 16
        /\ g[5] = x \div 32 /\ g[6] = x \div 64 /\ g[7] = x \div 128 /\ g[8] = 0
        /\ BitOf(x, 7) = g[0] - 2 * g[1] /\ BitOf(x, 6) = g[1] - 2 * g[2]
        /\ BitOf(x, 5) = g[2] - 2 * g[3] /\ BitOf(x, 4) = g[3] - 2 * g[4]
        /\ BitOf(x, 3) = g[4] - 2 * g[5] /\ BitOf(x, 2) = g[5] - 2 * g[6]
        /\ BitOf(x, 1) = g[6] - 2 * g[7] /\ BitOf(x, 0) = g[7] - 2 * g[8]
  BY BitsAre
<1>2. PICK h \in [0 .. 8 -> Nat] :
        /\ h[0] = y /\ h[1] = y \div 2 /\ h[2] = y \div 4 /\ h[3] = y \div 8 /\ h[4] = y \div 16
        /\ h[5] = y \div 32 /\ h[6] = y \div 64 /\ h[7] = y \div 128 /\ h[8] = 0
        /\ BitOf(y, 7) = h[0] - 2 * h[1] /\ BitOf(y, 6) = h[1] - 2 * h[2]
        /\ BitOf(y, 5) = h[2] - 2 * h[3] /\ BitOf(y, 4) = h[3] - 2 * h[4]
        /\ BitOf(y, 3) = h[4] - 2 * h[5] /\ BitOf(y, 2) = h[5] - 2 * h[6]
        /\ BitOf(y, 1) = h[6] - 2 * h[7] /\ BitOf(y, 0) = h[7] - 2 * h[8]
  BY BitsAre
<1>3. \A i \in 0 .. 8 : g[i] \in Nat /\ h[i] \in Nat
  OBVIOUS
<1>4. CASE rr = 0
  <2>1. /\ c[0] = BitOf(y, 0) /\ c[1] = BitOf(y, 1) /\ c[2] = BitOf(y, 2) /\ c[3] = BitOf(y, 3)
        /\ c[4] = BitOf(y, 4) /\ c[5] = BitOf(y, 5) /\ c[6] = BitOf(y, 6) /\ c[7] = BitOf(y, 7)
    BY <1>4
  <2>2. 2 ^ (8 - rr) = 256 /\ 2 ^ rr = 1
    BY <1>4, Powers
  <2>3. ((x * 256) % 256) + (y \div 1) = 0 + h[0]
    BY <1>1, <1>2, Lasts, Halves
  <2>4. SumOf(c) = 0 + h[0]
    BY <1>1, <1>2, <1>3, <2>1 DEF SumOf
  <2> QED BY <2>2, <2>3, <2>4
<1>5. CASE rr = 1
  <2>1. /\ c[0] = BitOf(x, 7) /\ c[1] = BitOf(y, 0) /\ c[2] = BitOf(y, 1) /\ c[3] = BitOf(y, 2)
        /\ c[4] = BitOf(y, 3) /\ c[5] = BitOf(y, 4) /\ c[6] = BitOf(y, 5) /\ c[7] = BitOf(y, 6)
    BY <1>5
  <2>2. 2 ^ (8 - rr) = 128 /\ 2 ^ rr = 2
    BY <1>5, Powers
  <2>3. ((x * 128) % 256) + (y \div 2) = 128 * (g[0] - 2 * g[1]) + h[1]
    BY <1>1, <1>2, Lasts, Halves
  <2>4. SumOf(c) = 128 * (g[0] - 2 * g[1]) + h[1]
    BY <1>1, <1>2, <1>3, <2>1 DEF SumOf
  <2> QED BY <2>2, <2>3, <2>4
<1>6. CASE rr = 2
  <2>1. /\ c[0] = BitOf(x, 6) /\ c[1] = BitOf(x, 7) /\ c[2] = BitOf(y, 0) /\ c[3] = BitOf(y, 1)
        /\ c[4] = BitOf(y, 2) /\ c[5] = BitOf(y, 3) /\ c[6] = BitOf(y, 4) /\ c[7] = BitOf(y, 5)
    BY <1>6
  <2>2. 2 ^ (8 - rr) = 64 /\ 2 ^ rr = 4
    BY <1>6, Powers
  <2>3. ((x * 64) % 256) + (y \div 4) = 64 * (g[0] - 4 * g[2]) + h[2]
    BY <1>1, <1>2, Lasts, Halves
  <2>4. SumOf(c) = 64 * (g[0] - 4 * g[2]) + h[2]
    BY <1>1, <1>2, <1>3, <2>1 DEF SumOf
  <2> QED BY <2>2, <2>3, <2>4
<1>7. CASE rr = 3
  <2>1. /\ c[0] = BitOf(x, 5) /\ c[1] = BitOf(x, 6) /\ c[2] = BitOf(x, 7) /\ c[3] = BitOf(y, 0)
        /\ c[4] = BitOf(y, 1) /\ c[5] = BitOf(y, 2) /\ c[6] = BitOf(y, 3) /\ c[7] = BitOf(y, 4)
    BY <1>7
  <2>2. 2 ^ (8 - rr) = 32 /\ 2 ^ rr = 8
    BY <1>7, Powers
  <2>3. ((x * 32) % 256) + (y \div 8) = 32 * (g[0] - 8 * g[3]) + h[3]
    BY <1>1, <1>2, Lasts, Halves
  <2>4. SumOf(c) = 32 * (g[0] - 8 * g[3]) + h[3]
    BY <1>1, <1>2, <1>3, <2>1 DEF SumOf
  <2> QED BY <2>2, <2>3, <2>4
<1>8. CASE rr = 4
  <2>1. /\ c[0] = BitOf(x, 4) /\ c[1] = BitOf(x, 5) /\ c[2] = BitOf(x, 6) /\ c[3] = BitOf(x, 7)
        /\ c[4] = BitOf(y, 0) /\ c[5] = BitOf(y, 1) /\ c[6] = BitOf(y, 2) /\ c[7] = BitOf(y, 3)
    BY <1>8
  <2>2. 2 ^ (8 - rr) = 16 /\ 2 ^ rr = 16
    BY <1>8, Powers
  <2>3. ((x * 16) % 256) + (y \div 16) = 16 * (g[0] - 16 * g[4]) + h[4]
    BY <1>1, <1>2, Lasts, Halves
  <2>4. SumOf(c) = 16 * (g[0] - 16 * g[4]) + h[4]
    BY <1>1, <1>2, <1>3, <2>1 DEF SumOf
  <2> QED BY <2>2, <2>3, <2>4
<1>9. CASE rr = 5
  <2>1. /\ c[0] = BitOf(x, 3) /\ c[1] = BitOf(x, 4) /\ c[2] = BitOf(x, 5) /\ c[3] = BitOf(x, 6)
        /\ c[4] = BitOf(x, 7) /\ c[5] = BitOf(y, 0) /\ c[6] = BitOf(y, 1) /\ c[7] = BitOf(y, 2)
    BY <1>9
  <2>2. 2 ^ (8 - rr) = 8 /\ 2 ^ rr = 32
    BY <1>9, Powers
  <2>3. ((x * 8) % 256) + (y \div 32) = 8 * (g[0] - 32 * g[5]) + h[5]
    BY <1>1, <1>2, Lasts, Halves
  <2>4. SumOf(c) = 8 * (g[0] - 32 * g[5]) + h[5]
    BY <1>1, <1>2, <1>3, <2>1 DEF SumOf
  <2> QED BY <2>2, <2>3, <2>4
<1>10. CASE rr = 6
  <2>1. /\ c[0] = BitOf(x, 2) /\ c[1] = BitOf(x, 3) /\ c[2] = BitOf(x, 4) /\ c[3] = BitOf(x, 5)
        /\ c[4] = BitOf(x, 6) /\ c[5] = BitOf(x, 7) /\ c[6] = BitOf(y, 0) /\ c[7] = BitOf(y, 1)
    BY <1>10
  <2>2. 2 ^ (8 - rr) = 4 /\ 2 ^ rr = 64
    BY <1>10, Powers
  <2>3. ((x * 4) % 256) + (y \div 64) = 4 * (g[0] - 64 * g[6]) + h[6]
    BY <1>1, <1>2, Lasts, Halves
  <2>4. SumOf(c) = 4 * (g[0] - 64 * g[6]) + h[6]
    BY <1>1, <1>2, <1>3, <2>1 DEF SumOf
  <2> QED BY <2>2, <2>3, <2>4
<1>11. CASE rr = 7
  <2>1. /\ c[0] = BitOf(x, 1) /\ c[1] = BitOf(x, 2) /\ c[2] = BitOf(x, 3) /\ c[3] = BitOf(x, 4)
        /\ c[4] = BitOf(x, 5) /\ c[5] = BitOf(x, 6) /\ c[6] = BitOf(x, 7) /\ c[7] = BitOf(y, 0)
    BY <1>11
  <2>2. 2 ^ (8 - rr) = 2 /\ 2 ^ rr = 128
    BY <1>11, Powers
  <2>3. ((x * 2) % 256) + (y \div 128) = 2 * (g[0] - 128 * g[7]) + h[7]
    BY <1>1, <1>2, Lasts, Halves
  <2>4. SumOf(c) = 2 * (g[0] - 128 * g[7]) + h[7]
    BY <1>1, <1>2, <1>3, <2>1 DEF SumOf
  <2> QED BY <2>2, <2>3, <2>4
<1> QED BY <1>4, <1>5, <1>6, <1>7, <1>8, <1>9, <1>10, <1>11

(* Place l of the copies is byte m of copy r; bit i of it is, of the         *)
(* constant, bit e of byte b, when the copy is turned by R bits.             *)
CopyAt(n, r, m, l) == /\ n \in Nat \ {0} /\ r \in Nat /\ m \in 0 .. n - 1 /\ l \in Nat /\ l = n * r + m
CutAt(n, l, i, R, b, e) == /\ R \in Nat /\ e \in 0 .. 7 /\ b \in 0 .. n - 1
                           /\ \E u \in Int : (8 * l + i) - R = 8 * (n * u + b) + e
BitAt(n, r, m, l, i) == (8 * l + i) \div (8 * n) = r /\ (8 * l + i) % (8 * n) = 8 * m + i

LEMMA InCopy ==
  ASSUME NEW n, NEW r, NEW m, NEW l, CopyAt(n, r, m, l), NEW i \in 0 .. 7
  PROVE  BitAt(n, r, m, l, i)
<1> USE DEF CopyAt
<1> DEFINE w == 8 * n
           p == n * r
           x == 8 * l + i
           y == 8 * m + i
           P == w * r
<1>1. P = 8 * p /\ p \in Int /\ w \in Nat \ {0} /\ x \in Int /\ y \in 0 .. w - 1
  OBVIOUS
<1>2. l = p + m
  OBVIOUS
<1> HIDE DEF p, P
<1>3. x = P + y
  BY <1>1, <1>2
<1> HIDE DEF w, x, y
<1>4. x = w * r + y
  BY <1>3 DEF P
<1>5. x % w = y /\ x \div w = r
  BY <1>1, <1>4, Remains
<1> QED BY <1>5 DEF w, x, y, BitAt

LEMMA BitPlace ==
  ASSUME NEW n, NEW r, NEW m, NEW l, CopyAt(n, r, m, l), NEW i \in 0 .. 7,
         NEW R, NEW b, NEW e, CutAt(n, l, i, R, b, e)
  PROVE  (((8 * m + i) - R) % (8 * n)) \div 8 = b /\ (((8 * m + i) - R) % (8 * n)) % 8 = e
<1> USE DEF CopyAt
<1>a. PICK u \in Int : (8 * l + i) - R = 8 * (n * u + b) + e
  BY DEF CutAt
<1>b. R \in Nat /\ e \in 0 .. 7 /\ b \in 0 .. n - 1
  BY DEF CutAt
<1> DEFINE j == ((8 * m + i) - R) % (8 * n)
           w == 8 * n
           p == n * r
           t == n * u
           v == u - r
           x == (8 * m + i) - R
           y == 8 * b + e
           P == w * v
<1>1. P = 8 * t - 8 * p /\ p \in Int /\ t \in Int /\ P \in Int
  <2>1. w * u = 8 * t /\ w * r = 8 * p /\ w \in Int /\ p \in Int /\ t \in Int
    OBVIOUS
  <2>2. w * (u - r) = w * u - w * r /\ w * (u - r) \in Int
    OBVIOUS
  <2> QED BY <2>1, <2>2
<1>2. l = p + m /\ (8 * l + i) - R = 8 * (t + b) + e
  BY <1>a
<1>3. w \in Nat \ {0} /\ x \in Int /\ y \in 0 .. w - 1 /\ v \in Int
  BY <1>b
<1>c. j = x % w
  BY Zenon
<1> HIDE DEF p, t, P, j
<1>4. x = P + y
  BY <1>1, <1>2, <1>b
<1>5. y \div 8 = b /\ y % 8 = e
  BY <1>b
<1> HIDE DEF w, v, x, y
<1>6. x = w * v + y
  BY <1>4 DEF P
<1>7. j = y
  BY <1>3, <1>6, <1>c, Remains
<1> QED BY <1>5, <1>7 DEF j

(* The two bytes a byte of a copy is cut from. *)
Rot(s, l) == 13 * (l \div Len(s))
From(s, l) == (l - (Rot(s, l) \div 8) - 1) % Len(s)
Then(s, l) == (From(s, l) + 1) % Len(s)

LEMMA FromIs ==
  ASSUME NEW s \in Seq(Byte), Len(s) # 0, NEW l \in Nat
  PROVE  /\ Rot(s, l) \in Nat /\ Rot(s, l) \div 8 \in Nat /\ Rot(s, l) % 8 \in 0 .. 7
         /\ Rot(s, l) = 8 * (Rot(s, l) \div 8) + (Rot(s, l) % 8)
         /\ From(s, l) \in 0 .. Len(s) - 1 /\ Then(s, l) \in 0 .. Len(s) - 1
         /\ \E u \in Int : l - (Rot(s, l) \div 8) - 1 = Len(s) * u + From(s, l)
         /\ \E u \in Int : l - (Rot(s, l) \div 8) = Len(s) * u + Then(s, l)
         /\ s[From(s, l) + 1] \in Byte /\ s[Then(s, l) + 1] \in Byte
         /\ CopyByte(s, l) = ((s[From(s, l) + 1] * 2 ^ (8 - (Rot(s, l) % 8))) % 256)
                             + (s[Then(s, l) + 1] \div 2 ^ (Rot(s, l) % 8))
<1> DEFINE n == Len(s)
           R == Rot(s, l)
           q == R \div 8
           rr == R % 8
           ci == From(s, l)
           cj == Then(s, l)
           a == l - q - 1
           u == a \div n
<1>1. n \in Nat \ {0}
  OBVIOUS
<1>2. R \in Nat
  <2>1. l \div n \in Nat
    BY <1>1, Division
  <2> QED BY <2>1 DEF Rot
<1>3. CopyByte(s, l) = ((s[ci + 1] * 2 ^ (8 - rr)) % 256) + (s[cj + 1] \div 2 ^ rr)
  BY Zenon DEF CopyByte, From, Then, Rot
<1>4. ci = a % n /\ cj = (ci + 1) % n
  BY DEF From, Then
<1> HIDE DEF R, ci, cj
<1>5. q \in Nat /\ rr \in 0 .. 7 /\ R = 8 * q + rr
  BY <1>2
<1> HIDE DEF q, rr
<1>6. a \in Int /\ u \in Int /\ ci \in 0 .. n - 1 /\ a = n * u + ci
  BY <1>1, <1>4, <1>5
<1> HIDE DEF u, n
<1>7. cj \in 0 .. n - 1 /\ \E v \in Int : l - q = n * v + cj
  <2>1. CASE ci = n - 1
    <3>1. n * (u + 1) = n * u + n /\ n * u \in Int /\ u + 1 \in Int
      BY <1>1, <1>6
    <3>2. n = n * 1 + 0 /\ 0 \in 0 .. n - 1 /\ n \in Int /\ 1 \in Int
      BY <1>1
    <3>3. n % n = 0
      BY <1>1, <3>2, Remains
    <3>4. cj = 0
      BY <1>1, <1>4, <2>1, <3>3
    <3>5. l - q = n * (u + 1) + cj
      BY <1>1, <1>5, <1>6, <2>1, <3>1, <3>4
    <3> QED BY <3>1, <3>2, <3>4, <3>5
  <2>2. CASE ci # n - 1
    <3>1. n * 0 = 0 /\ ci + 1 \in 0 .. n - 1
      BY <1>1, <1>6, <2>2
    <3>2. ci + 1 = n * 0 + (ci + 1) /\ ci + 1 \in Int /\ 0 \in Int
      BY <1>6, <3>1
    <3>3. cj = ci + 1
      BY <1>1, <1>4, <3>1, <3>2, Remains
    <3>4. n * u \in Int
      BY <1>1, <1>6
    <3>5. l - q = n * u + cj
      BY <1>1, <1>5, <1>6, <3>3, <3>4
    <3> QED BY <1>6, <3>1, <3>3, <3>5
  <2> QED BY <2>1, <2>2
<1>8. s[ci + 1] \in Byte /\ s[cj + 1] \in Byte
  <2>1. ci + 1 \in 1 .. Len(s) /\ cj + 1 \in 1 .. Len(s)
    BY <1>1, <1>6, <1>7 DEF n
  <2> QED BY <2>1, ElementOfSeq
<1>9. \E v \in Int : a = n * v + ci
  BY <1>6
<1> QED BY <1>2, <1>3, <1>5, <1>6, <1>7, <1>8, <1>9 DEF R, q, rr, ci, cj, a, n

(* A byte of the copies has the bits the definition says. *)
LEMMA CopiesAre ==
  ASSUME NEW s \in Seq(Byte), Len(s) # 0, NEW l \in Nat, NEW i \in 0 .. 7
  PROVE  Copies(s, 8 * l + i) = IF i < Rot(s, l) % 8
                                THEN BitOf(s[From(s, l) + 1], 8 + i - (Rot(s, l) % 8))
                                ELSE BitOf(s[Then(s, l) + 1], i - (Rot(s, l) % 8))
<1> DEFINE n == Len(s)
           r == l \div n
           m == l % n
           R == Rot(s, l)
           q == R \div 8
           rr == R % 8
           ci == From(s, l)
           cj == Then(s, l)
<1>1. n \in Nat \ {0}
  OBVIOUS
<1>2. r \in Nat /\ m \in 0 .. n - 1 /\ l = n * r + m
  BY <1>1, Division
<1>3. /\ R \in Nat /\ q \in Nat /\ rr \in 0 .. 7 /\ R = 8 * q + rr
      /\ ci \in 0 .. n - 1 /\ cj \in 0 .. n - 1
      /\ (\E u \in Int : l - q - 1 = n * u + ci) /\ (\E u \in Int : l - q = n * u + cj)
  BY FromIs
<1>4. R = 13 * r
  BY DEF Rot
<1> HIDE DEF R, q, rr, ci, cj, r, m
<1> HIDE DEF n
<1>5. (8 * l + i) \div (8 * n) = r /\ (8 * l + i) % (8 * n) = 8 * m + i
  <2>1. CopyAt(n, r, m, l)
    BY <1>1, <1>2 DEF CopyAt
  <2>2. BitAt(n, r, m, l, i)
    BY <2>1, InCopy, Zenon
  <2> QED BY <2>2, Zenon DEF BitAt
<1> DEFINE j == ((8 * m + i) - R) % (8 * n)
<1>6. Copies(s, 8 * l + i) = (s[(j \div 8) + 1] \div 2 ^ (7 - (j % 8))) % 2
  <2>1. Copies(s, 8 * l + i) = Turned(s, (8 * l + i) \div (8 * n), (8 * l + i) % (8 * n))
    BY DEF Copies, n
  <2>2. Copies(s, 8 * l + i) = Turned(s, r, 8 * m + i)
    BY <1>5, <2>1
  <2>3. Turned(s, r, 8 * m + i) = Bit(s, ((8 * m + i) - (13 * r)) % (8 * Len(s)))
    BY DEF Turned
  <2>4. Turned(s, r, 8 * m + i) = Bit(s, j)
    BY <1>4, <2>3 DEF n
  <2> HIDE DEF j
  <2> QED BY <2>2, <2>4 DEF Bit
<1>7. CASE i < rr
  <2> DEFINE e == 8 + i - rr
  <2>1. PICK u \in Int : l - q - 1 = n * u + ci
    BY <1>3
  <2>2. e \in 0 .. 7 /\ (8 * l + i) - R = 8 * (l - q - 1) + e
    BY <1>3, <1>7
  <2> HIDE DEF e
  <2>3. CopyAt(n, r, m, l)
    BY <1>1, <1>2 DEF CopyAt
  <2>4. CutAt(n, l, i, R, ci, e)
    <3>1. (8 * l + i) - R = 8 * (n * u + ci) + e
      BY <2>1, <2>2, Zenon
    <3> QED BY <1>3, <2>2, <3>1 DEF CutAt
  <2>5. j \div 8 = ci /\ j % 8 = e
    BY <2>3, <2>4, BitPlace, Zenon
  <2> HIDE DEF j
  <2>6. Copies(s, 8 * l + i) = BitOf(s[ci + 1], e)
    BY <1>6, <2>5 DEF BitOf
  <2> QED BY <1>7, <2>6 DEF e, ci, rr, R
<1>8. CASE ~(i < rr)
  <2> DEFINE e == i - rr
  <2>1. PICK u \in Int : l - q = n * u + cj
    BY <1>3
  <2>2. e \in 0 .. 7 /\ (8 * l + i) - R = 8 * (l - q) + e
    BY <1>3, <1>8
  <2> HIDE DEF e
  <2>3. CopyAt(n, r, m, l)
    BY <1>1, <1>2 DEF CopyAt
  <2>4. CutAt(n, l, i, R, cj, e)
    <3>1. (8 * l + i) - R = 8 * (n * u + cj) + e
      BY <2>1, <2>2, Zenon
    <3> QED BY <1>3, <2>2, <3>1 DEF CutAt
  <2>5. j \div 8 = cj /\ j % 8 = e
    BY <2>3, <2>4, BitPlace, Zenon
  <2> HIDE DEF j
  <2>6. Copies(s, 8 * l + i) = BitOf(s[cj + 1], e)
    BY <1>6, <2>5 DEF BitOf
  <2> QED BY <1>8, <2>6 DEF e, cj, rr, R
<1> QED BY <1>7, <1>8

LEMMA BitsMake ==
  ASSUME NEW s, NEW l \in Nat, \A i \in 0 .. 7 : Copies(s, 8 * l + i) \in Nat
  PROVE  ByteOfBits(s, l) = SumOf([i \in 0 .. 7 |-> Copies(s, 8 * l + i)])
<1> DEFINE v[i \in 0 .. 8] == IF i = 0 THEN 0 ELSE (2 * v[i - 1]) + Copies(s, (8 * l) + i - 1)
           c == [i \in 0 .. 7 |-> Copies(s, 8 * l + i)]
           C(i) == Copies(s, (8 * l) + i - 1)
           step == [i \in 1 .. 8 |-> [y \in Nat |-> (2 * y) + C(i)]]
<1>1. ByteOfBits(s, l) = v[8]
  BY Zenon DEF ByteOfBits
<1> HIDE DEF v
<1>2. \A i \in 1 .. 8 : C(i) = c[i - 1] /\ C(i) \in Nat
  <2>1. ASSUME NEW i \in 1 .. 8 PROVE C(i) = c[i - 1] /\ C(i) \in Nat
    <3>1. i - 1 \in 0 .. 7 /\ 8 * l + (i - 1) = (8 * l) + i - 1
      OBVIOUS
    <3>2. c[i - 1] = Copies(s, 8 * l + (i - 1)) /\ Copies(s, 8 * l + (i - 1)) \in Nat
      BY <3>1
    <3> QED BY <3>1, <3>2
  <2> QED BY <2>1
<1> HIDE DEF C, c
<1>3. \A i \in 1 .. 8 : \A y \in Nat : step[i][y] = (2 * y) + C(i) /\ step[i][y] \in Nat
  <2>1. ASSUME NEW i \in 1 .. 8, NEW y \in Nat PROVE step[i][y] = (2 * y) + C(i) /\ step[i][y] \in Nat
    <3>1. step[i][y] = (2 * y) + C(i)
      OBVIOUS
    <3> HIDE DEF step
    <3>2. C(i) \in Nat
      BY <1>2
    <3> QED BY <3>1, <3>2
  <2> QED BY <2>1
<1> HIDE DEF step
<1>4. PICK g \in [0 .. 8 -> Nat] : LoopOf(g, 8, 0, step)
  <2>1. StaysIn(step, 8, Nat) /\ 0 \in Nat /\ 8 \in Nat
    BY <1>3 DEF StaysIn
  <2> QED BY <2>1, LoopIs
<1>5. \A i \in 0 .. 8 : g[i] = IF i = 0 THEN 0 ELSE (2 * g[i - 1]) + C(i)
  <2>1. \A i \in 0 .. 8 : g[i] = IF i = 0 THEN 0 ELSE step[i][g[i - 1]]
    BY <1>4, Zenon DEF LoopOf
  <2>2. \A i \in 0 .. 8 : i # 0 => i \in 1 .. 8 /\ g[i - 1] \in Nat
    OBVIOUS
  <2> QED BY <1>3, <2>1, <2>2, Zenon
<1>6. g = [i \in 0 .. 8 |-> IF i = 0 THEN 0 ELSE (2 * g[i - 1]) + Copies(s, (8 * l) + i - 1)]
  BY <1>5 DEF C
<1>7. \E f : f = [i \in 0 .. 8 |-> IF i = 0 THEN 0 ELSE (2 * f[i - 1]) + Copies(s, (8 * l) + i - 1)]
  BY <1>6, Zenon
<1>8. v = [i \in 0 .. 8 |-> IF i = 0 THEN 0 ELSE (2 * v[i - 1]) + Copies(s, (8 * l) + i - 1)]
  BY <1>7, Zenon DEF v
<1>9. \A i \in 0 .. 8 : v[i] = IF i = 0 THEN 0 ELSE (2 * v[i - 1]) + C(i)
  BY <1>8, Zenon DEF C
<1>10. /\ v[0] = 0 /\ v[1] = 2 * v[0] + c[0] /\ v[2] = 2 * v[1] + c[1] /\ v[3] = 2 * v[2] + c[2]
       /\ v[4] = 2 * v[3] + c[3] /\ v[5] = 2 * v[4] + c[4] /\ v[6] = 2 * v[5] + c[5]
       /\ v[7] = 2 * v[6] + c[6] /\ v[8] = 2 * v[7] + c[7]
  BY <1>2, <1>9
<1>11. /\ c[0] \in Nat /\ c[1] \in Nat /\ c[2] \in Nat /\ c[3] \in Nat /\ c[4] \in Nat /\ c[5] \in Nat
       /\ c[6] \in Nat /\ c[7] \in Nat
  <2>1. \A i \in 0 .. 7 : c[i] \in Nat
    BY DEF c
  <2> QED BY <2>1
<1>12. v[8] = SumOf(c)
  <2>1. v[1] = c[0] /\ v[1] \in Nat
    BY <1>10, <1>11
  <2>2. v[2] = 2 * c[0] + c[1]
    BY <1>10, <2>1
  <2>3. v[3] = 4 * c[0] + 2 * c[1] + c[2]
    BY <1>10, <1>11, <2>2
  <2>4. v[4] = 8 * c[0] + 4 * c[1] + 2 * c[2] + c[3]
    BY <1>10, <1>11, <2>3
  <2>5. v[5] = 16 * c[0] + 8 * c[1] + 4 * c[2] + 2 * c[3] + c[4]
    BY <1>10, <1>11, <2>4
  <2>6. v[6] = 32 * c[0] + 16 * c[1] + 8 * c[2] + 4 * c[3] + 2 * c[4] + c[5]
    BY <1>10, <1>11, <2>5
  <2>7. v[7] = 64 * c[0] + 32 * c[1] + 16 * c[2] + 8 * c[3] + 4 * c[4] + 2 * c[5] + c[6]
    BY <1>10, <1>11, <2>6
  <2>8. v[8] = 128 * c[0] + 64 * c[1] + 32 * c[2] + 16 * c[3] + 8 * c[4] + 4 * c[5] + 2 * c[6] + c[7]
    BY <1>10, <1>11, <2>7
  <2> QED BY <2>8, Zenon DEF SumOf
<1> QED BY <1>1, <1>12 DEF c

LEMMA BitIs ==
  ASSUME NEW z \in 0 .. 255, NEW e \in 0 .. 7
  PROVE  BitOf(z, e) \in {0, 1}
<1>1. \/ e = 0 \/ e = 1 \/ e = 2 \/ e = 3 \/ e = 4 \/ e = 5 \/ e = 6 \/ e = 7
  OBVIOUS
<1>2. /\ BitOf(z, 7) = (z \div 1) % 2 /\ BitOf(z, 6) = (z \div 2) % 2 /\ BitOf(z, 5) = (z \div 4) % 2
      /\ BitOf(z, 4) = (z \div 8) % 2 /\ BitOf(z, 3) = (z \div 16) % 2 /\ BitOf(z, 2) = (z \div 32) % 2
      /\ BitOf(z, 1) = (z \div 64) % 2 /\ BitOf(z, 0) = (z \div 128) % 2
  BY Powers DEF BitOf
<1>3. /\ (z \div 1) % 2 \in {0, 1} /\ (z \div 2) % 2 \in {0, 1} /\ (z \div 4) % 2 \in {0, 1}
      /\ (z \div 8) % 2 \in {0, 1} /\ (z \div 16) % 2 \in {0, 1} /\ (z \div 32) % 2 \in {0, 1}
      /\ (z \div 64) % 2 \in {0, 1} /\ (z \div 128) % 2 \in {0, 1}
  OBVIOUS
<1>4. /\ BitOf(z, 7) \in {0, 1} /\ BitOf(z, 6) \in {0, 1} /\ BitOf(z, 5) \in {0, 1} /\ BitOf(z, 4) \in {0, 1}
      /\ BitOf(z, 3) \in {0, 1} /\ BitOf(z, 2) \in {0, 1} /\ BitOf(z, 1) \in {0, 1} /\ BitOf(z, 0) \in {0, 1}
  BY <1>2, <1>3
<1> QED BY <1>1, <1>4

(* Such a byte is one, and its bits are numbers.                             *)
IsByte(c, x, y, rr) ==
  /\ SumIsShift(c, x, y, rr) /\ SumOf(c) \in Byte
  /\ \A i \in 0 .. 7 : c[i] \in Nat

LEMMA ByteCut ==
  ASSUME NEW c, NEW x, NEW y, NEW rr, HasBits(c, x, y, rr)
  PROVE  IsByte(c, x, y, rr)
<1>1. /\ x \in 0 .. 255 /\ y \in 0 .. 255 /\ rr \in 0 .. 7
      /\ \A i \in 0 .. 7 : c[i] = IF i < rr THEN BitOf(x, 8 + i - rr) ELSE BitOf(y, i - rr)
  BY DEF HasBits
<1>2. SumIsShift(c, x, y, rr)
  BY Shifted, Zenon
<1>3. ASSUME NEW i \in 0 .. 7 PROVE c[i] \in Nat /\ c[i] <= 1
  <2>1. c[i] \in {0, 1}
    <3>1. CASE i < rr
      <4>1. 8 + i - rr \in 0 .. 7 /\ c[i] = BitOf(x, 8 + i - rr)
        BY <1>1, <3>1
      <4> QED BY <1>1, <4>1, BitIs
    <3>2. CASE ~(i < rr)
      <4>1. i - rr \in 0 .. 7 /\ c[i] = BitOf(y, i - rr)
        BY <1>1, <3>2
      <4> QED BY <1>1, <4>1, BitIs
    <3> QED BY <3>1, <3>2
  <2> QED BY <2>1
<1>4. /\ c[0] \in Nat /\ c[0] <= 1 /\ c[1] \in Nat /\ c[1] <= 1 /\ c[2] \in Nat /\ c[2] <= 1
      /\ c[3] \in Nat /\ c[3] <= 1 /\ c[4] \in Nat /\ c[4] <= 1 /\ c[5] \in Nat /\ c[5] <= 1
      /\ c[6] \in Nat /\ c[6] <= 1 /\ c[7] \in Nat /\ c[7] <= 1
  BY <1>3
<1>5. SumOf(c) \in Nat /\ SumOf(c) <= 255
  BY <1>4 DEF SumOf
<1>6. SumOf(c) \in Byte
  BY <1>5 DEF Byte
<1> QED BY <1>2, <1>3, <1>6 DEF IsByte

LEMMA BytesOfCopies ==
  ASSUME NEW s \in Seq(Byte), Len(s) # 0
  PROVE  BytesOf(s) /\ \A l \in Nat : ByteOfBits(s, l) = CopyByte(s, l)
<1>1. ASSUME NEW l \in Nat PROVE CopyByte(s, l) \in Byte /\ ByteOfBits(s, l) = CopyByte(s, l)
  <2> DEFINE rr == Rot(s, l) % 8
             x == s[From(s, l) + 1]
             y == s[Then(s, l) + 1]
             c == [i \in 0 .. 7 |-> Copies(s, 8 * l + i)]
  <2>1. rr \in 0 .. 7 /\ x \in Byte /\ y \in Byte
        /\ CopyByte(s, l) = ((x * 2 ^ (8 - rr)) % 256) + (y \div 2 ^ rr)
    BY FromIs
  <2>2. \A i \in 0 .. 7 : c[i] = IF i < rr THEN BitOf(x, 8 + i - rr) ELSE BitOf(y, i - rr)
    BY CopiesAre
  <2>3. \A i \in 0 .. 7 : Copies(s, 8 * l + i) = c[i]
    OBVIOUS
  <2> HIDE DEF rr, x, y, c
  <2>4. x \in 0 .. 255 /\ y \in 0 .. 255
    BY <2>1 DEF Byte
  <2>5. HasBits(c, x, y, rr)
    BY <2>1, <2>2, <2>4, Zenon DEF HasBits
  <2>6. IsByte(c, x, y, rr)
    BY <2>5, ByteCut, Zenon
  <2>7. ByteOfBits(s, l) = SumOf(c)
    <3>1. ASSUME NEW i \in 0 .. 7 PROVE Copies(s, 8 * l + i) \in Nat
      <4>1. c[i] \in Nat
        BY <2>6, Zenon DEF IsByte
      <4> QED BY <2>3, <4>1, Zenon
    <3> QED BY <3>1, BitsMake DEF c
  <2> QED BY <2>1, <2>6, <2>7, Zenon DEF IsByte, SumIsShift
<1> QED BY <1>1 DEF BytesOf

(* The first copy is the constant. *)
LEMMA FirstCopy ==
  ASSUME NEW s \in Seq(Byte), NEW l \in 0 .. Len(s) - 1
  PROVE  CopyByte(s, l) = s[l + 1]
<1> DEFINE n == Len(s)
<1>1. n \in Nat \ {0} /\ l \in Nat /\ l < n
  OBVIOUS
<1>2. l \div n = 0
  <2>1. l = n * 0 + l /\ l \in 0 .. n - 1
    BY <1>1
  <2> QED BY <1>1, <2>1, Remains
<1>3. Rot(s, l) = 0
  BY <1>2 DEF Rot
<1>a. Len(s) # 0 /\ l \in Nat
  BY <1>1
<1>4. /\ From(s, l) \in 0 .. n - 1 /\ Then(s, l) \in 0 .. n - 1
      /\ \E u \in Int : l - (Rot(s, l) \div 8) = n * u + Then(s, l)
      /\ s[From(s, l) + 1] \in Byte /\ s[Then(s, l) + 1] \in Byte
      /\ CopyByte(s, l) = ((s[From(s, l) + 1] * 2 ^ (8 - (Rot(s, l) % 8))) % 256)
                             + (s[Then(s, l) + 1] \div 2 ^ (Rot(s, l) % 8))
  BY <1>a, FromIs, Zenon
<1>5. Rot(s, l) \div 8 = 0 /\ Rot(s, l) % 8 = 0
  BY <1>3
<1>6. Then(s, l) = l
  <2>1. PICK u \in Int : l - 0 = n * u + Then(s, l)
    BY <1>4, <1>5
  <2>2. l % n = Then(s, l) /\ l = n * 0 + l /\ l \in 0 .. n - 1
    <3>1. l = n * u + Then(s, l)
      BY <1>1, <2>1
    <3> DEFINE w == Then(s, l)
    <3>2. w \in 0 .. n - 1 /\ l = n * u + w /\ l \in Int
      BY <1>1, <1>4, <3>1
    <3> HIDE DEF n, w
    <3>3. l % n = w
      BY <1>1, <3>2, Remains
    <3>4. l % n = Then(s, l)
      BY <3>3 DEF w
    <3> QED BY <1>1, <3>4 DEF n
  <2>3. l % n = l
    BY <1>1, <2>2, Remains
  <2> QED BY <2>2, <2>3
<1> DEFINE x == s[From(s, l) + 1]
           y == s[l + 1]
<1>7. x \in 0 .. 255 /\ y \in 0 .. 255 /\ CopyByte(s, l) = ((x * 2 ^ (8 - 0)) % 256) + (y \div 2 ^ 0)
  BY <1>4, <1>5, <1>6 DEF Byte
<1> HIDE DEF x, y
<1>8. ((x * 256) % 256) + (y \div 1) = y
  BY <1>7, Lasts, Halves
<1>9. 2 ^ (8 - 0) = 256 /\ 2 ^ 0 = 1
  BY Powers
<1> QED BY <1>7, <1>8, <1>9 DEF y

(* What divides both lengths, and the number of blocks the copies fill. *)
Common(n, m, d) == m % d = 0 /\ n % d = 0
LEMMA GcdIs ==
  ASSUME NEW n \in 1 .. FoldSize
  PROVE  /\ Gcd(n, FoldSize) \in 1 .. n /\ Common(n, FoldSize, Gcd(n, FoldSize))
         /\ Common(n, FoldSize, n) => Gcd(n, FoldSize) = n
<1> DEFINE F == FoldSize
           Most(d) == Common(F, n, d) /\ \A e \in d + 1 .. n : ~Common(F, n, e)
           S == {k \in Nat : k <= n - 1 => \/ \E d \in 1 .. n : Most(d)
                                           \/ \A e \in n - k .. n : ~Common(F, n, e)}
<1>1. F \in Nat \ {0} /\ n \in Nat \ {0} /\ n <= F
  BY Fold
<1> HIDE DEF F
<1>2. 0 \in S
  <2>1. CASE Common(F, n, n)
    <3>1. n \in 1 .. n /\ n + 1 .. n = {}
      BY <1>1
    <3>2. Most(n)
      BY <2>1, <3>1
    <3> HIDE DEF Most
    <3> QED BY <3>1, <3>2
  <2>2. CASE ~Common(F, n, n)
    <3>1. \A e \in n - 0 .. n : e = n
      BY <1>1
    <3> HIDE DEF Most
    <3> QED BY <2>2, <3>1
  <2> QED BY <2>1, <2>2
<1>3. ASSUME NEW k \in Nat, k \in S PROVE k + 1 \in S
  <2>1. SUFFICES ASSUME k + 1 <= n - 1, ~\E d \in 1 .. n : Most(d)
                 PROVE  \A e \in n - (k + 1) .. n : ~Common(F, n, e)
    OBVIOUS
  <2>2. \A e \in n - k .. n : ~Common(F, n, e)
    BY <1>1, <1>3, <2>1
  <2> DEFINE d == n - (k + 1)
  <2>3. d \in 1 .. n /\ d + 1 = n - k /\ \A e \in n - (k + 1) .. n : e = d \/ e \in n - k .. n
    BY <1>1, <2>1
  <2> HIDE DEF d
  <2>4. ~Common(F, n, d)
    BY <2>1, <2>2, <2>3
  <2> QED BY <2>2, <2>3, <2>4
<1> HIDE DEF S
<1>4. n - 1 \in S
  <2>1. \A k \in Nat : k \in S
    BY <1>2, <1>3, AllNumbers
  <2> QED BY <1>1, <2>1
<1>5. \E d \in 1 .. n : Most(d)
  <2>1. Common(F, n, 1) /\ 1 \in n - (n - 1) .. n
    <3>1. n % 1 = 0 /\ F % 1 = 0
      BY <1>1
    <3> QED BY <1>1, <3>1 DEF Common
  <2> HIDE DEF Most
  <2> QED BY <1>1, <1>4, <2>1 DEF S
<1>6. \E d \in 1 .. n : /\ n % d = 0 /\ F % d = 0 /\ \A e \in d + 1 .. n : n % e # 0 \/ F % e # 0
  BY <1>5, Zenon DEF Common
<1> DEFINE g == Gcd(n, F)
<1>7. g \in 1 .. n /\ n % g = 0 /\ F % g = 0 /\ \A e \in g + 1 .. n : n % e # 0 \/ F % e # 0
  BY <1>6, Zenon DEF Gcd
<1> HIDE DEF g
<1>8. n % n = 0 /\ F % n = 0 => g = n
  <2>1. g < n => n \in g + 1 .. n
    BY <1>1, <1>7
  <2>2. g < n \/ g = n
    BY <1>1, <1>7
  <2> QED BY <1>7, <2>1, <2>2, Zenon
<1>9. g \in 1 .. n /\ Common(n, F, g) /\ (Common(n, F, n) => g = n)
  BY <1>7, <1>8, Zenon DEF Common
<1> QED BY <1>9, Zenon DEF g, F

LEMMA BlocksAre ==
  ASSUME NEW n \in 1 .. FoldSize, NEW B, B = n \div Gcd(n, FoldSize)
  PROVE  /\ B \in Nat \ {0} /\ n <= FoldSize * B /\ (n * FoldSize) \div Gcd(n, FoldSize) = FoldSize * B
         /\ FoldSize % n = 0 => B = 1
<1> DEFINE F == FoldSize
           g == Gcd(n, F)
           w == F * B
<1>1. F \in Nat \ {0} /\ n \in Nat \ {0} /\ n <= F
  BY Fold
<1>2. g \in 1 .. n /\ Common(n, F, g) /\ (Common(n, F, n) => g = n) /\ B = n \div g
  BY GcdIs, Zenon
<1> HIDE DEF F, g
<1>3. g \in Nat \ {0} /\ n % g = 0
  BY <1>1, <1>2 DEF Common
<1>4. n = g * B /\ B \in Nat
  <2>1. n \div g \in Nat /\ n = g * (n \div g) + (n % g)
    BY <1>1, <1>3, Division
  <2>2. g * (n \div g) \in Int
    BY <1>3, <2>1
  <2>3. n = g * (n \div g)
    BY <1>3, <2>1, <2>2
  <2> QED BY <1>2, <2>1, <2>3, Zenon
<1>5. B # 0
  <2>1. g * 0 = 0
    BY <1>3
  <2> QED BY <1>1, <1>4, <2>1
<1>6. w \in Nat /\ n <= w
  <2>1. w = F + F * (B - 1) /\ F * (B - 1) \in Nat
    <3>1. B - 1 \in Nat
      BY <1>4, <1>5
    <3> DEFINE b == B - 1
    <3>2. b \in Nat /\ B = b + 1
      BY <3>1, <1>4
    <3> HIDE DEF b
    <3>3. F * (b + 1) = F + F * b /\ F * b \in Nat
      BY <1>1, <3>2
    <3> QED BY <3>2, <3>3 DEF b
  <2> QED BY <1>1, <2>1
<1>7. (n * F) \div g = w
  <2>1. n * F = g * w + 0
    <3>1. (g * B) * F = g * (F * B) /\ g * (F * B) \in Int
      BY <1>1, <1>3, <1>4
    <3> QED BY <1>4, <3>1
  <2>2. n * F \in Int /\ 0 \in 0 .. g - 1 /\ w \in Int
    BY <1>1, <1>3, <1>6
  <2> HIDE DEF w
  <2> QED BY <1>3, <2>1, <2>2, Remains
<1>8. F % n = 0 => B = 1
  <2>1. n = n * 1 + 0 /\ 0 \in 0 .. n - 1 /\ n \in Int /\ 1 \in Int
    BY <1>1
  <2>2. n % n = 0 /\ n \div n = 1
    BY <1>1, <2>1, Remains
  <2> QED BY <1>2, <2>2 DEF Common
<1>9. B \in Nat \ {0} /\ n <= F * B /\ (n * F) \div g = F * B /\ (F % n = 0 => B = 1)
  BY <1>4, <1>5, <1>6, <1>7, <1>8
<1> QED BY <1>9, Zenon DEF F, g

(* For any constant and any block it fits in, the loops of                   *)
(* n_fold, which add the turned copies byte by byte from the last *)
(* one, each carry at its place, and take the carry left round until a byte  *)
(* holds it, make what n-fold is defined to be: the blocks of the copies,    *)
(* added one to another in one's complement.                                 *)
THEOREM NFoldIs == \A s \in Constants : Len(s) \in 1 .. FoldSize => NFold(s) = NFoldOf(s)
<1>1. SUFFICES ASSUME NEW s \in Constants, Len(s) \in 1 .. FoldSize PROVE NFold(s) = NFoldOf(s)
  OBVIOUS
<1>2. s \in Seq(Byte) /\ Len(s) \in 1 .. FoldSize
  BY <1>1, KdfAssumption, Zenon DEF Byte
<1> DEFINE n == Len(s)
           B == n \div Gcd(n, FoldSize)
<1>3. /\ B \in Nat \ {0} /\ n <= FoldSize * B /\ (n * FoldSize) \div Gcd(n, FoldSize) = FoldSize * B
      /\ FoldSize % n = 0 => B = 1
  BY <1>2, BlocksAre, Zenon
<1>4. Len(s) # 0 /\ FoldSize \in Nat \ {0}
  BY <1>2, Fold
<1>5. BytesOf(s) /\ \A l \in Nat : ByteOfBits(s, l) = CopyByte(s, l)
  BY <1>2, <1>4, BytesOfCopies
<1>6. /\ NFoldOf(s) \in Block /\ Same(Val(NFoldOf(s)), Total(s, FoldSize * B)[FoldSize * B])
      /\ B = 1 => NFoldOf(s) = BlockOf(s, 1)
  BY <1>3, <1>5, FoldOfIs, Zenon
<1>7. \A l \in 0 .. Len(s) - 1 : CopyByte(s, l) = s[l + 1]
  BY <1>2, FirstCopy
<1>8. CASE n = FoldSize \/ FoldSize % n = 0
  <2>1. B = 1
    <3>1. FoldSize = FoldSize * 1 + 0 /\ 0 \in 0 .. FoldSize - 1 /\ FoldSize \in Int /\ 1 \in Int
      BY <1>4
    <3>2. FoldSize % FoldSize = 0
      BY <1>4, <3>1, Remains
    <3> QED BY <1>3, <1>8, <3>2
  <2>2. NFoldOf(s) = [i \in 1 .. FoldSize |-> CopyByte(s, ((1 - 1) * FoldSize) + i - 1)]
    BY <1>6, <2>1, Zenon DEF BlockOf
  <2>3. ASSUME NEW i \in 1 .. FoldSize
        PROVE  /\ CopyByte(s, ((1 - 1) * FoldSize) + i - 1) = CopyByte(s, i - 1)
               /\ i <= n => CopyByte(s, i - 1) = s[i]
    <3>1. ((1 - 1) * FoldSize) + i - 1 = i - 1
      BY <1>4
    <3>2. i <= n => i - 1 \in 0 .. Len(s) - 1 /\ i - 1 + 1 = i
      BY <1>2
    <3> QED BY <1>7, <3>1, <3>2
  <2>4. CASE n = FoldSize
    <3>1. NFold(s) = s
      BY <2>4, Zenon DEF NFold
    <3>2. s = [i \in 1 .. FoldSize |-> s[i]]
      BY <1>2, <2>4
    <3>3. \A i \in 1 .. FoldSize : CopyByte(s, ((1 - 1) * FoldSize) + i - 1) = s[i]
      <4>1. \A i \in 1 .. FoldSize : i <= n
        BY <2>4
      <4> QED BY <2>3, <4>1, Zenon
    <3>4. NFoldOf(s) = [i \in 1 .. FoldSize |-> s[i]]
      BY <2>2, <3>3, Zenon
    <3> QED BY <3>1, <3>2, <3>4, Zenon
  <2>5. CASE n # FoldSize
    <3>1. NFold(s) = [i \in 1 .. FoldSize |-> IF i <= Len(s) THEN s[i] ELSE CopyByte(s, i - 1)]
      BY <1>8, <2>5, Zenon DEF NFold, FoldCopies
    <3>2. \A i \in 1 .. FoldSize : CopyByte(s, ((1 - 1) * FoldSize) + i - 1)
                                   = IF i <= Len(s) THEN s[i] ELSE CopyByte(s, i - 1)
      BY <2>3, Zenon
    <3> QED BY <2>2, <3>1, <3>2, Zenon
  <2> QED BY <2>4, <2>5
<1>9. CASE ~(n = FoldSize \/ FoldSize % n = 0)
  <2>1. NFold(s) = FoldSum(s)
    BY <1>9, Zenon DEF NFold
  <2>2. B \in Nat
    BY <1>3
  <2>3. FoldSum(s) \in Block /\ Same(Val(FoldSum(s)), Total(s, FoldSize * B)[FoldSize * B])
    BY <1>2, <1>3, <1>5, <1>7, <2>2, FoldSumIs, Zenon
  <2> DEFINE x == FoldSum(s)
             y == NFoldOf(s)
             t == Total(s, FoldSize * B)[FoldSize * B]
  <2>4. x \in Block /\ y \in Block /\ Same(Val(x), t) /\ Same(Val(y), t)
    BY <1>6, <2>3, Zenon
  <2> HIDE DEF x, y, t
  <2>5. Same(Val(x), Val(y))
    BY <2>4, SameBack, SameThen, Zenon
  <2>6. Val(x) \in 0 .. Top /\ Val(y) \in 0 .. Top
    BY <2>4, ValBelow
  <2>7. Val(x) = Val(y)
    BY <2>5, <2>6, SameWhole
  <2>8. x = y
    BY <2>4, <2>7, ValOnce
  <2> QED BY <2>1, <2>8 DEF x, y
<1> QED BY <1>8, <1>9

------------------------------------------------------------------------------
(* The context's key is the one of the parameters.                           *)
LEMMA PrfDerives ==
  ASSUME NEW c, c.md = NoName \/ c.md = "MD5-SHA1" \/ c.md = "SHA256",
         c.md # NoName, c.key # NoName, c.seed # <<>>
  PROVE  PrfDerive(c) = [Make(c.md, NoName, c.key, NoName, <<>>) EXCEPT !.seed = c.seed]
<1> DEFINE n == IF c.md \in {"MD5-SHA1", "SHA256"} THEN c.md ELSE "SHA384"
           r == Refusal
<1>1. PrfDerive(c) = IF c.md = NoName \/ c.key = NoName \/ c.seed = <<>> THEN r
                     ELSE [Make(n, NoName, c.key, NoName, <<>>) EXCEPT !.seed = c.seed]
  BY Zenon DEF PrfDerive, NoName
<1>2. n = c.md
  OBVIOUS
<1> HIDE DEF r, n
<1> QED BY <1>1, <1>2

LEMMA KeyIsOf ==
  ASSUME kdf \in Kdf, NEW c, NEW fits \in BOOLEAN,
         kdf = "tls13" => c.mode # NoName,
         kdf = "krb5" => constant \in Constants /\ Len(constant) <= FoldSize,
         kdf = "prf" => c.md = NoName \/ c.md = "MD5-SHA1" \/ c.md = "SHA256"
  PROVE  DeriveKey(c, fits) = KeyOf(c, fits)
<1> DEFINE P == kdf = "prf" /\ c.md \notin {NoName, "unknown"} /\ c.key # NoName /\ c.seed # <<>>
           p == [Make(c.md, NoName, c.key, NoName, <<>>) EXCEPT !.seed = c.seed]
           n == IF Krb5Refuses(c, fits) THEN Refusal ELSE Krb5Key(c, NFoldOf(constant))
           d == DeriveKey(c, fits)
           r == Refusal
<1>1. KeyOf(c, fits) = CASE P -> p
                         [] kdf = "tls13" /\ c.mode = NoName -> r
                         [] kdf = "krb5" -> n
                         [] OTHER -> d
  BY Zenon DEF KeyOf, NoName
<1> HIDE DEF r
<1>2. CASE P
  <2>1. d = PrfDerive(c)
    BY <1>2 DEF DeriveKey
  <2> HIDE DEF d, p, n
  <2>2. PrfDerive(c) = p
    <3>1. c.md = NoName \/ c.md = "MD5-SHA1" \/ c.md = "SHA256"
      BY <1>2
    <3>2. c.md # NoName /\ c.key # NoName /\ c.seed # <<>>
      BY <1>2
    <3> QED BY <3>1, <3>2, PrfDerives DEF p
  <2>3. kdf = "prf"
    BY <1>2
  <2>4. KeyOf(c, fits) = p
    BY <1>1, <1>2, <2>3
  <2> QED BY <2>1, <2>2, <2>4 DEF d
<1>3. CASE ~P /\ kdf # "krb5"
  <2> HIDE DEF d, p, n, P
  <2>1. KeyOf(c, fits) = d
    BY <1>1, <1>3
  <2> QED BY <2>1 DEF d
<1>4. CASE kdf = "krb5"
  <2>1. d = Krb5Derive(c, fits)
    BY <1>4 DEF DeriveKey
  <2>2. KeyOf(c, fits) = n
    <3> HIDE DEF d, p, n
    <3> QED BY <1>1, <1>4
  <2>3. Krb5Derive(c, fits) = n
    <3> DEFINE R == Krb5Refuses(c, fits)
               f == NFold(constant)
    <3>1. Krb5Derive(c, fits) = CASE R -> Refusal
                                  [] ~R /\ Len(constant) > FoldSize -> Overrun
                                  [] OTHER -> Krb5Key(c, f)
      BY Zenon DEF Krb5Derive
    <3>2. ~R => constant # <<>>
      BY Zenon DEF Krb5Refuses
    <3>3. ~R => Len(constant) \in 1 .. FoldSize
      <4>1. constant \in Seq(Byte) /\ Len(constant) <= FoldSize /\ FoldSize \in Nat
        BY <1>4, KdfAssumption, Fold DEF Byte
      <4> HIDE DEF R
      <4> QED BY <3>2, <4>1
    <3>4. ~R => f = NFoldOf(constant)
      <4> HIDE DEF R, f
      <4>1. constant \in Constants
        BY <1>4
      <4> QED BY <3>3, <4>1, NFoldIs, Zenon DEF f
    <3>5. ~R => ~(Len(constant) > FoldSize)
      BY <3>3, Fold
    <3> HIDE DEF R, f
    <3>6. n = IF R THEN Refusal ELSE Krb5Key(c, NFoldOf(constant))
      BY DEF R
    <3> HIDE DEF n
    <3> QED BY <3>1, <3>4, <3>5, <3>6, Zenon
  <2> HIDE DEF d, n
  <2>4. KeyOf(c, fits) = d
    BY <2>1, <2>2, <2>3
  <2> QED BY <2>4 DEF d
<1> QED BY <1>2, <1>3, <1>4

(* Nothing set, nothing made. *)
LEMMA ForgetKeeps ==
  ASSUME KdfHolds, kctx' = KdfNew, wish' = NoWish, derived' = NothingDerived,
         UNCHANGED <<kdf, kex, constant>>
  PROVE  KdfHolds'
<1> DEFINE u == Unset
<1>1. KdfObject(u) /\ u.md = NoName
  BY UnsetIs
<1>2. kctx' = u
  BY DEF KdfNew
<1>3. wish'.p = u
  <2>1. wish' = [p |-> u, batches |-> 0]
    BY DEF NoWish
  <2> HIDE DEF u
  <2> QED BY <2>1
<1>4. derived'.got = derived'.due
  <2>1. derived' = [got |-> u, due |-> u]
    BY DEF NothingDerived
  <2> HIDE DEF u
  <2> QED BY <2>1
<1> HIDE DEF u
<1>5. KdfObject(kctx)'
  BY <1>1, <1>2 DEF KdfObject
<1> QED BY <1>1, <1>2, <1>3, <1>4, <1>5 DEF KdfHolds

LEMMA SetBatchKeeps ==
  ASSUME KdfHabits = {}, KdfHolds, NEW b, SetBatch(b)
  PROVE  KdfHolds'
<1> DEFINE r == SetParams(kctx, b)
           e == WishAll(wish.p, b)
<1>1. /\ b \in Batches(kdf) /\ derived' = NothingDerived /\ UNCHANGED <<kdf, kex, constant>>
      /\ kdf = "hkdf" /\ wish.p.info # <<>> => Carries(b, "info")
      /\ kdf = "prf" /\ Carries(b, "md") => To(b, "md") # "SHA512"
      /\ \/ r.ok /\ kctx' = r.c /\ wish' = [p |-> e, batches |-> wish.batches + 1]
         \/ kctx' = KdfNew /\ wish' = NoWish
  <2>1. "set_after_info" \notin KdfHabits /\ "prf_other_md" \notin KdfHabits
        /\ "on_refusal" \notin KdfHabits
    OBVIOUS
  <2>2. kdf = "hkdf" /\ wish.p.info # <<>> /\ ~Carries(b, "info") => FALSE
    BY <2>1 DEF SetBatch
  <2>3. kdf = "prf" /\ Carries(b, "md") /\ To(b, "md") = "SHA512" => FALSE
    BY <2>1 DEF SetBatch
  <2>4. \/ r.ok /\ kctx' = r.c /\ wish' = [p |-> e, batches |-> wish.batches + 1]
        \/ kctx' = KdfNew /\ wish' = NoWish
    BY <2>1, Zenon DEF SetBatch, Forget
  <2> QED BY <2>2, <2>3, <2>4 DEF SetBatch
<1>2. kdf \in Kdf /\ KdfObject(kctx) /\ wish.p = kctx
      /\ (kdf = "prf" => kctx.md = NoName \/ kctx.md = "MD5-SHA1" \/ kctx.md = "SHA256")
  BY KdfAssumption DEF KdfHolds
<1>3. CASE kctx' = KdfNew /\ wish' = NoWish
  BY <1>1, <1>3, ForgetKeeps
<1>4. CASE r.ok /\ kctx' = r.c /\ wish' = [p |-> e, batches |-> wish.batches + 1]
  <2>1. SetsAll(kctx, r, b)
    <3>1. kdf = "hkdf" => (kctx.info # <<>> => Carries(b, "info"))
      BY <1>1, <1>2
    <3> QED BY <1>1, <1>2, <3>1, ParamsSet
  <2>2. kctx' = e /\ wish'.p = e
    <3>1. r.c = e
      BY <1>2, <1>4, <2>1 DEF SetsAll
    <3> HIDE DEF r, e
    <3> QED BY <1>4, <3>1
  <2>3. KdfObject(e) /\ e.md = IF Carries(b, "md") THEN To(b, "md") ELSE kctx.md
    BY <1>1, <1>2, WishedObject
  <2>4. kdf = "prf" => e.md = NoName \/ e.md = "MD5-SHA1" \/ e.md = "SHA256"
    <3>1. SUFFICES ASSUME kdf = "prf", Carries(b, "md")
                   PROVE  e.md = "MD5-SHA1" \/ e.md = "SHA256"
      BY <1>2, <2>3
    <3>2. To(b, "md") \in {"SHA256", "unknown", "MD5-SHA1", "SHA512"}
      BY <1>1, <1>2, <3>1, Brought
    <3>3. To(b, "md") # "unknown"
      <4>1. SetParams(kctx, b) = PrfSet(kctx, b)
        BY <3>1 DEF SetParams
      <4>2. GetDigest(kctx, b).ok
        <5> DEFINE d == GetDigest(kctx, b)
                   s == PrfGetSeed(GetOctetString(d.c, b, "key"), b)
        <5>1. r = IF d.ok THEN s ELSE d
          BY <4>1, Zenon DEF PrfSet
        <5> HIDE DEF r, d, s
        <5>2. d.ok
          BY <1>4, <5>1
        <5> QED BY <5>2 DEF d
      <4> QED BY <1>2, <3>1, <4>2, DigestSet
    <3> HIDE DEF e
    <3> QED BY <1>1, <2>3, <3>1, <3>2, <3>3
  <2>5. derived'.got = derived'.due
    <3> DEFINE u == Unset
    <3>1. derived' = [got |-> u, due |-> u]
      BY <1>1 DEF NothingDerived
    <3> HIDE DEF u
    <3> QED BY <3>1
  <2> HIDE DEF e
  <2>6. KdfObject(kctx)'
    BY <2>2, <2>3 DEF KdfObject
  <2> QED BY <1>1, <2>2, <2>4, <2>5, <2>6 DEF KdfHolds
<1> HIDE DEF r, e
<1> QED BY <1>1, <1>3, <1>4

LEMMA DeriveKdfKeeps ==
  ASSUME KdfHabits = {}, KdfHolds, NEW fits \in BOOLEAN, DeriveKdf(fits)
  PROVE  KdfHolds'
<1> DEFINE d == DeriveKey(kctx, fits)
           k == KeyOf(wish.p, fits)
<1>1. /\ derived' = [got |-> d, due |-> k] /\ UNCHANGED <<kdf, kex, kctx, wish, constant>>
      /\ kdf = "tls13" => kctx.mode # NoName
  <2>1. "no_mode" \notin KdfHabits
    OBVIOUS
  <2>2. kdf = "tls13" /\ kctx.mode = NoName => FALSE
    BY <2>1, Zenon DEF DeriveKdf, NoName
  <2>3. derived' = [got |-> d, due |-> k] /\ UNCHANGED <<kdf, kex, kctx, wish, constant>>
    BY Zenon DEF DeriveKdf
  <2> HIDE DEF d, k
  <2> QED BY <2>2, <2>3
<1>2. kdf \in Kdf /\ wish.p = kctx
  BY KdfAssumption DEF KdfHolds
<1>3. d = k
  BY <1>1, <1>2, KeyIsOf DEF KdfHolds
<1> HIDE DEF d, k
<1>4. derived'.got = derived'.due
  BY <1>1, <1>3
<1>5. KdfObject(kctx)'
  BY <1>1 DEF KdfHolds, KdfObject
<1> QED BY <1>1, <1>4, <1>5 DEF KdfHolds

LEMMA CopyKexKeeps ==
  ASSUME KdfHabits = {}, KdfHolds, CopyKex
  PROVE  KdfHolds'
<1>1. "kex_copy" \notin KdfHabits
  OBVIOUS
<1>2. /\ kctx' = KdfNew /\ wish' = NoWish /\ derived' = NothingDerived
      /\ UNCHANGED <<kdf, kex, constant>>
  BY <1>1, Zenon DEF CopyKex, KexDup
<1> QED BY <1>2, ForgetKeeps

(* A derivation makes the key of the parameters set since the context was    *)
(* new, in whatever calls they came, and fails when one it needs is missing: *)
(* the contexts of wp_hkdf.c, wp_tls1_prf.c, wp_pbkdf2.c, wp_kbkdf.c,        *)
(* wp_krb5kdf.c and wp_sshkdf.c.  The programs are those with none of the    *)
(* habits of KdfHabit: no HKDF parameters without the info that came before, *)
(* TLS 1.3 derivations with a mode, a digest of the PRFs, no use of a        *)
(* context after a refusal or of a copied key exchange, and no constant that *)
(* is longer than the block.  What n_fold of wp_krb5kdf.c makes of the other *)
(* constants is n-fold as n-fold is defined (NFoldIs).                       *)
THEOREM SpecKeyAsSet ==
  ASSUME KdfHabits = {}
  PROVE  KdfSpec => []KeyAsSet
<1>1. ASSUME KdfInit PROVE KdfHolds
  <2> DEFINE u == Unset
  <2>1. KdfObject(u) /\ u.md = NoName
    BY UnsetIs
  <2>2. kctx = u /\ wish = [p |-> u, batches |-> 0] /\ derived = [got |-> u, due |-> u]
        /\ kdf \in Kdfs /\ (kdf = "krb5" => constant \in Constants)
        /\ ~(Len(constant) > FoldSize)
    BY <1>1, Zenon DEF KdfInit, KdfNew, NoWish, NothingDerived
  <2> HIDE DEF u
  <2>4. kdf = "krb5" => Len(constant) <= FoldSize
    <3>1. kdf = "krb5" => constant \in Seq(0 .. 255)
      BY <2>2, KdfAssumption
    <3> QED BY <2>2, <3>1, Fold
  <2>3. wish.p = u /\ derived.got = derived.due
    BY <2>2
  <2> QED BY <2>1, <2>2, <2>3, <2>4 DEF KdfHolds
<1>2. ASSUME KdfHolds, [KdfNext]_kdfVars PROVE KdfHolds'
  <2>1. ASSUME NEW b, SetBatch(b) PROVE KdfHolds'
    BY <1>2, <2>1, SetBatchKeeps
  <2>2. ASSUME NEW fits \in BOOLEAN, DeriveKdf(fits) PROVE KdfHolds'
    BY <1>2, <2>2, DeriveKdfKeeps
  <2>3. ASSUME Reset PROVE KdfHolds'
    <3>1. /\ kctx' = KdfNew /\ wish' = NoWish /\ derived' = NothingDerived
          /\ UNCHANGED <<kdf, kex, constant>>
      BY <2>3, Zenon DEF Reset, Forget
    <3> QED BY <1>2, <3>1, ForgetKeeps
  <2>4. ASSUME CopyKex PROVE KdfHolds'
    BY <1>2, <2>4, CopyKexKeeps
  <2>5. ASSUME UNCHANGED kdfVars PROVE KdfHolds'
    BY <1>2, <2>5 DEF KdfHolds, kdfVars, KdfObject
  <2> QED BY <1>2, <2>1, <2>2, <2>3, <2>4, <2>5 DEF KdfNext
<1>3. KdfInit => KdfHolds
  BY <1>1
<1>4. KdfHolds /\ [KdfNext]_kdfVars => KdfHolds'
  BY <1>2
<1>5. KdfHolds => KeyAsSet
  BY DEF KdfHolds, KeyAsSet
<1> QED BY <1>3, <1>4, <1>5, PTL DEF KdfSpec

------------------------------------------------------------------------------
(* RSA encryption.  What a context holds is what its side has asked for.     *)
AsymText == {"", "none", "unset", "pkcs1", "oaep", "tls", "kem", "rsasve", "enc", "dec", "SHA1"}
              \cup AsymMd \cup Labels \cup Versions
AsymObject == [op : AsymText, pad : AsymText, hash : AsymText, mgf : AsymText, mgfSet : BOOLEAN,
               mdName : AsymText, mgfName : AsymText, label : AsymText, client : AsymText,
               neg : AsymText]
AsymWanted == [pad : AsymText, md : AsymText, mgf : AsymText, label : AsymText,
               client : AsymText, neg : AsymText, sve : BOOLEAN, sets : Nat, copied : BOOLEAN]
Paddings == {"pkcs1", "oaep", "none", "tls"}

(* The mask follows the digest until it is set; a use may have written the   *)
(* default digest; a copy has no TLS versions.                               *)
CipherSays(d, w) ==
  /\ w.pad \in Paddings /\ w.md # "none"
  /\ d.pad = w.pad \/ (d.pad = "unset" /\ w.pad = "pkcs1")
  /\ IF w.md = "" THEN d.hash \in {"none", "SHA1"} ELSE d.hash = w.md
  /\ d.mgfSet = TRUE <=> w.mgf # ""
  /\ d.mgf = IF w.mgf # "" THEN w.mgf ELSE d.hash
  /\ d.label = w.label
  /\ w.copied = FALSE => d.client = w.client /\ d.neg = w.neg
KemSays(d, w) == d.op = "rsasve" <=> w.sve = TRUE
AsymSays(d, w) == (scheme = "cipher" => CipherSays(d, w)) /\ (scheme = "kem" => KemSays(d, w))

SentAsAsked ==
  /\ scheme = "cipher" => sent = NoCipher \/ \E m \in Versions : sent = CipherAsked(wants["enc"], m)
  /\ scheme = "kem" => sent = NoCipher \/ sent = Cipher("rsasve", "none", "none", "", "secret")

AsymInv ==
  /\ scheme \in {"cipher", "kem"}
  /\ party \in [Side -> AsymObject] /\ wants \in [Side -> AsymWanted]
  /\ \A x \in Side : AsymSays(party[x], wants[x])
  /\ SentAsAsked
  /\ reply.got = reply.due

LEMMA AsymTexts ==
  /\ {"", "none", "unset", "pkcs1", "oaep", "tls", "kem", "rsasve", "enc", "dec", "SHA1"}
       \subseteq AsymText
  /\ AsymMd \subseteq AsymText /\ Labels \subseteq AsymText /\ Versions \subseteq AsymText
  /\ Side \subseteq AsymText /\ Paddings \subseteq AsymText
BY DEF AsymText, Side, Paddings

LEMMA AsymNewSays ==
  ASSUME NEW n \in Nat
  PROVE  /\ AsymCtxNew \in AsymObject /\ [Unasked EXCEPT !.sets = n] \in AsymWanted
         /\ Unasked \in AsymWanted
         /\ AsymSays(AsymCtxNew, [Unasked EXCEPT !.sets = n]) /\ AsymSays(AsymCtxNew, Unasked)
<1>1. {"", "none", "unset", "pkcs1"} \subseteq AsymText /\ FALSE \in BOOLEAN /\ 0 \in Nat
  BY AsymTexts
<1>2. AsymCtxNew \in AsymObject
  <2> HIDE DEF AsymText
  <2> QED BY <1>1 DEF AsymCtxNew, AsymObject
<1>3. [Unasked EXCEPT !.sets = n] \in AsymWanted /\ Unasked \in AsymWanted
  <2> HIDE DEF AsymText
  <2> QED BY <1>1 DEF Unasked, AsymWanted
<1>4. AsymSays(AsymCtxNew, Unasked)
  BY DEF AsymSays, CipherSays, KemSays, AsymCtxNew, Unasked, Paddings
<1>5. AsymSays(AsymCtxNew, [Unasked EXCEPT !.sets = n])
  BY DEF AsymSays, CipherSays, KemSays, AsymCtxNew, Unasked, Paddings
<1> QED BY <1>2, <1>3, <1>4, <1>5

(* A setting taken is one asked for. *)
AsymTakes(r, w) == r.ok = TRUE => r.c \in AsymObject /\ w \in AsymWanted /\ CipherSays(r.c, w)

LEMMA AsymSettingTakes ==
  ASSUME NEW d \in AsymObject, NEW w \in AsymWanted, NEW s \in AsymSettings, CipherSays(d, w),
         d.pad # "unset"
  PROVE  AsymTakes(AsymSetCtxParam(d, s), [w EXCEPT !.sets = w.sets + 1, ![s.what] = s.to])
<1> DEFINE v == [w EXCEPT !.sets = w.sets + 1, ![s.what] = s.to]
           r == AsymSetCtxParam(d, s)
           n == w.sets + 1
<1>0. n \in Nat
  <2> HIDE DEF AsymText
  <2>1. w.sets \in Nat
    BY DEF AsymWanted
  <2> QED BY <2>1
<1> HIDE DEF AsymText, n
<1>1. s.to \in AsymText
  <2>1. s.to \in AsymMd \cup Labels \cup Versions \cup Paddings
    BY DEF AsymSettings, Paddings
  <2> QED BY <2>1, AsymTexts
<1>2. CASE s.what = "md"
  <2> DEFINE m == s.to
             e == [d EXCEPT !.hash = m, !.mdName = m]
             f == [e EXCEPT !.mgf = m, !.mgfName = m]
  <2>1. m # "" /\ m # "none"
    BY <1>2, AsymAssumption DEF AsymSettings
  <2>2. v \in AsymWanted /\ v = [w EXCEPT !.sets = w.sets + 1, !.md = m]
    <3>1. v = [w EXCEPT !.sets = w.sets + 1, !.md = m]
      <4> HIDE DEF AsymWanted, AsymObject
      <4> QED BY <1>2
    <3>2. [w EXCEPT !.sets = n, !.md = m] \in AsymWanted
      BY <1>0, <1>1 DEF AsymWanted
    <3> QED BY <3>1, <3>2 DEF n
  <2>3. /\ v.pad = w.pad /\ v.mgf = w.mgf /\ v.md = m /\ v.label = w.label
        /\ v.client = w.client /\ v.neg = w.neg /\ v.copied = w.copied
    BY <2>2 DEF AsymWanted
  <2>4. e \in AsymObject /\ f \in AsymObject
    BY <1>1 DEF AsymObject
  <2>5. /\ e.pad = d.pad /\ e.hash = m /\ e.mgfSet = d.mgfSet /\ e.mgf = d.mgf
        /\ e.label = d.label /\ e.client = d.client /\ e.neg = d.neg
    BY DEF AsymObject
  <2>6. /\ f.pad = d.pad /\ f.hash = m /\ f.mgfSet = d.mgfSet /\ f.mgf = m
        /\ f.label = d.label /\ f.client = d.client /\ f.neg = d.neg
    BY DEF AsymObject
  <2>7. r.ok = TRUE => r.c = IF d.mgfSet = TRUE THEN e ELSE f
    <3>1. d.mgfSet = [d EXCEPT !.hash = m].mgfSet /\ d.mgfSet \in BOOLEAN
      BY DEF AsymObject
    <3> QED BY <1>2, <3>1 DEF AsymSetCtxParam, AsymSetupMd, Yes, No, AsymObject
  <2> HIDE DEF v, r, e, f, m, AsymObject, AsymWanted
  <2>8. CipherSays(IF d.mgfSet = TRUE THEN e ELSE f, v)
    <3>1. CASE d.mgfSet = TRUE
      BY <2>1, <2>3, <2>5, <3>1 DEF CipherSays
    <3>2. CASE d.mgfSet # TRUE
      BY <2>1, <2>3, <2>6, <3>2 DEF CipherSays
    <3> QED BY <3>1, <3>2
  <2> QED BY <2>2, <2>4, <2>7, <2>8 DEF AsymTakes, v, r
<1>3. CASE s.what = "mgf"
  <2> DEFINE m == s.to
             e == [d EXCEPT !.mgfName = m, !.mgf = m, !.mgfSet = TRUE]
  <2>1. m # "" /\ m # "none"
    BY <1>3, AsymAssumption DEF AsymSettings
  <2>2. v \in AsymWanted /\ v = [w EXCEPT !.sets = w.sets + 1, !.mgf = m]
    <3>1. v = [w EXCEPT !.sets = w.sets + 1, !.mgf = m]
      <4> HIDE DEF AsymWanted, AsymObject
      <4> QED BY <1>3
    <3>2. [w EXCEPT !.sets = n, !.mgf = m] \in AsymWanted
      BY <1>0, <1>1 DEF AsymWanted
    <3> QED BY <3>1, <3>2 DEF n
  <2>3. /\ v.pad = w.pad /\ v.mgf = m /\ v.md = w.md /\ v.label = w.label
        /\ v.client = w.client /\ v.neg = w.neg /\ v.copied = w.copied
    BY <2>2 DEF AsymWanted
  <2>4. e \in AsymObject
    BY <1>1 DEF AsymObject
  <2>5. /\ e.pad = d.pad /\ e.hash = d.hash /\ e.mgfSet = TRUE /\ e.mgf = m
        /\ e.label = d.label /\ e.client = d.client /\ e.neg = d.neg
    BY DEF AsymObject
  <2>6. r.ok = TRUE => r.c = e
    BY <1>3 DEF AsymSetCtxParam, AsymSetupMgf1, Yes, No, AsymObject
  <2> HIDE DEF v, r, e, m, AsymObject, AsymWanted
  <2>7. CipherSays(e, v)
    BY <2>1, <2>3, <2>5 DEF CipherSays
  <2> QED BY <2>2, <2>4, <2>6, <2>7 DEF AsymTakes, v, r
<1>4. CASE s.what = "pad"
  <2> DEFINE e == [d EXCEPT !.pad = s.to]
  <2>1. s.to \in Paddings
    BY <1>4 DEF AsymSettings, Paddings
  <2>2. v \in AsymWanted /\ v = [w EXCEPT !.sets = w.sets + 1, !.pad = s.to]
    <3>1. v = [w EXCEPT !.sets = w.sets + 1, !.pad = s.to]
      <4> HIDE DEF AsymWanted, AsymObject
      <4> QED BY <1>4
    <3>2. [w EXCEPT !.sets = n, !.pad = s.to] \in AsymWanted
      BY <1>0, <1>1 DEF AsymWanted
    <3> QED BY <3>1, <3>2 DEF n
  <2>3. /\ v.pad = s.to /\ v.mgf = w.mgf /\ v.md = w.md /\ v.label = w.label
        /\ v.client = w.client /\ v.neg = w.neg /\ v.copied = w.copied
    BY <2>2 DEF AsymWanted
  <2>4. e \in AsymObject
    BY <1>1 DEF AsymObject
  <2>5. /\ e.pad = s.to /\ e.hash = d.hash /\ e.mgfSet = d.mgfSet /\ e.mgf = d.mgf
        /\ e.label = d.label /\ e.client = d.client /\ e.neg = d.neg
    BY DEF AsymObject
  <2>6. r.ok = TRUE => r.c = e
    BY <1>4 DEF AsymSetCtxParam, AsymSetPadMode, Yes, No, AsymObject
  <2> HIDE DEF v, r, e, AsymObject, AsymWanted
  <2>7. CipherSays(e, v)
    BY <2>1, <2>3, <2>5 DEF CipherSays
  <2> QED BY <2>2, <2>4, <2>6, <2>7 DEF AsymTakes, v, r
<1>5. CASE s.what = "label"
  <2> DEFINE e == [d EXCEPT !.label = s.to]
  <2>2. v \in AsymWanted /\ v = [w EXCEPT !.sets = w.sets + 1, !.label = s.to]
    <3>1. v = [w EXCEPT !.sets = w.sets + 1, !.label = s.to]
      <4> HIDE DEF AsymWanted, AsymObject
      <4> QED BY <1>5
    <3>2. [w EXCEPT !.sets = n, !.label = s.to] \in AsymWanted
      BY <1>0, <1>1 DEF AsymWanted
    <3> QED BY <3>1, <3>2 DEF n
  <2>3. /\ v.pad = w.pad /\ v.mgf = w.mgf /\ v.md = w.md /\ v.label = s.to
        /\ v.client = w.client /\ v.neg = w.neg /\ v.copied = w.copied
    BY <2>2 DEF AsymWanted
  <2>4. e \in AsymObject
    BY <1>1 DEF AsymObject
  <2>5. /\ e.pad = d.pad /\ e.hash = d.hash /\ e.mgfSet = d.mgfSet /\ e.mgf = d.mgf
        /\ e.label = s.to /\ e.client = d.client /\ e.neg = d.neg
    BY DEF AsymObject
  <2>6. r.ok = TRUE => r.c = e
    BY <1>5 DEF AsymSetCtxParam, Yes, No, AsymObject
  <2> HIDE DEF v, r, e, AsymObject, AsymWanted
  <2>7. CipherSays(e, v)
    BY <2>3, <2>5 DEF CipherSays
  <2> QED BY <2>2, <2>4, <2>6, <2>7 DEF AsymTakes, v, r
<1>6. CASE s.what = "client"
  <2> DEFINE e == [d EXCEPT !.client = s.to]
  <2>2. v \in AsymWanted /\ v = [w EXCEPT !.sets = w.sets + 1, !.client = s.to]
    <3>1. v = [w EXCEPT !.sets = w.sets + 1, !.client = s.to]
      <4> HIDE DEF AsymWanted, AsymObject
      <4> QED BY <1>6
    <3>2. [w EXCEPT !.sets = n, !.client = s.to] \in AsymWanted
      BY <1>0, <1>1 DEF AsymWanted
    <3> QED BY <3>1, <3>2 DEF n
  <2>3. /\ v.pad = w.pad /\ v.mgf = w.mgf /\ v.md = w.md /\ v.label = w.label
        /\ v.client = s.to /\ v.neg = w.neg /\ v.copied = w.copied
    BY <2>2 DEF AsymWanted
  <2>4. e \in AsymObject
    BY <1>1 DEF AsymObject
  <2>5. /\ e.pad = d.pad /\ e.hash = d.hash /\ e.mgfSet = d.mgfSet /\ e.mgf = d.mgf
        /\ e.label = d.label /\ e.client = s.to /\ e.neg = d.neg
    BY DEF AsymObject
  <2>6. r.ok = TRUE => r.c = e
    BY <1>6 DEF AsymSetCtxParam, Yes, No, AsymObject
  <2> HIDE DEF v, r, e, AsymObject, AsymWanted
  <2>7. CipherSays(e, v)
    BY <2>3, <2>5 DEF CipherSays
  <2> QED BY <2>2, <2>4, <2>6, <2>7 DEF AsymTakes, v, r
<1>7. CASE s.what = "neg"
  <2> DEFINE e == [d EXCEPT !.neg = s.to]
  <2>2. v \in AsymWanted /\ v = [w EXCEPT !.sets = w.sets + 1, !.neg = s.to]
    <3>1. v = [w EXCEPT !.sets = w.sets + 1, !.neg = s.to]
      <4> HIDE DEF AsymWanted, AsymObject
      <4> QED BY <1>7
    <3>2. [w EXCEPT !.sets = n, !.neg = s.to] \in AsymWanted
      BY <1>0, <1>1 DEF AsymWanted
    <3> QED BY <3>1, <3>2 DEF n
  <2>3. /\ v.pad = w.pad /\ v.mgf = w.mgf /\ v.md = w.md /\ v.label = w.label
        /\ v.client = w.client /\ v.neg = s.to /\ v.copied = w.copied
    BY <2>2 DEF AsymWanted
  <2>4. e \in AsymObject
    BY <1>1 DEF AsymObject
  <2>5. /\ e.pad = d.pad /\ e.hash = d.hash /\ e.mgfSet = d.mgfSet /\ e.mgf = d.mgf
        /\ e.label = d.label /\ e.client = d.client /\ e.neg = s.to
    BY DEF AsymObject
  <2>6. r.ok = TRUE => r.c = e
    BY <1>7 DEF AsymSetCtxParam, Yes, No, AsymObject
  <2> HIDE DEF v, r, e, AsymObject, AsymWanted
  <2>7. CipherSays(e, v)
    BY <2>3, <2>5 DEF CipherSays
  <2> QED BY <2>2, <2>4, <2>6, <2>7 DEF AsymTakes, v, r
<1>8. s.what \in {"md", "mgf", "pad", "label", "client", "neg"}
  BY DEF AsymSettings
<1> QED BY <1>2, <1>3, <1>4, <1>5, <1>6, <1>7, <1>8

LEMMA AsymAnswers ==
  ASSUME NEW d, NEW s \in AsymSettings
  PROVE  AsymSetCtxParam(d, s).ok = TRUE \/ AsymSetCtxParam(d, s).ok = FALSE
<1>1. s.what \in {"md", "mgf", "pad", "label", "client", "neg"}
  BY DEF AsymSettings
<1>2. CASE s.what = "md"
  BY <1>2 DEF AsymSetCtxParam, AsymSetupMd, Yes, No
<1>3. CASE s.what = "mgf"
  BY <1>3 DEF AsymSetCtxParam, AsymSetupMgf1, Yes, No
<1>4. CASE s.what = "pad"
  BY <1>4 DEF AsymSetCtxParam, AsymSetPadMode, Yes
<1>5. CASE s.what \in {"label", "client", "neg"}
  BY <1>5 DEF AsymSetCtxParam, Yes
<1> QED BY <1>1, <1>2, <1>3, <1>4, <1>5

(* A side that changes what it has does so before it has encrypted, or       *)
(* without asking for anything else.                                         *)
LEMMA AsymSideKeeps ==
  ASSUME AsymInv, NEW x \in Side, NEW d \in AsymObject, NEW w \in AsymWanted, AsymSays(d, w),
         party' = [party EXCEPT ![x] = d], wants' = [wants EXCEPT ![x] = w],
         UNCHANGED <<scheme, sent, reply>>, x = "enc" => sent = NoCipher \/ w = wants["enc"]
  PROVE  AsymInv'
<1> HIDE DEF AsymObject, AsymWanted
<1>1. /\ party' \in [Side -> AsymObject] /\ wants' \in [Side -> AsymWanted]
      /\ \A y \in Side : /\ party'[y] = (IF y = x THEN d ELSE party[y])
                         /\ wants'[y] = (IF y = x THEN w ELSE wants[y])
  BY DEF AsymInv
<1>2. ASSUME NEW y \in Side PROVE AsymSays(party[y], wants[y])'
  <2>1. AsymSays(party'[y], wants'[y])
    BY <1>1, Zenon DEF AsymInv
  <2> HIDE DEF AsymInv
  <2> QED BY <2>1 DEF AsymSays, CipherSays, KemSays
<1>3. SentAsAsked'
  <2>1. SentAsAsked /\ "enc" \in Side
    BY DEF AsymInv, Side
  <2>2. sent' = NoCipher \/ wants'["enc"] = wants["enc"]
    BY <1>1, <2>1
  <2> HIDE DEF AsymInv, NoCipher
  <2>3. scheme = "cipher" => sent = NoCipher \/ \E m \in Versions : sent = CipherAsked(wants'["enc"], m)
    BY <2>1, <2>2 DEF SentAsAsked
  <2>4. CipherAsked(wants["enc"], 0)' = CipherAsked(wants'["enc"], 0)
    BY DEF CipherAsked, HashAsked, MgfAsked, Cipher
  <2> QED BY <2>1, <2>3 DEF SentAsAsked, CipherAsked, HashAsked, MgfAsked, Cipher
<1> QED BY <1>1, <1>2, <1>3 DEF AsymInv

LEMMA StartAsymKeeps ==
  ASSUME AsymInv, NEW x \in Side, StartAsym(x)
  PROVE  AsymInv'
<1> DEFINE c == party[x]
           w == wants[x]
           d == IF scheme = "cipher" THEN AsymCtxInit(c, x) ELSE [c EXCEPT !.pad = "kem"]
<1>1. c \in AsymObject /\ w \in AsymWanted /\ AsymSays(c, w) /\ scheme \in {"cipher", "kem"}
  BY DEF AsymInv
<1>2. /\ c.pad = "unset" /\ party' = [party EXCEPT ![x] = d]
      /\ UNCHANGED <<scheme, wants, sent, reply>>
  BY Zenon DEF StartAsym
<1>3. wants' = [wants EXCEPT ![x] = w]
  BY <1>2 DEF AsymInv
<1>4. x \in AsymText /\ "pkcs1" \in AsymText /\ "kem" \in AsymText
  BY AsymTexts
<1>5. d \in AsymObject
  <2> HIDE DEF AsymText, c
  <2> QED BY <1>1, <1>4 DEF AsymObject, AsymCtxInit
<1>6. AsymSays(d, w)
  <2>1. CASE scheme = "cipher"
    <3>1. /\ d.pad = "pkcs1" /\ d.hash = c.hash /\ d.mgfSet = c.mgfSet /\ d.mgf = c.mgf
          /\ d.label = c.label /\ d.client = c.client /\ d.neg = c.neg
      BY <1>1, <2>1 DEF AsymObject, AsymCtxInit
    <3> HIDE DEF d, c, w, AsymObject, AsymWanted
    <3>2. w.pad = "pkcs1"
      BY <1>1, <1>2, <2>1 DEF AsymSays, CipherSays, Paddings
    <3> QED BY <1>1, <2>1, <3>1, <3>2 DEF AsymSays, CipherSays
  <2>2. CASE scheme = "kem"
    <3>1. d.op = c.op
      BY <1>1, <2>2 DEF AsymObject
    <3> HIDE DEF d, c, w, AsymObject, AsymWanted
    <3> QED BY <1>1, <2>2, <3>1 DEF AsymSays, KemSays
  <2> QED BY <1>1, <2>1, <2>2
<1> HIDE DEF c, d, AsymObject, AsymWanted
<1> QED BY <1>1, <1>2, <1>3, <1>5, <1>6, AsymSideKeeps

LEMMA SetAsymKeeps ==
  ASSUME AsymInv, NEW x \in Side, NEW s \in AsymSettings, SetAsym(x, s)
  PROVE  AsymInv'
<1> DEFINE d == party[x]
           w == wants[x]
           r == AsymSetCtxParam(d, s)
           v == [w EXCEPT !.sets = w.sets + 1, ![s.what] = s.to]
           u == [Unasked EXCEPT !.sets = w.sets]
<1>1. d \in AsymObject /\ w \in AsymWanted /\ AsymSays(d, w)
  BY DEF AsymInv
<1>2. /\ scheme = "cipher" /\ d.pad # "unset" /\ (x = "enc" => sent = NoCipher)
      /\ UNCHANGED <<scheme, sent, reply>>
      /\ IF r.ok THEN party' = [party EXCEPT ![x] = r.c] /\ wants' = [wants EXCEPT ![x] = v]
         ELSE party' = [party EXCEPT ![x] = AsymCtxNew] /\ wants' = [wants EXCEPT ![x] = u]
  BY DEF SetAsym, Busy
<1>3. CipherSays(d, w)
  BY <1>1, <1>2 DEF AsymSays
<1>4. AsymTakes(r, v) /\ (r.ok = TRUE \/ r.ok = FALSE)
  BY <1>1, <1>2, <1>3, AsymSettingTakes, AsymAnswers
<1>5. u \in AsymWanted /\ AsymCtxNew \in AsymObject /\ AsymSays(AsymCtxNew, u)
  <2>1. w.sets \in Nat
    BY <1>1 DEF AsymWanted
  <2> HIDE DEF w
  <2> QED BY <2>1, AsymNewSays
<1> HIDE DEF d, w, r, v, u, AsymObject, AsymWanted
<1>6. CASE r.ok = TRUE
  <2>1. r.c \in AsymObject /\ v \in AsymWanted /\ AsymSays(r.c, v)
    BY <1>2, <1>4, <1>6 DEF AsymTakes, AsymSays
  <2>2. party' = [party EXCEPT ![x] = r.c] /\ wants' = [wants EXCEPT ![x] = v]
    BY <1>2, <1>6
  <2> QED BY <1>2, <2>1, <2>2, AsymSideKeeps
<1>7. CASE r.ok = FALSE
  <2>1. party' = [party EXCEPT ![x] = AsymCtxNew] /\ wants' = [wants EXCEPT ![x] = u]
    BY <1>2, <1>7
  <2> QED BY <1>2, <1>5, <2>1, AsymSideKeeps
<1> QED BY <1>4, <1>6, <1>7

LEMMA SetKemKeeps ==
  ASSUME AsymInv, NEW x \in Side, SetKem(x)
  PROVE  AsymInv'
<1> DEFINE c == party[x]
           w == wants[x]
           d == [c EXCEPT !.op = "rsasve"]
           v == [w EXCEPT !.sve = TRUE]
<1>1. c \in AsymObject /\ w \in AsymWanted
  BY DEF AsymInv
<1>2. /\ scheme = "kem" /\ party' = [party EXCEPT ![x] = d] /\ wants' = [wants EXCEPT ![x] = v]
      /\ (x = "enc" => sent = NoCipher) /\ UNCHANGED <<scheme, sent, reply>>
  BY DEF SetKem, Busy, KemSetCtxParam
<1>3. d \in AsymObject /\ d.op = "rsasve"
  <2>1. "rsasve" \in AsymText
    BY AsymTexts
  <2> HIDE DEF AsymText, c
  <2> QED BY <1>1, <2>1 DEF AsymObject
<1>4. v \in AsymWanted /\ v.sve = TRUE
  <2> HIDE DEF AsymText, w
  <2> QED BY <1>1 DEF AsymWanted
<1> HIDE DEF d, v, AsymObject, AsymWanted
<1>5. AsymSays(d, v)
  BY <1>2, <1>3, <1>4 DEF AsymSays, KemSays
<1> QED BY <1>2, <1>3, <1>4, <1>5, AsymSideKeeps

LEMMA CopyAsymKeeps ==
  ASSUME AsymInv, NEW x \in Side, CopyAsym(x)
  PROVE  AsymInv'
<1> DEFINE c == party[x]
           w == wants[x]
           d == IF scheme = "cipher" THEN AsymCtxDup(c) ELSE [KemCtxDup(c) EXCEPT !.pad = "kem"]
           v == [w EXCEPT !.copied = TRUE]
<1>1. c \in AsymObject /\ w \in AsymWanted /\ AsymSays(c, w) /\ scheme \in {"cipher", "kem"}
  BY DEF AsymInv
<1>2. /\ party' = [party EXCEPT ![x] = d] /\ wants' = [wants EXCEPT ![x] = v]
      /\ (x = "enc" => sent = NoCipher) /\ UNCHANGED <<scheme, sent, reply>>
  BY Zenon DEF CopyAsym, Busy
<1>3. d \in AsymObject
  <2>1. "" \in AsymText /\ "kem" \in AsymText /\ c.op \in AsymText /\ AsymCtxNew \in AsymObject
    BY <1>1, AsymTexts, AsymNewSays DEF AsymObject
  <2>2. CASE scheme = "cipher"
    <3> HIDE DEF AsymText, c
    <3> QED BY <1>1, <2>1, <2>2 DEF AsymObject, AsymCtxDup
  <2>3. CASE scheme = "kem"
    <3> DEFINE o == AsymCtxNew
    <3>1. d = [[o EXCEPT !.op = c.op] EXCEPT !.pad = "kem"]
      BY <2>3 DEF KemCtxDup, KemCtxNew
    <3>2. o \in AsymObject
      BY <2>1
    <3> HIDE DEF AsymText, c, o, d
    <3> QED BY <2>1, <3>1, <3>2 DEF AsymObject
  <2> QED BY <1>1, <2>2, <2>3
<1>4. /\ v \in AsymWanted /\ v.copied = TRUE /\ v.pad = w.pad /\ v.md = w.md /\ v.mgf = w.mgf
      /\ v.label = w.label /\ v.sve = w.sve
  <2> HIDE DEF AsymText, w
  <2> QED BY <1>1 DEF AsymWanted
<1>5. AsymSays(d, v)
  <2>1. CASE scheme = "cipher"
    <3>1. /\ d.pad = c.pad /\ d.hash = c.hash /\ d.mgfSet = c.mgfSet /\ d.mgf = c.mgf
          /\ d.label = c.label
      BY <1>1, <2>1 DEF AsymObject, AsymCtxDup
    <3> HIDE DEF d, c, w, v, AsymObject, AsymWanted
    <3> QED BY <1>1, <1>4, <2>1, <3>1 DEF AsymSays, CipherSays
  <2>2. CASE scheme = "kem"
    <3>1. d.op = c.op
      BY <2>2 DEF KemCtxDup, KemCtxNew, AsymCtxNew
    <3> HIDE DEF d, c, w, v, AsymObject, AsymWanted
    <3> QED BY <1>1, <1>4, <2>2, <3>1 DEF AsymSays, KemSays
  <2> QED BY <1>1, <2>1, <2>2
<1> HIDE DEF c, d, w, v, AsymObject, AsymWanted
<1> QED BY <1>2, <1>3, <1>4, <1>5, AsymSideKeeps

------------------------------------------------------------------------------
(* The ciphertext is the one asked for, and opens as it is to.               *)
LEMMA EncryptsAsAsked ==
  ASSUME NEW d \in AsymObject, NEW w \in AsymWanted, CipherSays(d, w), d.pad # "unset", NEW m,
         ~(w.mgf # "" /\ w.md = "")
  PROVE  AsymEncrypt(d, m) = CipherAsked(w, m)
<1>1. /\ OaepDefault(d).hash = IF d.hash = "none" THEN "SHA1" ELSE d.hash
      /\ OaepDefault(d).mgf = IF d.hash = "none" THEN "SHA1" ELSE d.mgf
  BY DEF OaepDefault, AsymObject
<1>2. d.pad = w.pad /\ w.pad \in Paddings /\ d.label = w.label
  BY DEF CipherSays
<1> HIDE DEF AsymObject, AsymWanted
<1>3. OaepDefault(d).hash = HashAsked(w) /\ OaepDefault(d).mgf = MgfAsked(w)
  BY <1>1 DEF CipherSays, HashAsked, MgfAsked
<1> HIDE DEF OaepDefault
<1> QED BY <1>2, <1>3 DEF AsymEncrypt, CipherAsked, Paddings

(* A use leaves a context that says the same. *)
LEMMA UsedSays ==
  ASSUME NEW d \in AsymObject, NEW w \in AsymWanted, CipherSays(d, w),
         ~(w.mgf # "" /\ w.md = "")
  PROVE  Used(d) \in AsymObject /\ CipherSays(Used(d), w)
<1> DEFINE e == [d EXCEPT !.hash = "SHA1", !.mgf = "SHA1"]
<1>1. Used(d) = d \/ (d.hash = "none" /\ Used(d) = e)
  BY DEF Used, OaepDefault
<1>2. e \in AsymObject
  <2>1. "SHA1" \in AsymText
    BY AsymTexts
  <2> HIDE DEF AsymText
  <2> QED BY <2>1 DEF AsymObject
<1>3. /\ e.pad = d.pad /\ e.hash = "SHA1" /\ e.mgfSet = d.mgfSet /\ e.mgf = "SHA1"
      /\ e.label = d.label /\ e.client = d.client /\ e.neg = d.neg
  BY DEF AsymObject
<1> HIDE DEF e, AsymObject, AsymWanted
<1>4. d.hash = "none" => CipherSays(e, w)
  BY <1>3 DEF CipherSays
<1> QED BY <1>1, <1>2, <1>4

CipherForm(e, m) ==
  /\ e = Cipher(e.pad, e.hash, e.mgf, e.label, e.msg) /\ e.msg = m
  /\ e.pad \in {"pkcs1", "oaep", "none"}
  /\ e.pad = "pkcs1" => e.hash = "none" /\ e.mgf = "none" /\ e.label = NoName

LEMMA CipherAskedForm ==
  ASSUME NEW v, v.pad \in Paddings, NEW m, NEW e, e = CipherAsked(v, m)
  PROVE  CipherForm(e, m)
<1>1. \/ e = Cipher("pkcs1", "none", "none", NoName, m)
      \/ e = Cipher("none", "none", "none", NoName, m)
      \/ e = Cipher("oaep", HashAsked(v), MgfAsked(v), v.label, m)
  BY DEF CipherAsked, Paddings, NoName
<1>2. CASE e = Cipher("pkcs1", "none", "none", NoName, m)
  <2>1. e.pad = "pkcs1" /\ e.hash = "none" /\ e.mgf = "none" /\ e.label = NoName /\ e.msg = m
    BY <1>2 DEF Cipher
  <2>2. e = Cipher(e.pad, e.hash, e.mgf, e.label, e.msg)
    BY <1>2 DEF Cipher
  <2> QED BY <2>1, <2>2 DEF CipherForm
<1>3. CASE e = Cipher("none", "none", "none", NoName, m)
  <2>1. e.pad = "none" /\ e.msg = m
    BY <1>3 DEF Cipher
  <2>2. e = Cipher(e.pad, e.hash, e.mgf, e.label, e.msg)
    BY <1>3 DEF Cipher
  <2> QED BY <2>1, <2>2 DEF CipherForm
<1>4. CASE e = Cipher("oaep", HashAsked(v), MgfAsked(v), v.label, m)
  <2>1. e.pad = "oaep" /\ e.msg = m
    BY <1>4 DEF Cipher
  <2>2. e = Cipher(e.pad, e.hash, e.mgf, e.label, e.msg)
    BY <1>4 DEF Cipher
  <2> QED BY <2>1, <2>2 DEF CipherForm
<1> QED BY <1>1, <1>2, <1>3, <1>4

(* Which ciphertexts open. *)
LEMMA OpensPkcs1 ==
  ASSUME NEW e, NEW m, CipherForm(e, m), NEW w, w.pad = "pkcs1"
  PROVE  e.pad = "pkcs1" <=> e = CipherAsked(w, e.msg)
<1>1. CipherAsked(w, e.msg) = Cipher("pkcs1", "none", "none", NoName, e.msg)
  BY DEF CipherAsked, NoName
<1> HIDE DEF CipherAsked
<1>2. CipherAsked(w, e.msg).pad = "pkcs1"
  <2> DEFINE a == CipherAsked(w, e.msg)
  <2>1. a = Cipher("pkcs1", "none", "none", NoName, e.msg)
    BY <1>1
  <2> HIDE DEF a
  <2>2. a.pad = "pkcs1"
    BY <2>1 DEF Cipher
  <2> QED BY <2>2 DEF a
<1> QED BY <1>1, <1>2 DEF CipherForm

LEMMA OpensOaep ==
  ASSUME NEW e, NEW m, CipherForm(e, m), NEW w, w.pad = "oaep"
  PROVE  e.pad = "oaep" /\ e.hash = HashAsked(w) /\ e.mgf = MgfAsked(w) /\ e.label = w.label
           <=> e = CipherAsked(w, e.msg)
<1> DEFINE a == CipherAsked(w, e.msg)
           h == HashAsked(w)
           g == MgfAsked(w)
<1>1. a = Cipher("oaep", h, g, w.label, e.msg)
  BY DEF CipherAsked
<1> HIDE DEF a, h, g
<1>2. a.pad = "oaep" /\ a.hash = h /\ a.mgf = g /\ a.label = w.label
  BY <1>1 DEF Cipher
<1>3. e.pad = "oaep" /\ e.hash = h /\ e.mgf = g /\ e.label = w.label
        <=> e = a
  BY <1>1, <1>2 DEF CipherForm
<1> QED BY <1>3 DEF a, h, g

LEMMA DecryptsAsDue ==
  ASSUME NEW d \in AsymObject, NEW w \in AsymWanted, CipherSays(d, w), d.pad # "unset",
         ~(w.mgf # "" /\ w.md = ""), ~(w.copied /\ w.pad = "tls"),
         NEW v, v.pad \in Paddings, NEW m \in Versions, NEW e, e = CipherAsked(v, m)
  PROVE  AsymDecrypt(d, e) = DueOf(w, e)
<1>1. /\ OaepDefault(d).hash = IF d.hash = "none" THEN "SHA1" ELSE d.hash
      /\ OaepDefault(d).mgf = IF d.hash = "none" THEN "SHA1" ELSE d.mgf
  BY DEF OaepDefault, AsymObject
<1>2. /\ d.pad = w.pad /\ w.pad \in Paddings /\ d.label = w.label
      /\ w.pad = "tls" => d.client = w.client /\ d.neg = w.neg
  <2>1. w.copied \in BOOLEAN
    BY DEF AsymWanted
  <2> HIDE DEF AsymObject, AsymWanted
  <2>2. w.copied = FALSE \/ w.pad # "tls"
    BY <2>1
  <2> QED BY <2>2 DEF CipherSays
<1> HIDE DEF AsymObject, AsymWanted
<1>3. OaepDefault(d).hash = HashAsked(w) /\ OaepDefault(d).mgf = MgfAsked(w)
  BY <1>1 DEF CipherSays, HashAsked, MgfAsked
<1>4. CipherForm(e, m) /\ e.msg = m /\ m # ""
  <2>1. CipherForm(e, m)
    BY CipherAskedForm
  <2>2. m # ""
    BY AsymAssumption
  <2> QED BY <2>1, <2>2 DEF CipherForm
<1> HIDE DEF OaepDefault, HashAsked, MgfAsked
<1>5. CASE w.pad = "pkcs1"
  <2>1. e.pad = "pkcs1" <=> e = CipherAsked(w, e.msg)
    BY <1>4, <1>5, OpensPkcs1
  <2> HIDE DEF CipherAsked
  <2> QED BY <1>2, <1>5, <2>1 DEF AsymDecrypt, DueOf
<1>6. CASE w.pad = "oaep"
  <2>1. e.pad = "oaep" /\ e.hash = HashAsked(w) /\ e.mgf = MgfAsked(w) /\ e.label = w.label
          <=> e = CipherAsked(w, e.msg)
    BY <1>4, <1>6, OpensOaep
  <2> HIDE DEF CipherAsked
  <2> QED BY <1>2, <1>3, <1>6, <2>1 DEF AsymDecrypt, DueOf
<1>7. CASE w.pad = "tls"
  <2>1. AsymDecrypt(d, e) = IF w.client = "" THEN "fail"
                            ELSE IF e.pad = "pkcs1" /\ (m = w.client \/ (w.neg # "" /\ m = w.neg))
                                 THEN m ELSE "random"
    BY <1>2, <1>4, <1>7 DEF AsymDecrypt, TlsUnpad, TlsSecret
  <2>2. DueOf(w, e) = IF w.client = "" THEN "fail"
                      ELSE IF e.pad = "pkcs1" /\ m \in {w.client, w.neg} THEN m ELSE "random"
    BY <1>4, <1>7 DEF DueOf
  <2>3. m = w.client \/ (w.neg # "" /\ m = w.neg) <=> m \in {w.client, w.neg}
    BY <1>4
  <2> QED BY <2>1, <2>2, <2>3
<1>8. CASE w.pad = "none"
  BY <1>2, <1>8 DEF AsymDecrypt, DueOf
<1> QED BY <1>2, <1>5, <1>6, <1>7, <1>8 DEF Paddings

LEMMA UsualMeans ==
  ASSUME AsymHabits = {}, AsymInv, NEW x \in Side, Usual(x)
  PROVE  ~(wants[x].mgf # "" /\ wants[x].md = "") /\ ~(wants[x].copied /\ wants[x].pad = "tls")
<1>1. /\ wants[x].mgf # "" /\ wants[x].md = "" => FALSE
      /\ wants[x].copied /\ wants[x].pad = "tls" => FALSE
  BY DEF Usual
<1> QED BY <1>1

LEMMA AsymUseKeeps ==
  ASSUME AsymInv, scheme = "cipher", NEW x \in Side, ~(wants[x].mgf # "" /\ wants[x].md = ""),
         party' = [party EXCEPT ![x] = Used(party[x])], UNCHANGED <<scheme, wants>>
  PROVE  party' \in [Side -> AsymObject] /\ \A y \in Side : AsymSays(party[y], wants[y])'
<1> DEFINE d == Used(party[x])
           w == wants[x]
<1>1. d \in AsymObject /\ CipherSays(d, w)
  <2>1. party[x] \in AsymObject /\ w \in AsymWanted /\ CipherSays(party[x], w)
    BY DEF AsymInv, AsymSays
  <2> HIDE DEF w, AsymObject, AsymWanted
  <2>2. ~(w.mgf # "" /\ w.md = "")
    BY DEF w
  <2> QED BY <2>1, <2>2, UsedSays
<1> HIDE DEF d, AsymObject, AsymWanted
<1>2. /\ party' \in [Side -> AsymObject]
      /\ \A y \in Side : party'[y] = (IF y = x THEN d ELSE party[y])
  BY <1>1 DEF AsymInv, d
<1>3. ASSUME NEW y \in Side PROVE AsymSays(party[y], wants[y])'
  <2>1. AsymSays(party'[y], wants'[y])
    BY <1>1, <1>2 DEF AsymInv, AsymSays
  <2> HIDE DEF AsymInv
  <2> QED BY <2>1 DEF AsymSays, CipherSays, KemSays
<1> QED BY <1>2, <1>3

LEMMA EncryptKeeps ==
  ASSUME AsymHabits = {}, AsymInv, NEW m \in Versions, Encrypt(m)
  PROVE  AsymInv'
<1> DEFINE d == party["enc"]
           w == wants["enc"]
<1>1. "enc" \in Side
  BY DEF Side
<1>2. /\ scheme = "cipher" /\ d.pad # "unset" /\ Usual("enc")
      /\ sent' = AsymEncrypt(d, m) /\ party' = [party EXCEPT !["enc"] = Used(d)]
      /\ UNCHANGED <<scheme, wants, reply>>
  BY DEF Encrypt, Busy
<1>3. d \in AsymObject /\ w \in AsymWanted /\ CipherSays(d, w)
  BY <1>1, <1>2 DEF AsymInv, AsymSays
<1>4. ~(w.mgf # "" /\ w.md = "")
  BY <1>1, <1>2, UsualMeans
<1>5. sent' = CipherAsked(w, m)
  <2> HIDE DEF d, w, AsymObject, AsymWanted
  <2> QED BY <1>2, <1>3, <1>4, EncryptsAsAsked
<1>6. CipherAsked(w, m) = CipherAsked(wants["enc"], m)'
  BY <1>2 DEF CipherAsked, HashAsked, MgfAsked, Cipher
<1>7. SentAsAsked'
  BY <1>2, <1>5, <1>6 DEF SentAsAsked
<1>8. /\ party' \in [Side -> AsymObject] /\ \A y \in Side : AsymSays(party[y], wants[y])'
  BY <1>1, <1>2, <1>4, AsymUseKeeps
<1> HIDE DEF d, w, AsymObject, AsymWanted, AsymSays
<1> QED BY <1>2, <1>7, <1>8 DEF AsymInv

LEMMA EncapsulateKeeps ==
  ASSUME AsymInv, Encapsulate
  PROVE  AsymInv'
<1>1. /\ scheme = "kem" /\ sent' = KemEncapsulate(party["enc"])
      /\ UNCHANGED <<scheme, party, wants, reply>>
  BY DEF Encapsulate
<1>2. SentAsAsked'
  BY <1>1 DEF SentAsAsked, KemEncapsulate, RsasveGenerate
<1>3. ASSUME NEW y \in Side PROVE AsymSays(party[y], wants[y])'
  BY <1>1 DEF AsymInv, AsymSays, CipherSays, KemSays
<1> HIDE DEF AsymObject, AsymWanted
<1> QED BY <1>1, <1>2, <1>3 DEF AsymInv

(* An answer changes nothing that is asked for. *)
LEMMA AsymReplyKeeps ==
  ASSUME AsymInv, UNCHANGED <<scheme, wants, sent>>, reply'.got = reply'.due,
         party' \in [Side -> AsymObject] /\ \A y \in Side : AsymSays(party[y], wants[y])'
  PROVE  AsymInv'
<1>1. ASSUME NEW y \in Side PROVE AsymSays(party[y], wants[y])'
  OBVIOUS
<1>2. SentAsAsked'
  <2>1. SentAsAsked
    BY DEF AsymInv
  <2> HIDE DEF AsymInv
  <2> QED BY <2>1 DEF SentAsAsked, CipherAsked, HashAsked, MgfAsked, Cipher
<1> HIDE DEF AsymObject, AsymWanted
<1> QED BY <1>1, <1>2 DEF AsymInv

LEMMA DecryptKeeps ==
  ASSUME AsymHabits = {}, AsymInv, Decrypt
  PROVE  AsymInv'
<1> DEFINE d == party["dec"]
           w == wants["dec"]
           v == wants["enc"]
<1>1. "dec" \in Side /\ "enc" \in Side
  BY DEF Side
<1>2. /\ scheme = "cipher" /\ d.pad # "unset" /\ Usual("dec") /\ sent # NoCipher
      /\ reply' = [got |-> AsymDecrypt(d, sent), due |-> DueOf(w, sent)]
      /\ party' = [party EXCEPT !["dec"] = Used(d)] /\ UNCHANGED <<scheme, wants, sent>>
  BY DEF Decrypt, Busy
<1>3. d \in AsymObject /\ w \in AsymWanted /\ CipherSays(d, w) /\ v.pad \in Paddings
  BY <1>1, <1>2 DEF AsymInv, AsymSays, CipherSays
<1>4. ~(w.mgf # "" /\ w.md = "") /\ ~(w.copied /\ w.pad = "tls")
  BY <1>1, <1>2, UsualMeans
<1>5. PICK m \in Versions : sent = CipherAsked(v, m)
  <2>1. SentAsAsked
    BY DEF AsymInv
  <2> HIDE DEF CipherAsked, NoCipher
  <2> QED BY <1>2, <2>1 DEF SentAsAsked
<1> HIDE DEF d, w, v, AsymObject, AsymWanted
<1>6. AsymDecrypt(d, sent) = DueOf(w, sent)
  BY <1>2, <1>3, <1>4, <1>5, DecryptsAsDue
<1>7. reply'.got = reply'.due
  BY <1>2, <1>6
<1>8. /\ party' \in [Side -> AsymObject] /\ \A y \in Side : AsymSays(party[y], wants[y])'
  BY <1>1, <1>2, <1>4, AsymUseKeeps DEF d, w
<1> QED BY <1>2, <1>7, <1>8, AsymReplyKeeps

LEMMA DecapsulateKeeps ==
  ASSUME AsymInv, Decapsulate
  PROVE  AsymInv'
<1> DEFINE d == party["dec"]
           w == wants["dec"]
<1>1. /\ scheme = "kem" /\ sent # NoCipher /\ UNCHANGED <<scheme, party, wants, sent>>
      /\ reply' = [got |-> KemDecapsulate(d, sent), due |-> IF w.sve THEN "secret" ELSE "fail"]
  BY DEF Decapsulate
<1>2. sent.msg = "secret"
  <2> DEFINE empty == ""
  <2>1. sent = Cipher("rsasve", "none", "none", empty, "secret")
    <3> HIDE DEF Cipher, NoCipher
    <3> QED BY <1>1 DEF AsymInv, SentAsAsked
  <2> HIDE DEF empty
  <2> QED BY <2>1 DEF Cipher
<1>3. (d.op = "rsasve" <=> w.sve = TRUE) /\ w.sve \in BOOLEAN
  BY <1>1 DEF AsymInv, AsymSays, KemSays, AsymWanted, Side
<1> HIDE DEF d, w
<1>4. reply'.got = reply'.due
  BY <1>1, <1>2, <1>3 DEF KemDecapsulate, RsasveRecover
<1>5. /\ party' \in [Side -> AsymObject] /\ \A y \in Side : AsymSays(party[y], wants[y])'
  BY <1>1 DEF AsymInv, AsymSays, CipherSays, KemSays
<1> QED BY <1>1, <1>4, <1>5, AsymReplyKeeps

------------------------------------------------------------------------------
LEMMA AsymInvHolds ==
  ASSUME AsymHabits = {}
  PROVE  AsymSpec => []AsymInv
<1>1. ASSUME AsymInit PROVE AsymInv
  <2>1. AsymCtxNew \in AsymObject /\ Unasked \in AsymWanted /\ AsymSays(AsymCtxNew, Unasked)
    <3>1. 0 \in Nat
      OBVIOUS
    <3> QED BY <3>1, AsymNewSays
  <2>2. SentAsAsked /\ reply.got = reply.due
    BY <1>1 DEF AsymInit, SentAsAsked, Silence
  <2> HIDE DEF AsymObject, AsymWanted
  <2> QED BY <1>1, <2>1, <2>2 DEF AsymInit, AsymInv
<1>2. ASSUME AsymInv, [AsymNext]_asymVars PROVE AsymInv'
  <2>1. ASSUME NEW x \in Side, StartAsym(x) PROVE AsymInv'
    BY <1>2, <2>1, StartAsymKeeps
  <2>2. ASSUME NEW x \in Side, SetKem(x) PROVE AsymInv'
    BY <1>2, <2>2, SetKemKeeps
  <2>3. ASSUME NEW x \in Side, CopyAsym(x) PROVE AsymInv'
    BY <1>2, <2>3, CopyAsymKeeps
  <2>4. ASSUME NEW x \in Side, NEW s \in AsymSettings, SetAsym(x, s) PROVE AsymInv'
    BY <1>2, <2>4, SetAsymKeeps
  <2>5. ASSUME NEW m \in Versions, Encrypt(m) PROVE AsymInv'
    BY <1>2, <2>5, EncryptKeeps
  <2>6. ASSUME Encapsulate PROVE AsymInv'
    BY <1>2, <2>6, EncapsulateKeeps
  <2>7. ASSUME Decrypt PROVE AsymInv'
    BY <1>2, <2>7, DecryptKeeps
  <2>8. ASSUME Decapsulate PROVE AsymInv'
    BY <1>2, <2>8, DecapsulateKeeps
  <2>9. ASSUME UNCHANGED asymVars PROVE AsymInv'
    <3>1. reply'.got = reply'.due /\ UNCHANGED <<scheme, party, wants, sent>>
      BY <1>2, <2>9 DEF AsymInv, asymVars
    <3>2. /\ party' \in [Side -> AsymObject] /\ \A y \in Side : AsymSays(party[y], wants[y])'
      BY <1>2, <3>1 DEF AsymInv, AsymSays, CipherSays, KemSays
    <3> QED BY <1>2, <3>1, <3>2, AsymReplyKeeps
  <2> QED BY <1>2, <2>1, <2>2, <2>3, <2>4, <2>5, <2>6, <2>7, <2>8, <2>9 DEF AsymNext
<1>3. AsymInit => AsymInv
  BY <1>1
<1>4. AsymInv /\ [AsymNext]_asymVars => AsymInv'
  BY <1>2
<1> QED BY <1>3, <1>4, PTL DEF AsymSpec

(* A ciphertext is made with the padding, digest, mask and label the sender  *)
(* asked for, in whatever order it set them and whichever were refused:      *)
(* wp_rsa_asym.c, of programs with none of the habits.                       *)
THEOREM SpecEncryptedAsAsked ==
  ASSUME AsymHabits = {}
  PROVE  AsymSpec => []EncryptedAsAsked
<1>1. AsymInv => EncryptedAsAsked
  <2> SUFFICES ASSUME AsymInv, sent # NoCipher, scheme = "cipher"
               PROVE  sent = CipherAsked(wants["enc"], sent.msg)
    BY DEF EncryptedAsAsked
  <2>1. PICK m \in Versions : sent = CipherAsked(wants["enc"], m)
    <3>1. SentAsAsked
      BY DEF AsymInv
    <3> HIDE DEF CipherAsked, NoCipher
    <3> QED BY <3>1 DEF SentAsAsked
  <2>2. wants["enc"].pad \in Paddings
    BY DEF AsymInv, AsymSays, CipherSays, Side
  <2>3. sent.msg = m
    BY <2>1, <2>2 DEF CipherAsked, Cipher, Paddings
  <2> HIDE DEF CipherAsked
  <2> QED BY <2>1, <2>3
<1> QED BY <1>1, AsymInvHolds, PTL

(* The holder of the private key gets the message exactly when it asked for  *)
(* what the sender used, a premaster secret only in the versions it named,   *)
(* and an encapsulated secret only when it named RSASVE: wp_rsa_asym.c and   *)
(* wp_rsa_kem.c, of such programs.                                           *)
THEOREM SpecDecryptionTrue ==
  ASSUME AsymHabits = {}
  PROVE  AsymSpec => []DecryptionTrue
<1>1. AsymInv => DecryptionTrue
  BY DEF AsymInv, DecryptionTrue
<1> QED BY <1>1, AsymInvHolds, PTL

------------------------------------------------------------------------------
(* Curve secrets as numbers: the value of a prefix is Base times the value   *)
(* of the one before it, and the next digit.                                 *)
Number == [1 .. N -> 0 .. Base - 1]
PrefixValues(v, s) == /\ v \in [0 .. N -> Nat] /\ v[0] = 0
                /\ \A i \in 1 .. N : v[i] = Base * v[i - 1] + s[i]
Borrows(c, s) == /\ c \in [1 .. N + 1 -> {-1, 0}] /\ c[N + 1] = 0
                 /\ \A i \in 1 .. N : c[i] = (c[i + 1] + s[i] - CurveOrder[i]) \div Base

LEMMA ExchangeNumbers ==
  /\ N \in Nat /\ Base \in Nat \ {0, 1} /\ CurveOrder \in Number /\ XSecrets \subseteq Number
  /\ \A s \in Number : s \in Seq(0 .. Base - 1) /\ Len(s) = N
<1>1. N \in Nat /\ CurveOrder \in Number
  BY ExchangeAssumption, LenProperties DEF N, Number
<1>2. ASSUME NEW s \in Number PROVE s \in Seq(0 .. Base - 1) /\ Len(s) = N
  <2>1. s \in [1 .. N -> 0 .. Base - 1] /\ N \in Nat
    BY <1>1, <1>2 DEF Number
  <2> HIDE DEF N
  <2>2. s \in Seq(0 .. Base - 1)
    BY <2>1, SeqDef
  <2>3. DOMAIN s = 1 .. N /\ DOMAIN s = 1 .. Len(s) /\ Len(s) \in Nat
    BY <2>1, <2>2, LenProperties
  <2>4. Len(s) = N
    BY <2>1, <2>3
  <2> QED BY <2>2, <2>4
<1> QED BY <1>1, <1>2, ExchangeAssumption DEF Number, N

LEMMA Borrow ==
  ASSUME NEW b \in Nat \ {0, 1}, NEW a \in -b .. b - 1
  PROVE  /\ a \div b \in {-1, 0} /\ a % b \in 0 .. b - 1 /\ a = b * (a \div b) + (a % b)
         /\ a >= 0 => a \div b = 0
OBVIOUS

LEMMA DigitsBorrow ==
  ASSUME NEW c \in {-1, 0}, NEW x \in 0 .. Base - 1, NEW y \in 0 .. Base - 1
  PROVE  /\ c + x - y \in -Base .. Base - 1
         /\ (c + x - y) \div Base \in {-1, 0} /\ (c + x - y) % Base \in 0 .. Base - 1
         /\ c + x - y = Base * ((c + x - y) \div Base) + ((c + x - y) % Base)
         /\ c + x - y >= 0 => (c + x - y) \div Base = 0
<1> DEFINE a == c + x - y
<1>1. Base \in Nat \ {0, 1}
  BY ExchangeNumbers
<1>2. a \in -Base .. Base - 1
  BY <1>1
<1> HIDE DEF a
<1>3. /\ a \div Base \in {-1, 0} /\ a % Base \in 0 .. Base - 1
      /\ a = Base * (a \div Base) + (a % Base) /\ (a >= 0 => a \div Base = 0)
  BY <1>1, <1>2, Borrow
<1> QED BY <1>2, <1>3 DEF a

LEMMA ValueRuns ==
  ASSUME NEW s \in Number
  PROVE  \E v : PrefixValues(v, s) /\ ValueOf(s) = v[N]
<1> DEFINE v[i \in 0 .. Len(s)] == IF i = 0 THEN 0 ELSE Base * v[i - 1] + s[i]
           step == [i \in 1 .. N |-> [y \in Nat |-> Base * y + s[i]]]
<1>1. ValueOf(s) = v[Len(s)]
  BY Zenon DEF ValueOf
<1>2. Len(s) = N /\ N \in Nat /\ Base \in Nat /\ \A i \in 1 .. N : s[i] \in Nat
  BY ExchangeNumbers DEF Number
<1> HIDE DEF v
<1>3. \A i \in 1 .. N : \A y \in Nat : step[i][y] = Base * y + s[i] /\ step[i][y] \in Nat
  BY <1>2
<1> HIDE DEF step
<1>4. PICK g \in [0 .. N -> Nat] : LoopOf(g, N, 0, step)
  <2>1. StaysIn(step, N, Nat) /\ 0 \in Nat
    BY <1>3 DEF StaysIn
  <2> QED BY <1>2, <2>1, LoopIs
<1>5. \A i \in 0 .. N : g[i] = IF i = 0 THEN 0 ELSE Base * g[i - 1] + s[i]
  <2>1. \A i \in 0 .. N : g[i] = IF i = 0 THEN 0 ELSE step[i][g[i - 1]]
    BY <1>4, Zenon DEF LoopOf
  <2>2. \A i \in 0 .. N : i # 0 => i \in 1 .. N /\ g[i - 1] \in Nat
    BY <1>2
  <2> QED BY <1>3, <2>1, <2>2, Zenon
<1>6. g = [i \in 0 .. N |-> IF i = 0 THEN 0 ELSE Base * g[i - 1] + s[i]]
  BY <1>5
<1>7. \E l : l = [i \in 0 .. Len(s) |-> IF i = 0 THEN 0 ELSE Base * l[i - 1] + s[i]]
  BY <1>2, <1>6
<1>8. v = [i \in 0 .. Len(s) |-> IF i = 0 THEN 0 ELSE Base * v[i - 1] + s[i]]
  BY <1>7, Zenon DEF v
<1>9. \A i \in 0 .. N : v[i] = IF i = 0 THEN 0 ELSE Base * v[i - 1] + s[i]
  BY <1>2, <1>8, Zenon
<1> DEFINE D == {k \in Nat : k <= N => v[k] \in Nat}
<1>10. 0 \in D
  BY <1>2, <1>9
<1>11. ASSUME NEW k \in Nat, k \in D PROVE k + 1 \in D
  <2>1. SUFFICES ASSUME k + 1 <= N PROVE v[k + 1] \in Nat
    OBVIOUS
  <2>2. k + 1 \in 0 .. N /\ k + 1 # 0 /\ (k + 1) - 1 = k /\ v[k] \in Nat /\ s[k + 1] \in Nat
    BY <1>2, <1>11, <2>1
  <2>3. v[k + 1] = Base * v[(k + 1) - 1] + s[k + 1]
    BY <1>9, <2>2, Zenon
  <2>4. Base \in Nat /\ v[(k + 1) - 1] \in Nat
    BY <1>2, <2>2
  <2>5. Base * v[(k + 1) - 1] \in Nat
    BY <2>4
  <2> QED BY <2>2, <2>3, <2>5
<1> HIDE DEF D
<1>12. \A k \in Nat : k \in D
  BY <1>10, <1>11, AllNumbers
<1>13. v \in [0 .. N -> Nat]
  <2>1. \A i \in 0 .. N : v[i] \in Nat
    BY <1>2, <1>12 DEF D
  <2>2. v = [i \in 0 .. N |-> v[i]]
    BY <1>2, <1>8
  <2> QED BY <2>1, <2>2
<1>14. v[0] = 0 /\ \A i \in 1 .. N : v[i] = Base * v[i - 1] + s[i]
  BY <1>2, <1>9
<1>15. PrefixValues(v, s)
  BY <1>13, <1>14, Zenon DEF PrefixValues
<1> QED BY <1>1, <1>2, <1>15

(* The subtraction, from the last digit to the first. *)
LEMMA BorrowRuns ==
  ASSUME NEW s \in Number
  PROVE  \E c : /\ Borrows(c, s)
                /\ FromLast(s) = [i \in 1 .. N |-> (c[i + 1] + s[i] - CurveOrder[i]) % Base]
<1> DEFINE carry[i \in 1 .. N + 1] ==
             IF i = N + 1 THEN 0 ELSE (carry[i + 1] + s[i] - CurveOrder[i]) \div Base
           Next1(i, y) == (y + s[i] - CurveOrder[i]) \div Base
           step == [k \in 1 .. N |-> [y \in {-1, 0} |-> Next1(N + 1 - k, y)]]
<1>1. FromLast(s) = [i \in 1 .. N |-> (carry[i + 1] + s[i] - CurveOrder[i]) % Base]
  BY Zenon DEF FromLast
<1> HIDE DEF carry
<1>2. N \in Nat /\ \A i \in 1 .. N : s[i] \in 0 .. Base - 1 /\ CurveOrder[i] \in 0 .. Base - 1
  BY ExchangeNumbers DEF Number
<1>3. ASSUME NEW i \in 1 .. N, NEW y \in {-1, 0} PROVE Next1(i, y) \in {-1, 0}
  BY <1>2, DigitsBorrow
<1>4. \A k \in 1 .. N : \A y \in {-1, 0} : step[k][y] = Next1(N + 1 - k, y) /\ step[k][y] \in {-1, 0}
  <2>1. ASSUME NEW k \in 1 .. N, NEW y \in {-1, 0}
        PROVE  step[k][y] = Next1(N + 1 - k, y) /\ step[k][y] \in {-1, 0}
    <3>1. N + 1 - k \in 1 .. N
      BY <1>2
    <3>2. step[k][y] = Next1(N + 1 - k, y)
      OBVIOUS
    <3> HIDE DEF Next1, step
    <3> QED BY <1>3, <3>1, <3>2
  <2> QED BY <2>1
<1> HIDE DEF step, Next1
<1>5. PICK g \in [0 .. N -> {-1, 0}] : LoopOf(g, N, 0, step)
  <2>1. StaysIn(step, N, {-1, 0}) /\ 0 \in {-1, 0}
    BY <1>4 DEF StaysIn
  <2> QED BY <1>2, <2>1, LoopIs
<1>6. g[0] = 0 /\ \A k \in 1 .. N : g[k] = Next1(N + 1 - k, g[k - 1])
  <2>1. \A i \in 0 .. N : g[i] = IF i = 0 THEN 0 ELSE step[i][g[i - 1]]
    BY <1>5, Zenon DEF LoopOf
  <2>2. \A i \in 1 .. N : i \in 0 .. N /\ i # 0 /\ g[i - 1] \in {-1, 0}
    BY <1>2
  <2>3. 0 \in 0 .. N
    BY <1>2
  <2> QED BY <1>4, <2>1, <2>2, <2>3, Zenon
<1> DEFINE h == [i \in 1 .. N + 1 |-> g[N + 1 - i]]
<1>7. h \in [1 .. N + 1 -> {-1, 0}] /\ h[N + 1] = 0
  <2>1. \A i \in 1 .. N + 1 : N + 1 - i \in 0 .. N
    BY <1>2
  <2>2. N + 1 - (N + 1) = 0 /\ N + 1 \in 1 .. N + 1
    BY <1>2
  <2> QED BY <1>6, <2>1, <2>2
<1>8. ASSUME NEW i \in 1 .. N PROVE h[i] = Next1(i, h[i + 1])
  <2> DEFINE k == N + 1 - i
  <2>1. k \in 1 .. N /\ N + 1 - k = i /\ k - 1 = N + 1 - (i + 1) /\ i \in 1 .. N + 1
        /\ i + 1 \in 1 .. N + 1
    BY <1>2
  <2>2. h[i] = g[k] /\ h[i + 1] = g[N + 1 - (i + 1)]
    BY <2>1
  <2> HIDE DEF k, h
  <2>3. g[k] = Next1(N + 1 - k, g[k - 1])
    BY <1>6, <2>1
  <2> QED BY <2>1, <2>2, <2>3
<1> HIDE DEF h
<1>9. h = [i \in 1 .. N + 1 |-> IF i = N + 1 THEN 0
                                ELSE (h[i + 1] + s[i] - CurveOrder[i]) \div Base]
  <2>1. h = [i \in 1 .. N + 1 |-> h[i]]
    BY <1>7
  <2>2. ASSUME NEW i \in 1 .. N + 1
        PROVE  h[i] = IF i = N + 1 THEN 0 ELSE (h[i + 1] + s[i] - CurveOrder[i]) \div Base
    <3>1. CASE i = N + 1
      BY <1>7, <3>1
    <3>2. CASE i # N + 1
      <4>1. i \in 1 .. N
        BY <1>2, <3>2
      <4>2. h[i] = Next1(i, h[i + 1])
        BY <1>8, <4>1
      <4> QED BY <3>2, <4>2, Zenon DEF Next1
    <3> QED BY <3>1, <3>2
  <2> QED BY <2>1, <2>2, Zenon
<1>10. \E l : l = [i \in 1 .. N + 1 |-> IF i = N + 1 THEN 0
                                ELSE (l[i + 1] + s[i] - CurveOrder[i]) \div Base]
  BY <1>9, Zenon
<1>11. carry = [i \in 1 .. N + 1 |-> IF i = N + 1 THEN 0
                                ELSE (carry[i + 1] + s[i] - CurveOrder[i]) \div Base]
  BY <1>10, Zenon DEF carry
<1>12. /\ carry[N + 1] = 0
       /\ \A i \in 1 .. N : carry[i] = Next1(i, carry[i + 1])
  <2>1. N + 1 \in 1 .. N + 1 /\ \A i \in 1 .. N : i \in 1 .. N + 1 /\ i # N + 1
    BY <1>2
  <2>2. \A i \in 1 .. N + 1 : carry[i] = IF i = N + 1 THEN 0
                                ELSE (carry[i + 1] + s[i] - CurveOrder[i]) \div Base
    BY <1>11, Zenon
  <2> QED BY <2>1, <2>2, Zenon DEF Next1
<1> DEFINE D == {k \in Nat : k <= N => carry[N + 1 - k] \in {-1, 0}}
<1>13. 0 \in D
  <2>1. N + 1 - 0 = N + 1
    BY <1>2
  <2> QED BY <1>12, <2>1
<1>14. ASSUME NEW k \in Nat, k \in D PROVE k + 1 \in D
  <2>1. SUFFICES ASSUME k + 1 <= N PROVE carry[N + 1 - (k + 1)] \in {-1, 0}
    OBVIOUS
  <2>2. N + 1 - (k + 1) \in 1 .. N /\ N + 1 - (k + 1) + 1 = N + 1 - k
        /\ carry[N + 1 - k] \in {-1, 0}
    BY <1>2, <1>14, <2>1
  <2> DEFINE i == N + 1 - (k + 1)
  <2> HIDE DEF i
  <2>3. i \in 1 .. N /\ carry[i + 1] \in {-1, 0}
    BY <2>2 DEF i
  <2>4. carry[i] = Next1(i, carry[i + 1])
    BY <1>12, <2>3
  <2> QED BY <1>3, <2>3, <2>4 DEF i
<1> HIDE DEF D
<1>15. \A k \in Nat : k \in D
  BY <1>13, <1>14, AllNumbers
<1>16. carry \in [1 .. N + 1 -> {-1, 0}]
  <2>1. ASSUME NEW i \in 1 .. N + 1 PROVE carry[i] \in {-1, 0}
    <3>1. N + 1 - i \in Nat /\ N + 1 - i <= N /\ N + 1 - (N + 1 - i) = i
      BY <1>2
    <3>2. carry[N + 1 - (N + 1 - i)] \in {-1, 0}
      BY <1>15, <3>1 DEF D
    <3> QED BY <3>1, <3>2
  <2>2. carry = [i \in 1 .. N + 1 |-> carry[i]]
    BY <1>11
  <2> QED BY <2>1, <2>2
<1>17. Borrows(carry, s)
  BY <1>12, <1>16, Zenon DEF Borrows, Next1
<1> QED BY <1>1, <1>17

(* A borrow ends at the digit that can pay for it, and a secret that is the  *)
(* order or above it borrows nothing at its first digit.                     *)
LEMMA PaidFor ==
  ASSUME NEW s \in Number, NEW c, Borrows(c, s), NEW m \in 1 .. N + 1,
         c[m] = 0, SameUpTo(s, m - 1)
  PROVE  c[1] = 0
<1>1. N \in Nat /\ \A i \in 1 .. N : s[i] \in 0 .. Base - 1 /\ CurveOrder[i] \in 0 .. Base - 1
  BY ExchangeNumbers DEF Number
<1> DEFINE D == {k \in Nat : k <= m - 1 => c[m - k] = 0}
<1>2. 0 \in D
  BY <1>1
<1>3. ASSUME NEW k \in Nat, k \in D PROVE k + 1 \in D
  <2>1. SUFFICES ASSUME k + 1 <= m - 1 PROVE c[m - (k + 1)] = 0
    OBVIOUS
  <2>2. c[m - k] = 0
    BY <1>1, <1>3, <2>1
  <2> DEFINE j == m - (k + 1)
  <2>3. j \in 1 .. N /\ j \in 1 .. m - 1 /\ j + 1 = m - k
    BY <1>1, <2>1
  <2> HIDE DEF j
  <2>4. c[j] = (c[j + 1] + s[j] - CurveOrder[j]) \div Base
    BY <2>3 DEF Borrows
  <2>5. s[j] = CurveOrder[j] /\ c[j + 1] = 0
    BY <2>2, <2>3 DEF SameUpTo
  <2>6. s[j] \in 0 .. Base - 1 /\ CurveOrder[j] \in 0 .. Base - 1 /\ c[j + 1] \in {-1, 0}
    BY <1>1, <2>3, <2>5
  <2>7. c[j + 1] + s[j] - CurveOrder[j] >= 0
    BY <2>5, <2>6, ExchangeNumbers
  <2>8. c[j] = 0
    BY <2>4, <2>6, <2>7, DigitsBorrow
  <2> QED BY <2>8 DEF j
<1> HIDE DEF D
<1>4. m - 1 \in D
  BY <1>1, <1>2, <1>3, AllNumbers
<1> QED BY <1>1, <1>4 DEF D

LEMMA NoBorrow ==
  ASSUME NEW s \in Number, NEW c, Borrows(c, s), Above(s) \/ SameUpTo(s, N)
  PROVE  c[1] = 0
<1>1. N \in Nat /\ \A i \in 1 .. N : s[i] \in 0 .. Base - 1 /\ CurveOrder[i] \in 0 .. Base - 1
  BY ExchangeNumbers DEF Number
<1>2. CASE SameUpTo(s, N)
  <2>1. N + 1 \in 1 .. N + 1 /\ (N + 1) - 1 = N /\ c[N + 1] = 0
    BY <1>1 DEF Borrows
  <2>2. SameUpTo(s, (N + 1) - 1)
    BY <1>2, <2>1
  <2> QED BY <2>1, <2>2, PaidFor
<1>3. CASE Above(s)
  <2>1. PICK i \in 1 .. N : SameUpTo(s, i - 1) /\ s[i] >= CurveOrder[i] + 1
    BY <1>3 DEF Above
  <2>2. /\ s[i] \in 0 .. Base - 1 /\ CurveOrder[i] \in 0 .. Base - 1 /\ i \in 1 .. N + 1
        /\ i + 1 \in 1 .. N + 1
    BY <1>1
  <2>3. c[i + 1] \in {-1, 0} /\ c[i] = (c[i + 1] + s[i] - CurveOrder[i]) \div Base
    BY <2>2 DEF Borrows
  <2>4. c[i + 1] + s[i] - CurveOrder[i] >= 0
    <3>1. Base \in Int /\ s[i] >= CurveOrder[i] + 1
      BY <2>1, ExchangeNumbers
    <3> DEFINE d == c[i + 1]
    <3>2. d = -1 \/ d = 0
      BY <2>3
    <3>3. s[i] \in Int /\ CurveOrder[i] \in Int
      BY <2>2, <3>1
    <3> HIDE DEF d
    <3>4. d + s[i] - CurveOrder[i] >= 0
      BY <3>1, <3>2, <3>3
    <3> QED BY <3>4 DEF d
  <2>5. c[i] = 0
    BY <2>2, <2>3, <2>4, DigitsBorrow
  <2> QED BY <2>1, <2>2, <2>5, PaidFor
<1> QED BY <1>2, <1>3

(* What is left has the value of the difference. *)
LEMMA Spread ==
  ASSUME NEW b \in Nat, NEW x \in Nat, NEW y \in Nat, NEW z \in Int
  PROVE  b * (x - y + z) = b * x - b * y + b * z /\ b * x \in Nat /\ b * y \in Nat /\ b * z \in Int
OBVIOUS

LEMMA Difference ==
  ASSUME NEW s \in Number, NEW c, Borrows(c, s), c[1] = 0, NEW t \in Number,
         \A i \in 1 .. N : t[i] = (c[i + 1] + s[i] - CurveOrder[i]) % Base,
         NEW vs, PrefixValues(vs, s), NEW vo, PrefixValues(vo, CurveOrder), NEW vt, PrefixValues(vt, t)
  PROVE  vt[N] = vs[N] - vo[N]
<1>1. N \in Nat /\ Base \in Nat /\ \A i \in 1 .. N : /\ s[i] \in 0 .. Base - 1
                                                     /\ CurveOrder[i] \in 0 .. Base - 1
                                                     /\ t[i] \in 0 .. Base - 1
  BY ExchangeNumbers DEF Number
<1> DEFINE D == {k \in Nat : k <= N => vt[k] = vs[k] - vo[k] + c[k + 1]}
<1>2. 0 \in D
  <2>1. vt[0] = 0 /\ vs[0] = 0 /\ vo[0] = 0 /\ c[0 + 1] = 0
    BY DEF PrefixValues
  <2> QED BY <2>1
<1>3. ASSUME NEW k \in Nat, k \in D PROVE k + 1 \in D
  <2>1. SUFFICES ASSUME k + 1 <= N PROVE vt[k + 1] = vs[k + 1] - vo[k + 1] + c[(k + 1) + 1]
    OBVIOUS
  <2>2. vt[k] = vs[k] - vo[k] + c[k + 1]
    BY <1>1, <1>3, <2>1
  <2>3. k + 1 \in 1 .. N /\ k \in 0 .. N /\ (k + 1) - 1 = k /\ k + 1 \in 1 .. N + 1
        /\ (k + 1) + 1 \in 1 .. N + 1
    BY <1>1, <2>1
  <2> DEFINE i == k + 1
  <2> HIDE DEF i
  <2>4. i \in 1 .. N /\ k \in 0 .. N /\ i - 1 = k /\ i \in 1 .. N + 1 /\ i + 1 \in 1 .. N + 1
    BY <2>3 DEF i
  <2>5. /\ vs[k] \in Nat /\ vo[k] \in Nat /\ vt[k] \in Nat
        /\ vs[i] = Base * vs[k] + s[i] /\ vo[i] = Base * vo[k] + CurveOrder[i]
        /\ vt[i] = Base * vt[k] + t[i]
    BY <2>4 DEF PrefixValues
  <2>6. c[i] \in {-1, 0} /\ c[i + 1] \in {-1, 0} /\ vt[k] = vs[k] - vo[k] + c[i]
        /\ c[i] = (c[i + 1] + s[i] - CurveOrder[i]) \div Base
    BY <2>2, <2>4 DEF Borrows, i
  <2>7. s[i] \in 0 .. Base - 1 /\ CurveOrder[i] \in 0 .. Base - 1 /\ t[i] \in 0 .. Base - 1
        /\ t[i] = (c[i + 1] + s[i] - CurveOrder[i]) % Base
    BY <1>1, <2>4
  <2>8. c[i + 1] + s[i] - CurveOrder[i] = Base * c[i] + t[i]
    <3>1. c[i + 1] + s[i] - CurveOrder[i]
            = Base * ((c[i + 1] + s[i] - CurveOrder[i]) \div Base)
              + ((c[i + 1] + s[i] - CurveOrder[i]) % Base)
      <4>1. /\ c[i + 1] \in {-1, 0} /\ s[i] \in 0 .. Base - 1
            /\ CurveOrder[i] \in 0 .. Base - 1
        BY <2>6, <2>7
      <4> QED BY <4>1, DigitsBorrow, Zenon
    <3> QED BY <2>6, <2>7, <3>1, Zenon
  <2>9. /\ Base * vt[k] = Base * vs[k] - Base * vo[k] + Base * c[i]
        /\ Base * vs[k] \in Nat /\ Base * vo[k] \in Nat /\ Base * c[i] \in Int
    <3>1. c[i] \in Int
      BY <2>6
    <3> QED BY <1>1, <2>5, <2>6, <3>1, Spread
  <2>10. vt[i] = vs[i] - vo[i] + c[i + 1]
    <3>1. s[i] \in Int /\ CurveOrder[i] \in Int /\ t[i] \in Int /\ c[i + 1] \in Int
      BY <1>1, <2>6, <2>7
    <3> QED BY <2>5, <2>8, <2>9, <3>1
  <2> QED BY <2>10 DEF i
<1> HIDE DEF D
<1>4. N \in D
  BY <1>1, <1>2, <1>3, AllNumbers
<1>5. c[N + 1] = 0 /\ N \in 0 .. N
  BY <1>1 DEF Borrows
<1>6. vs[N] \in Nat /\ vo[N] \in Nat
  BY <1>5 DEF PrefixValues
<1> QED BY <1>1, <1>4, <1>5, <1>6 DEF D

(* A secret that is neither is below the order. *)
LEMMA Lower ==
  ASSUME NEW b \in Nat, NEW x \in Nat, NEW y \in Nat, x < y
  PROVE  b * x + b <= b * y /\ b * x \in Nat /\ b * y \in Nat
<1>1. y - x - 1 \in Nat /\ y = x + 1 + (y - x - 1)
  OBVIOUS
<1>2. \E d \in Nat : y = x + 1 + d
  BY <1>1
<1>3. PICK d \in Nat : y = x + 1 + d
  BY <1>2
<1>4. b * y = b * x + b + b * d /\ b * d \in Nat /\ b * x \in Nat
  BY <1>3
<1> QED BY <1>4

LEMMA Below ==
  ASSUME NEW s \in Number, ~Above(s), ~SameUpTo(s, N),
         NEW vs, PrefixValues(vs, s), NEW vo, PrefixValues(vo, CurveOrder)
  PROVE  vs[N] < vo[N]
<1>1. N \in Nat /\ Base \in Nat /\ \A i \in 1 .. N : /\ s[i] \in 0 .. Base - 1
                                                     /\ CurveOrder[i] \in 0 .. Base - 1
  BY ExchangeNumbers DEF Number
<1> DEFINE Kept(k) == (SameUpTo(s, k) /\ vs[k] = vo[k]) \/ vs[k] < vo[k]
           D == {k \in Nat : k <= N => Kept(k)}
<1>2. 0 \in D
  <2>1. vs[0] = 0 /\ vo[0] = 0
    BY DEF PrefixValues
  <2>2. SameUpTo(s, 0)
    BY DEF SameUpTo
  <2> QED BY <2>1, <2>2
<1>3. ASSUME NEW k \in Nat, k \in D PROVE k + 1 \in D
  <2>1. SUFFICES ASSUME k + 1 <= N PROVE Kept(k + 1)
    OBVIOUS
  <2>2. Kept(k)
    BY <1>1, <1>3, <2>1
  <2> HIDE DEF D
  <2> DEFINE i == k + 1
  <2>3. i \in 1 .. N /\ k \in 0 .. N /\ i - 1 = k
    BY <1>1, <2>1
  <2>4. \A j \in 1 .. i : j = i \/ j \in 1 .. k
    OBVIOUS
  <2> HIDE DEF i
  <2>5. /\ vs[k] \in Nat /\ vo[k] \in Nat
        /\ vs[i] = Base * vs[k] + s[i] /\ vo[i] = Base * vo[k] + CurveOrder[i]
    BY <2>3 DEF PrefixValues
  <2>6. s[i] \in 0 .. Base - 1 /\ CurveOrder[i] \in 0 .. Base - 1
    BY <1>1, <2>3
  <2>7. CASE SameUpTo(s, k) /\ vs[k] = vo[k]
    <3>1. ~(s[i] >= CurveOrder[i] + 1)
      BY <2>3, <2>7 DEF Above
    <3>2. CASE s[i] = CurveOrder[i]
      <4>1. SameUpTo(s, i)
        BY <2>4, <2>7, <3>2 DEF SameUpTo
      <4>2. vs[i] = vo[i]
        BY <2>5, <2>7, <3>2
      <4> QED BY <4>1, <4>2 DEF i
    <3>3. CASE s[i] # CurveOrder[i]
      <4>1. s[i] < CurveOrder[i]
        BY <1>1, <2>6, <3>1, <3>3
      <4>2. Base * vs[k] \in Nat
        BY <1>1, <2>5
      <4>3. vs[i] < vo[i]
        BY <1>1, <2>5, <2>6, <2>7, <4>1, <4>2
      <4> QED BY <4>3 DEF i
    <3> QED BY <3>2, <3>3
  <2>8. CASE vs[k] < vo[k]
    <3>1. Base * vs[k] + Base <= Base * vo[k] /\ Base * vs[k] \in Nat /\ Base * vo[k] \in Nat
      BY <1>1, <2>5, <2>8, Lower
    <3>2. vs[i] < vo[i]
      BY <1>1, <2>5, <2>6, <3>1
    <3> QED BY <3>2 DEF i
  <2> QED BY <2>2, <2>7, <2>8
<1> HIDE DEF D
<1>4. N \in D
  BY <1>1, <1>2, <1>3, AllNumbers
<1> QED BY <1>1, <1>4 DEF D

(* Turned around twice a secret is as it was; what FromLast leaves has the   *)
(* secret's length.                                                          *)
LEMMA TurnedTwice ==
  ASSUME NEW t \in Number
  PROVE  Reverse(Reverse(t)) = t
<1>1. t \in [1 .. N -> 0 .. Base - 1] /\ N \in Nat /\ Len(t) = N
  BY ExchangeNumbers DEF Number
<1> DEFINE u == [i \in 1 .. N |-> t[N + 1 - i]]
<1>2. Reverse(t) = u
  BY <1>1, Zenon DEF Reverse
<1>3. u \in Number
  <2>1. \A i \in 1 .. N : N + 1 - i \in 1 .. N
    BY <1>1
  <2> QED BY <1>1, <2>1 DEF Number
<1>4. Len(u) = N
  BY <1>3, ExchangeNumbers
<1>5. \A i \in 1 .. N : u[N + 1 - i] = t[i]
  <2>1. ASSUME NEW i \in 1 .. N PROVE u[N + 1 - i] = t[i]
    <3>1. N + 1 - i \in 1 .. N /\ N + 1 - (N + 1 - i) = i
      BY <1>1
    <3> QED BY <3>1
  <2> QED BY <2>1
<1> HIDE DEF u
<1>6. Reverse(u) = [i \in 1 .. N |-> u[N + 1 - i]]
  BY <1>4, Zenon DEF Reverse
<1>7. [i \in 1 .. N |-> u[N + 1 - i]] = t
  BY <1>1, <1>5
<1> QED BY <1>2, <1>6, <1>7

(* The remainder by the order of a number less than twice it. *)
LEMMA OneAway ==
  ASSUME NEW a \in Nat, NEW b \in Nat, a < 2 * b
  PROVE  (a >= b => a % b = a - b) /\ (a < b => a % b = a)
<1>1. b \in Nat \ {0}
  OBVIOUS
<1>2. a % b \in 0 .. b - 1 /\ a = b * (a \div b) + (a % b) /\ a \div b \in Nat
  BY <1>1, Division
<1> DEFINE q == a \div b
<1>3. q = 0 \/ q = 1 \/ \E d \in Nat : q = d + 2
  <2>1. q \in Nat
    BY <1>2
  <2> HIDE DEF q
  <2>2. q = 0 \/ q = 1 \/ (q - 2 \in Nat /\ q = (q - 2) + 2)
    BY <2>1
  <2> QED BY <2>2
<1>4. q = 0 \/ q = 1
  <2>1. SUFFICES ASSUME NEW d \in Nat, q = d + 2 PROVE FALSE
    BY <1>3
  <2>2. b * q = b * d + 2 * b /\ b * d \in Nat
    BY <2>1
  <2>3. a = b * q + (a % b)
    BY <1>2
  <2> QED BY <1>2, <2>2, <2>3
<1>5. b * 0 = 0 /\ b * 1 = b
  OBVIOUS
<1>6. a = b * q + (a % b)
  BY <1>2
<1> HIDE DEF q
<1> QED BY <1>2, <1>4, <1>5, <1>6

(* wp_x25519_derive brings a secret below the order, whatever its digits.    *)
LEMMA CurveReduced ==
  ASSUME NEW s \in XSecrets
  PROVE  ValueOf(Reverse(X25519Derive(s))) = ValueOf(s) % ValueOf(CurveOrder)
<1>1. s \in Number /\ CurveOrder \in Number /\ N \in Nat /\ N \in 0 .. N
  BY ExchangeNumbers
<1>2. PICK vs : PrefixValues(vs, s) /\ ValueOf(s) = vs[N]
  BY <1>1, ValueRuns
<1>3. PICK vo : PrefixValues(vo, CurveOrder) /\ ValueOf(CurveOrder) = vo[N]
  BY <1>1, ValueRuns
<1>4. vs[N] \in Nat /\ vo[N] \in Nat /\ vs[N] < 2 * vo[N]
  BY <1>1, <1>2, <1>3, CurveAssumption DEF PrefixValues
<1>5. CASE Above(s) \/ SameUpTo(s, N)
  <2>1. PICK c : /\ Borrows(c, s)
                 /\ FromLast(s) = [i \in 1 .. N |-> (c[i + 1] + s[i] - CurveOrder[i]) % Base]
    BY <1>1, BorrowRuns
  <2> DEFINE t == FromLast(s)
  <2>2. \A i \in 1 .. N : t[i] = (c[i + 1] + s[i] - CurveOrder[i]) % Base
    BY <2>1
  <2>3. t \in Number
    <3>1. ASSUME NEW i \in 1 .. N
          PROVE  (c[i + 1] + s[i] - CurveOrder[i]) % Base \in 0 .. Base - 1
      <4>1. c[i + 1] \in {-1, 0}
        BY <1>1, <2>1 DEF Borrows
      <4>2. s[i] \in 0 .. Base - 1 /\ CurveOrder[i] \in 0 .. Base - 1
        BY <1>1 DEF Number
      <4> QED BY <4>1, <4>2, DigitsBorrow
    <3> QED BY <2>1, <3>1, Zenon DEF Number
  <2> HIDE DEF t
  <2>4. PICK vt : PrefixValues(vt, t) /\ ValueOf(t) = vt[N]
    BY <2>3, ValueRuns
  <2>5. c[1] = 0
    BY <1>1, <1>5, <2>1, NoBorrow
  <2>6. vt[N] = vs[N] - vo[N]
    BY <1>1, <1>2, <1>3, <2>1, <2>2, <2>3, <2>4, <2>5, Difference
  <2>7. vt[N] \in Nat
    BY <1>1, <2>4 DEF PrefixValues
  <2>8. vs[N] % vo[N] = vt[N]
    BY <1>4, <2>6, <2>7, OneAway
  <2>9. Reverse(X25519Derive(s)) = t
    <3>1. X25519Derive(s) = Reverse(t)
      BY <1>5, Zenon DEF X25519Derive, t
    <3> QED BY <2>3, <3>1, TurnedTwice
  <2> QED BY <1>2, <1>3, <2>4, <2>8, <2>9
<1>6. CASE ~(Above(s) \/ SameUpTo(s, N))
  <2>1. vs[N] < vo[N]
    BY <1>1, <1>2, <1>3, <1>6, Below
  <2>2. vs[N] % vo[N] = vs[N]
    BY <1>4, <2>1, OneAway
  <2>3. Reverse(X25519Derive(s)) = s
    <3>1. X25519Derive(s) = Reverse(s)
      BY <1>6, Zenon DEF X25519Derive
    <3> QED BY <1>1, <3>1, TurnedTwice
  <2> QED BY <1>2, <1>3, <2>2, <2>3
<1> QED BY <1>5, <1>6

------------------------------------------------------------------------------
(* Key exchange.  What a context holds is what was asked of it; DH has looked *)
(* at the group of the peer it took, and a curve context holds its keys only. *)
ExText == ExKeys \cup {NoName, "none", "x963", "SHA256", "unknown", "ukm"}
ExObject == [key : ExText, peer : ExText, opt : BOOLEAN, kdf : ExText, md : ExText,
             mdName : ExText, ukm : ExText, len : Nat]
ExWanted == [key : ExText, peer : ExText, opt : BOOLEAN, kdf : ExText, md : ExText,
             ukm : ExText, len : Nat, sets : Nat, copied : BOOLEAN]

DigestSays(c, w) ==
  /\ w.md = NoName \/ w.md = "SHA256"
  /\ w.md = NoName => c.md = "none"
  /\ w.md # NoName => c.md = w.md
  /\ w.copied = FALSE => c.mdName = w.md
SettingsSay(c, w) ==
  /\ c.opt = w.opt /\ c.kdf = w.kdf /\ c.ukm = w.ukm /\ c.len = w.len
  /\ c.kdf = "none" \/ c.kdf = "x963"
  /\ DigestSays(c, w)
KeysSay(c, w) ==
  /\ c.key = w.key /\ c.peer = w.peer
  /\ exch = "dh" /\ c.key # "none" /\ c.peer # "none" => GroupOf[c.key] = GroupOf[c.peer]
UnaskedSays(w) == /\ w.peer = "none" /\ w.opt = FALSE /\ w.kdf = "none" /\ w.md = NoName
                   /\ w.ukm = NoName /\ w.len = 0
ExSays(c, w) == /\ KeysSay(c, w) /\ (exch # "ecx" => SettingsSay(c, w))
                /\ w.key = "none" => UnaskedSays(w)

ExInv ==
  /\ exch \in {"ecdh", "dh", "ecx"}
  /\ agree \in [Contexts -> ExObject] /\ hope \in [Contexts -> ExWanted]
  /\ \A x \in Contexts : ExSays(agree[x], hope[x])
  /\ exch = "ecx" => raw \in XSecrets
  /\ answer.got = answer.due

LEMMA ExNewSays ==
  /\ ExCtxNew = [key |-> "none", peer |-> "none", opt |-> FALSE, kdf |-> "none", md |-> "none",
                 mdName |-> NoName, ukm |-> NoName, len |-> 0]
  /\ NoHope = [key |-> "none", peer |-> "none", opt |-> FALSE, kdf |-> "none", md |-> NoName,
               ukm |-> NoName, len |-> 0, sets |-> 0, copied |-> FALSE]
BY DEF ExCtxNew, NoHope, NoName

LEMMA ExNewIs ==
  ASSUME NEW n \in Nat
  PROVE  /\ ExCtxNew \in ExObject /\ [NoHope EXCEPT !.sets = n] \in ExWanted
         /\ ExSays(ExCtxNew, [NoHope EXCEPT !.sets = n])
<1> DEFINE c == ExCtxNew
           h == NoHope
           w == [h EXCEPT !.sets = n]
<1>0. c = [key |-> "none", peer |-> "none", opt |-> FALSE, kdf |-> "none", md |-> "none",
                 mdName |-> NoName, ukm |-> NoName, len |-> 0]
  BY ExNewSays
<1>1. h = [key |-> "none", peer |-> "none", opt |-> FALSE, kdf |-> "none", md |-> NoName,
               ukm |-> NoName, len |-> 0, sets |-> 0, copied |-> FALSE]
  BY ExNewSays
<1> HIDE DEF c, h, w
<1>2. {NoName, "none"} \subseteq ExText /\ 0 \in Nat /\ FALSE \in BOOLEAN
  BY DEF ExText
<1>3. /\ c \in ExObject /\ c.key = "none" /\ c.peer = "none" /\ c.opt = FALSE /\ c.kdf = "none"
      /\ c.md = "none" /\ c.mdName = NoName /\ c.ukm = NoName /\ c.len = 0
  BY <1>0, <1>2 DEF ExObject
<1>4. /\ h \in ExWanted /\ h.key = "none" /\ UnaskedSays(h)
  BY <1>1, <1>2 DEF ExWanted, UnaskedSays
<1>5. /\ w \in ExWanted /\ w.key = h.key /\ w.peer = h.peer /\ w.opt = h.opt /\ w.kdf = h.kdf
      /\ w.md = h.md /\ w.ukm = h.ukm /\ w.len = h.len
  BY <1>4 DEF ExWanted, w
<1> HIDE DEF ExObject, ExWanted
<1>6. ExSays(c, w)
  BY <1>3, <1>4, <1>5 DEF ExSays, KeysSay, SettingsSay, DigestSays, UnaskedSays
<1> QED BY <1>3, <1>5, <1>6 DEF c, h, w

LEMMA ExNewFields ==
  ASSUME NEW c, c = ExCtxNew
  PROVE  /\ c \in ExObject /\ c.key = "none" /\ c.peer = "none" /\ c.opt = FALSE /\ c.kdf = "none"
         /\ c.md = "none" /\ c.mdName = NoName /\ c.ukm = NoName /\ c.len = 0
<1>1. c = [key |-> "none", peer |-> "none", opt |-> FALSE, kdf |-> "none", md |-> "none",
                 mdName |-> NoName, ukm |-> NoName, len |-> 0]
  BY ExNewSays
<1>2. {NoName, "none"} \subseteq ExText /\ 0 \in Nat /\ FALSE \in BOOLEAN
  BY DEF ExText
<1> QED BY <1>1, <1>2 DEF ExObject

(* A step of one context, that leaves no answer. *)
LEMMA ContextKeeps ==
  ASSUME ExInv, NEW x \in Contexts, NEW c \in ExObject, NEW w \in ExWanted, ExSays(c, w),
         agree' = [agree EXCEPT ![x] = c], hope' = [hope EXCEPT ![x] = w],
         answer' = NoAnswer, UNCHANGED <<exch, raw>>
  PROVE  ExInv'
<1> HIDE DEF ExObject, ExWanted
<1>1. /\ agree' \in [Contexts -> ExObject] /\ hope' \in [Contexts -> ExWanted]
      /\ \A y \in Contexts : /\ agree'[y] = (IF y = x THEN c ELSE agree[y])
                             /\ hope'[y] = (IF y = x THEN w ELSE hope[y])
  BY DEF ExInv
<1>2. ASSUME NEW y \in Contexts PROVE ExSays(agree[y], hope[y])'
  <2>1. ExSays(agree'[y], hope'[y])
    BY <1>1, Zenon DEF ExInv
  <2> HIDE DEF ExInv
  <2> QED BY <2>1 DEF ExSays, KeysSay, SettingsSay, DigestSays, UnaskedSays
<1>3. answer'.got = answer'.due
  BY DEF NoAnswer
<1> QED BY <1>1, <1>2, <1>3 DEF ExInv

LEMMA StartExchangeKeeps ==
  ASSUME ExInv, NEW x \in Contexts, NEW k \in OwnKeys, StartExchange(x, k)
  PROVE  ExInv'
<1> DEFINE n == ExCtxNew
           c == [n EXCEPT !.key = k, !.opt = FALSE]
           e == [n EXCEPT !.key = k]
           h == hope[x]
           w == [h EXCEPT !.key = k]
<1>1. /\ h.key = "none" /\ agree' = [agree EXCEPT ![x] = ExInitOf(n, k)]
      /\ hope' = [hope EXCEPT ![x] = w] /\ answer' = NoAnswer /\ UNCHANGED <<exch, raw>>
  BY DEF StartExchange
<1>2. h \in ExWanted /\ ExSays(agree[x], h) /\ exch \in {"ecdh", "dh", "ecx"}
  BY DEF ExInv
<1>3. /\ n \in ExObject /\ n.key = "none" /\ n.peer = "none" /\ n.opt = FALSE /\ n.kdf = "none"
      /\ n.md = "none" /\ n.mdName = NoName /\ n.ukm = NoName /\ n.len = 0
  BY ExNewFields
<1>4. ExInitOf(n, k) = (IF exch = "ecx" THEN e ELSE c)
  BY <1>2 DEF ExInitOf, EcdhInit, DhInit, EcxExInit
<1> DEFINE d == IF exch = "ecx" THEN e ELSE c
<1> HIDE DEF n
<1>6. k \in ExText /\ k # "none"
  BY ExchangeAssumption DEF ExText
<1>7. /\ d \in ExObject /\ d.key = k /\ d.peer = "none" /\ d.opt = FALSE /\ d.kdf = "none"
      /\ d.md = "none" /\ d.mdName = NoName /\ d.ukm = NoName /\ d.len = 0
  BY <1>3, <1>6 DEF ExObject
<1> HIDE DEF d
<1>8. w \in ExWanted /\ w.key = k /\ w.peer = h.peer /\ w.opt = h.opt /\ w.kdf = h.kdf
      /\ w.md = h.md /\ w.ukm = h.ukm /\ w.len = h.len
  BY <1>2, <1>6 DEF ExWanted
<1>9. UnaskedSays(h)
  BY <1>1, <1>2 DEF ExSays
<1> HIDE DEF w, h, ExObject, ExWanted
<1>10. ExSays(d, w)
  BY <1>6, <1>7, <1>8, <1>9 DEF ExSays, KeysSay, SettingsSay, DigestSays, UnaskedSays
<1>11. agree' = [agree EXCEPT ![x] = d]
  BY <1>1, <1>4 DEF d
<1> HIDE DEF c, e
<1> QED BY <1>1, <1>7, <1>8, <1>10, <1>11, ContextKeeps

LEMMA SetPeerKeeps ==
  ASSUME ExInv, NEW x \in Contexts, NEW p \in ExKeys, SetPeer(x, p)
  PROVE  ExInv'
<1> DEFINE a == agree[x]
           h == hope[x]
           c == [a EXCEPT !.peer = p]
           w == [h EXCEPT !.peer = p]
           r == SetPeerOf(a, p)
<1>1. /\ h.key # "none" /\ agree' = [agree EXCEPT ![x] = r.c] /\ answer' = NoAnswer
      /\ hope' = (IF r.ok THEN [hope EXCEPT ![x] = w] ELSE hope) /\ UNCHANGED <<exch, raw>>
  BY DEF SetPeer, Usable
<1>2. a \in ExObject /\ h \in ExWanted /\ ExSays(a, h) /\ exch \in {"ecdh", "dh", "ecx"}
      /\ hope = [hope EXCEPT ![x] = h]
  BY DEF ExInv
<1>3. \/ r.ok = TRUE /\ r.c = c /\ (exch = "dh" => GroupOf[a.key] = GroupOf[p])
      \/ r.ok = FALSE /\ r.c = a
  BY <1>2 DEF SetPeerOf, EcdhSetPeer, DhSetPeer, EcxSetPeer, Accept, Reject
<1>4. p \in ExText
  BY DEF ExText
<1> HIDE DEF a, h, r
<1>5. c \in ExObject /\ c.peer = p /\ c.key = a.key /\ c.opt = a.opt /\ c.kdf = a.kdf
      /\ c.md = a.md /\ c.mdName = a.mdName /\ c.ukm = a.ukm /\ c.len = a.len
  BY <1>2, <1>4 DEF ExObject
<1>6. w \in ExWanted /\ w.peer = p /\ w.key = h.key /\ w.opt = h.opt /\ w.kdf = h.kdf
      /\ w.md = h.md /\ w.ukm = h.ukm /\ w.len = h.len /\ w.copied = h.copied
  BY <1>2, <1>4 DEF ExWanted
<1> HIDE DEF c, w, ExObject, ExWanted
<1>7. CASE r.ok = TRUE /\ r.c = c /\ (exch = "dh" => GroupOf[a.key] = GroupOf[p])
  <2>1. ExSays(c, w)
    BY <1>1, <1>2, <1>5, <1>6, <1>7 DEF ExSays, KeysSay, SettingsSay, DigestSays
  <2>2. agree' = [agree EXCEPT ![x] = c] /\ hope' = [hope EXCEPT ![x] = w]
    BY <1>1, <1>7
  <2> QED BY <1>1, <1>5, <1>6, <2>1, <2>2, ContextKeeps
<1>8. CASE r.ok = FALSE /\ r.c = a
  <2>1. agree' = [agree EXCEPT ![x] = a] /\ hope' = [hope EXCEPT ![x] = h]
    BY <1>1, <1>2, <1>8
  <2> QED BY <1>1, <1>2, <2>1, ContextKeeps
<1> QED BY <1>3, <1>7, <1>8

LEMMA CopyExchangeKeeps ==
  ASSUME ExInv, CopyExchange
  PROVE  ExInv'
<1> DEFINE a == agree[1]
           h == hope[1]
           c == ExDup(a)
           w == [h EXCEPT !.copied = TRUE, !.sets = 0]
           n == ExCtxNew
<1>0. 1 \in Contexts /\ 2 \in Contexts
  BY DEF Contexts
<1>1. /\ h.key # "none" /\ agree' = [agree EXCEPT ![2] = c] /\ hope' = [hope EXCEPT ![2] = w]
      /\ answer' = NoAnswer /\ UNCHANGED <<exch, raw>>
  BY DEF CopyExchange, Usable
<1>2. a \in ExObject /\ h \in ExWanted /\ ExSays(a, h) /\ exch \in {"ecdh", "dh", "ecx"}
  BY <1>0 DEF ExInv
<1>3. c = (IF exch = "ecx" THEN [n EXCEPT !.key = a.key, !.peer = a.peer]
           ELSE [a EXCEPT !.mdName = NoName])
  BY <1>2 DEF ExDup, EcdhDup, DhDup, EcxDup, NoName
<1>4. n \in ExObject /\ NoName \in ExText
  <2>1. 0 \in Nat
    OBVIOUS
  <2> QED BY <2>1, ExNewIs DEF ExText
<1> HIDE DEF a, h, n, c
<1>5. c \in ExObject /\ c.key = a.key /\ c.peer = a.peer
  <2>1. a.key \in ExText /\ a.peer \in ExText
    BY <1>2 DEF ExObject
  <2> HIDE DEF ExText
  <2> QED BY <1>2, <1>3, <1>4, <2>1 DEF ExObject
<1>6. exch # "ecx" => /\ c.opt = a.opt /\ c.kdf = a.kdf /\ c.md = a.md /\ c.ukm = a.ukm
                      /\ c.len = a.len
  BY <1>2, <1>3 DEF ExObject
<1>7. w \in ExWanted /\ w.key = h.key /\ w.peer = h.peer /\ w.opt = h.opt /\ w.kdf = h.kdf
      /\ w.md = h.md /\ w.ukm = h.ukm /\ w.len = h.len /\ w.copied = TRUE
  BY <1>2 DEF ExWanted
<1> HIDE DEF w, ExObject, ExWanted
<1>8. ExSays(c, w)
  BY <1>1, <1>2, <1>5, <1>6, <1>7 DEF ExSays, KeysSay, SettingsSay, DigestSays
<1> QED BY <1>0, <1>1, <1>5, <1>7, <1>8, ContextKeeps

(* A parameter that is taken is one the program has set. *)
ExTakes(r, v) == \/ r.ok = TRUE /\ r.c \in ExObject /\ v \in ExWanted /\ ExSays(r.c, v)
                 \/ r.ok = FALSE

LEMMA ExSettingKinds ==
  ASSUME NEW s \in ExSettings
  PROVE  \/ s.what = "opt" /\ s.to \in BOOLEAN
         \/ s.what = "kdf" /\ s.to \in {"none", "x963", "other"}
         \/ s.what = "md" /\ s.to \in {"SHA256", "unknown"}
         \/ s.what = "ukm" /\ s.to = "ukm"
         \/ s.what = "len" /\ s.to = 16
BY DEF ExSettings

LEMMA ExSettingTakes ==
  ASSUME exch # "ecx", NEW a \in ExObject, NEW h \in ExWanted, ExSays(a, h), h.key # "none",
         NEW n \in Nat, NEW s \in ExSettings
  PROVE  ExTakes(SetExCtxParams(a, s), [[h EXCEPT !.sets = n] EXCEPT ![s.what] = s.to])
<1> DEFINE u == [h EXCEPT !.sets = n]
           v == [u EXCEPT ![s.what] = s.to]
           r == SetExCtxParams(a, s)
<1>1. /\ u \in ExWanted /\ u.key = h.key /\ u.peer = h.peer /\ u.opt = h.opt /\ u.kdf = h.kdf
      /\ u.md = h.md /\ u.ukm = h.ukm /\ u.len = h.len /\ u.copied = h.copied
  BY DEF ExWanted
<1>2. {"none", "x963", "SHA256", "unknown", "ukm"} \subseteq ExText /\ 16 \in Nat
  BY DEF ExText
<1> HIDE DEF u
<1>3. CASE s.what = "opt" /\ s.to \in BOOLEAN
  <2> DEFINE c == [a EXCEPT !.opt = s.to]
             w == [u EXCEPT !.opt = s.to]
  <2>1. r.ok = TRUE /\ r.c = c
    BY <1>3 DEF SetExCtxParams, Accept
  <2>2. v = w
    <3> HIDE DEF ExObject, ExWanted
    <3> QED BY <1>3
  <2>3. c \in ExObject /\ c.opt = s.to /\ c.key = a.key /\ c.peer = a.peer /\ c.kdf = a.kdf
        /\ c.md = a.md /\ c.mdName = a.mdName /\ c.ukm = a.ukm /\ c.len = a.len
    BY <1>3 DEF ExObject
  <2>4. w \in ExWanted /\ w.opt = s.to /\ w.key = u.key /\ w.peer = u.peer /\ w.kdf = u.kdf
        /\ w.md = u.md /\ w.ukm = u.ukm /\ w.len = u.len /\ w.copied = u.copied
    BY <1>1, <1>3 DEF ExWanted
  <2> HIDE DEF c, w, v, r, ExObject, ExWanted
  <2>5. ExSays(c, w)
    BY <1>1, <2>3, <2>4 DEF ExSays, KeysSay, SettingsSay, DigestSays
  <2>6. ExTakes(r, v)
    BY <2>1, <2>2, <2>3, <2>4, <2>5 DEF ExTakes
  <2> QED BY <2>6 DEF r, v, u
<1>4. CASE s.what = "kdf" /\ s.to \in {"none", "x963", "other"}
  <2> DEFINE c == [a EXCEPT !.kdf = s.to]
             w == [u EXCEPT !.kdf = s.to]
  <2>1. r.ok = FALSE \/ (r.ok = TRUE /\ r.c = c /\ s.to \in {"none", "x963"})
    BY <1>4 DEF SetExCtxParams, SetParamKdf, Accept, Reject
  <2>2. v = w
    <3> HIDE DEF ExObject, ExWanted
    <3> QED BY <1>4
  <2>3. CASE r.ok = TRUE /\ r.c = c /\ s.to \in {"none", "x963"}
    <3>1. s.to \in ExText
      BY <1>2, <2>3
    <3>2. c \in ExObject /\ c.kdf = s.to /\ c.key = a.key /\ c.peer = a.peer /\ c.opt = a.opt
          /\ c.md = a.md /\ c.mdName = a.mdName /\ c.ukm = a.ukm /\ c.len = a.len
      BY <3>1 DEF ExObject
    <3>3. w \in ExWanted /\ w.kdf = s.to /\ w.key = u.key /\ w.peer = u.peer /\ w.opt = u.opt
          /\ w.md = u.md /\ w.ukm = u.ukm /\ w.len = u.len /\ w.copied = u.copied
      BY <1>1, <3>1 DEF ExWanted
    <3> HIDE DEF c, w, v, r, ExObject, ExWanted
    <3>4. ExSays(c, w)
      BY <1>1, <2>3, <3>2, <3>3 DEF ExSays, KeysSay, SettingsSay, DigestSays
    <3>5. ExTakes(r, v)
      BY <2>2, <2>3, <3>2, <3>3, <3>4 DEF ExTakes
    <3> QED BY <3>5 DEF r, v, u
  <2>4. CASE r.ok = FALSE
    BY <2>4 DEF ExTakes
  <2> QED BY <2>1, <2>3, <2>4
<1>5. CASE s.what = "md" /\ s.to \in {"SHA256", "unknown"}
  <2> DEFINE c == [a EXCEPT !.mdName = s.to, !.md = s.to]
             w == [u EXCEPT !.md = s.to]
  <2>1. r.ok = FALSE \/ (r.ok = TRUE /\ r.c = c /\ s.to = "SHA256")
    BY <1>5 DEF SetExCtxParams, SetParamKdfDigest, Accept, Reject
  <2>2. v = w
    <3> HIDE DEF ExObject, ExWanted
    <3> QED BY <1>5
  <2>3. CASE r.ok = TRUE /\ r.c = c /\ s.to = "SHA256"
    <3>1. s.to \in ExText
      BY <1>2, <2>3
    <3>2. c \in ExObject /\ c.md = s.to /\ c.key = a.key /\ c.peer = a.peer /\ c.opt = a.opt
          /\ c.kdf = a.kdf /\ c.mdName = s.to /\ c.ukm = a.ukm /\ c.len = a.len
      BY <3>1 DEF ExObject
    <3>3. w \in ExWanted /\ w.md = s.to /\ w.key = u.key /\ w.peer = u.peer /\ w.opt = u.opt
          /\ w.kdf = u.kdf /\ w.ukm = u.ukm /\ w.len = u.len /\ w.copied = u.copied
      BY <1>1, <3>1 DEF ExWanted
    <3>4. "SHA256" # NoName
      BY DEF NoName
    <3> HIDE DEF c, w, v, r, ExObject, ExWanted
    <3>5. ExSays(c, w)
      BY <1>1, <2>3, <3>2, <3>3, <3>4 DEF ExSays, KeysSay, SettingsSay, DigestSays
    <3>6. ExTakes(r, v)
      BY <2>2, <2>3, <3>2, <3>3, <3>5 DEF ExTakes
    <3> QED BY <3>6 DEF r, v, u
  <2>4. CASE r.ok = FALSE
    BY <2>4 DEF ExTakes
  <2> QED BY <2>1, <2>3, <2>4
<1>6. CASE s.what = "ukm" /\ s.to = "ukm"
  <2> DEFINE c == [a EXCEPT !.ukm = s.to]
             w == [u EXCEPT !.ukm = s.to]
  <2>1. r.ok = TRUE /\ r.c = c
    BY <1>6 DEF SetExCtxParams, Accept
  <2>2. v = w /\ s.to \in ExText
    <3> HIDE DEF ExObject, ExWanted
    <3> QED BY <1>2, <1>6
  <2>3. c \in ExObject /\ c.ukm = s.to /\ c.key = a.key /\ c.peer = a.peer /\ c.kdf = a.kdf
        /\ c.md = a.md /\ c.mdName = a.mdName /\ c.opt = a.opt /\ c.len = a.len
    BY <2>2 DEF ExObject
  <2>4. w \in ExWanted /\ w.ukm = s.to /\ w.key = u.key /\ w.peer = u.peer /\ w.kdf = u.kdf
        /\ w.md = u.md /\ w.opt = u.opt /\ w.len = u.len /\ w.copied = u.copied
    BY <1>1, <2>2 DEF ExWanted
  <2> HIDE DEF c, w, v, r, ExObject, ExWanted
  <2>5. ExSays(c, w)
    BY <1>1, <2>3, <2>4 DEF ExSays, KeysSay, SettingsSay, DigestSays
  <2>6. ExTakes(r, v)
    BY <2>1, <2>2, <2>3, <2>4, <2>5 DEF ExTakes
  <2> QED BY <2>6 DEF r, v, u
<1>7. CASE s.what = "len" /\ s.to = 16
  <2> DEFINE c == [a EXCEPT !.len = s.to]
             w == [u EXCEPT !.len = s.to]
  <2>1. r.ok = TRUE /\ r.c = c
    BY <1>7 DEF SetExCtxParams, Accept
  <2>2. v = w /\ s.to \in Nat
    <3> HIDE DEF ExObject, ExWanted
    <3> QED BY <1>7
  <2>3. c \in ExObject /\ c.len = s.to /\ c.key = a.key /\ c.peer = a.peer /\ c.kdf = a.kdf
        /\ c.md = a.md /\ c.mdName = a.mdName /\ c.ukm = a.ukm /\ c.opt = a.opt
    BY <2>2 DEF ExObject
  <2>4. w \in ExWanted /\ w.len = s.to /\ w.key = u.key /\ w.peer = u.peer /\ w.kdf = u.kdf
        /\ w.md = u.md /\ w.ukm = u.ukm /\ w.opt = u.opt /\ w.copied = u.copied
    BY <1>1, <2>2 DEF ExWanted
  <2> HIDE DEF c, w, v, r, ExObject, ExWanted
  <2>5. ExSays(c, w)
    BY <1>1, <2>3, <2>4 DEF ExSays, KeysSay, SettingsSay, DigestSays
  <2>6. ExTakes(r, v)
    BY <2>1, <2>2, <2>3, <2>4, <2>5 DEF ExTakes
  <2> QED BY <2>6 DEF r, v, u
<1> QED BY <1>3, <1>4, <1>5, <1>6, <1>7, ExSettingKinds

LEMMA SetExchangeKeeps ==
  ASSUME ExInv, ExHabits = {}, NEW x \in Contexts, NEW s \in ExSettings, SetExchange(x, s)
  PROVE  ExInv'
<1> DEFINE a == agree[x]
           h == hope[x]
           n == h.sets + 1
           u == [h EXCEPT !.sets = n]
           v == [u EXCEPT ![s.what] = s.to]
           r == SetExCtxParams(a, s)
           w == [NoHope EXCEPT !.sets = n]
           counted == [hope EXCEPT ![x].sets = h.sets + 1]
<1>1. /\ h.key # "none" /\ exch # "ecx" /\ answer' = NoAnswer /\ UNCHANGED <<exch, raw>>
      /\ IF r.ok THEN /\ agree' = [agree EXCEPT ![x] = r.c]
                      /\ hope' = [counted EXCEPT ![x][s.what] = s.to]
         ELSE /\ agree' = [agree EXCEPT ![x] = ExCtxNew]
              /\ hope' = [hope EXCEPT ![x] = [NoHope EXCEPT !.sets = counted[x].sets]]
  BY DEF SetExchange, Usable, MayGoOn
<1>2. a \in ExObject /\ h \in ExWanted /\ ExSays(a, h) /\ hope \in [Contexts -> ExWanted]
  BY DEF ExInv
<1>3. n \in Nat
  BY <1>2 DEF ExWanted
<1>4. ExTakes(r, v)
  <2> HIDE DEF a, h, n
  <2> QED BY <1>1, <1>2, <1>3, ExSettingTakes
<1>5. counted = [hope EXCEPT ![x] = u] /\ counted[x] = u /\ u.sets = n
  <2> HIDE DEF ExInv
  <2>1. u.sets = n
    BY <1>2 DEF ExWanted
  <2> HIDE DEF ExWanted
  <2> QED BY <1>2, <2>1
<1>6. [counted EXCEPT ![x][s.what] = s.to] = [hope EXCEPT ![x] = v]
  <2> HIDE DEF ExInv, ExWanted, u, counted
  <2>1. [counted EXCEPT ![x][s.what] = s.to] = [counted EXCEPT ![x] = v]
    BY <1>5
  <2> HIDE DEF v
  <2>2. [counted EXCEPT ![x] = v] = [hope EXCEPT ![x] = v]
    BY <1>2, <1>5
  <2> QED BY <2>1, <2>2
<1>7. w \in ExWanted /\ ExCtxNew \in ExObject /\ ExSays(ExCtxNew, w)
  <2> HIDE DEF n
  <2> QED BY <1>3, ExNewIs
<1> HIDE DEF a, h, n, u, v, r, w, ExObject, ExWanted
<1>8. CASE r.ok = TRUE /\ r.c \in ExObject /\ v \in ExWanted /\ ExSays(r.c, v)
  <2>1. agree' = [agree EXCEPT ![x] = r.c] /\ hope' = [hope EXCEPT ![x] = v]
    BY <1>1, <1>6, <1>8
  <2> QED BY <1>1, <1>8, <2>1, ContextKeeps
<1>9. CASE r.ok = FALSE
  <2>1. agree' = [agree EXCEPT ![x] = ExCtxNew] /\ hope' = [hope EXCEPT ![x] = w]
    BY <1>1, <1>5, <1>9 DEF w
  <2> QED BY <1>1, <1>7, <2>1, ContextKeeps
<1> QED BY <1>4, <1>8, <1>9 DEF ExTakes

------------------------------------------------------------------------------
(* The secret that is derived.                                               *)
LEMMA NotFailed ==
  ASSUME NEW k, NEW p, NEW f, NEW n \in Nat \ {0}
  PROVE  Shared(k, p, f, n) # Failed
<1> DEFINE s == Shared(k, p, f, n)
           t == Failed
<1>1. s = [pair |-> {k, p}, cof |-> f, n |-> n, kdf |-> "none", md |-> NoName, ukm |-> NoName,
           len |-> n]
  BY DEF Shared, NoName
<1>2. t = [pair |-> {"none"}, cof |-> FALSE, n |-> 0, kdf |-> "none", md |-> NoName,
           ukm |-> NoName, len |-> 0]
  BY DEF Failed, Shared, NoName
<1> HIDE DEF s, t
<1>3. s.n = n /\ t.n = 0
  BY <1>1, <1>2
<1>4. s # t
  BY <1>3
<1> QED BY <1>4 DEF s, t

LEMMA DerivesAsAsked ==
  ASSUME Cofactors = {}, exch = "ecdh" \/ exch = "dh", NEW c \in ExObject, NEW w \in ExWanted,
         ExSays(c, w), c.key # "none", c.peer # "none", NEW flagged
  PROVE  (IF exch = "ecdh" THEN EcdhDerive(c, flagged) ELSE DhDerive(c, flagged)) = SecretOf(w)
<1> DEFINE k == c.key
           p == c.peer
           n == IF exch = "dh" /\ ~w.opt THEN Trimmed(k, p) ELSE Full
           s == Shared(k, p, FALSE, n)
<1>1. /\ w.key = k /\ w.peer = p /\ c.opt = w.opt /\ c.kdf = w.kdf /\ c.ukm = w.ukm
      /\ c.len = w.len /\ (c.kdf = "none" \/ c.kdf = "x963") /\ DigestSays(c, w)
      /\ exch = "dh" => GroupOf[k] = GroupOf[p]
  BY DEF ExSays, KeysSay, SettingsSay
<1>2. ASSUME NEW y PROVE HasCofactor(y) = FALSE
  BY DEF HasCofactor
<1>3. n \in Nat \ {0} /\ w.opt \in BOOLEAN /\ c.opt \in BOOLEAN
  <2>1. w.opt \in BOOLEAN /\ c.opt \in BOOLEAN
    BY DEF ExWanted, ExObject
  <2>2. Full \in Nat \ {0} /\ Trimmed(k, p) \in Nat \ {0}
    BY DEF Full, Trimmed
  <2> HIDE DEF ExWanted, ExObject
  <2> QED BY <2>1, <2>2
<1>4. s # Failed
  <2> HIDE DEF k, p, n
  <2> QED BY <1>3, NotFailed
<1>5. c.md = "none" <=> w.md = NoName
  <2>1. DigestSays(c, w)
    BY <1>1
  <2> QED BY <2>1 DEF DigestSays
<1>6. w.md # NoName => c.md = w.md
  <2>1. DigestSays(c, w)
    BY <1>1
  <2> QED BY <2>1 DEF DigestSays
<1> HIDE DEF ExObject, ExWanted
(* What both say, of keys of one group and of others. *)
<1>7. SecretOf(w) = IF GroupOf[k] # GroupOf[p] THEN Failed
                    ELSE IF w.kdf = "x963"
                    THEN IF w.md = NoName THEN Failed ELSE Through(s, w.md, w.ukm, w.len)
                    ELSE s
  <2>1. Shared(w.key, w.peer, exch = "ecdh" /\ w.opt /\ HasCofactor(w.key), n) = s
    <3>1. (exch = "ecdh" /\ w.opt /\ HasCofactor(w.key)) = FALSE
      BY <1>2
    <3> QED BY <1>1, <3>1
  <2>2. (IF exch = "dh" /\ ~w.opt THEN Trimmed(w.key, w.peer) ELSE Full) = n
    BY <1>1
  <2> DEFINE m == IF exch = "dh" /\ ~w.opt THEN Trimmed(w.key, w.peer) ELSE Full
             t == Shared(w.key, w.peer, exch = "ecdh" /\ w.opt /\ HasCofactor(w.key), m)
  <2>3. t = s
    BY <2>1, <2>2
  <2>4. SecretOf(w) = IF GroupOf[w.key] # GroupOf[w.peer] \/ (w.kdf = "x963" /\ w.md = NoName)
                      THEN Failed
                      ELSE IF w.kdf = "x963" THEN Through(t, w.md, w.ukm, w.len) ELSE t
    BY Zenon DEF SecretOf, NoName
  <2> HIDE DEF s, t, k, p
  <2>5. CASE GroupOf[k] # GroupOf[p]
    <3>1. SecretOf(w) = Failed
      BY <1>1, <2>4, <2>5
    <3> QED BY <2>5, <3>1
  <2>6. CASE GroupOf[k] = GroupOf[p]
    BY <1>1, <2>3, <2>4, <2>6
  <2> QED BY <2>5, <2>6
<1>8. CASE exch = "ecdh"
  <2>1. EcdhDeriveSecret(c, flagged) = IF GroupOf[k] # GroupOf[p] THEN Failed ELSE s
    <3>1. (c.key \in flagged /\ HasCofactor(c.key)) = FALSE
      BY <1>2
    <3>2. n = Full
      BY <1>8
    <3> QED BY <3>1, <3>2 DEF EcdhDeriveSecret
  <2> DEFINE t == EcdhDeriveSecret(c, flagged)
  <2>2. EcdhDerive(c, flagged) = IF t = Failed \/ c.kdf = "none" THEN t
                                 ELSE IF c.md = "none" THEN Failed ELSE Through(t, c.md, c.ukm, c.len)
    BY Zenon DEF EcdhDerive, EcdhKdfDerive
  <2> HIDE DEF s, t, k, p
  <2>3. CASE GroupOf[k] # GroupOf[p]
    BY <1>7, <1>8, <2>1, <2>2, <2>3 DEF t
  <2>4. CASE GroupOf[k] = GroupOf[p]
    <3>1. t = s /\ t # Failed
      BY <1>4, <2>1, <2>4 DEF t
    <3> QED BY <1>1, <1>5, <1>6, <1>7, <1>8, <2>2, <2>4, <3>1
  <2> QED BY <2>3, <2>4
<1>9. CASE exch = "dh"
  <2>1. DhDeriveSecret(c, flagged) = s
    <3>1. n = IF c.opt THEN Full ELSE Trimmed(c.key, c.peer)
      BY <1>1, <1>3, <1>9
    <3> QED BY <3>1 DEF DhDeriveSecret
  <2> DEFINE t == DhDeriveSecret(c, flagged)
  <2>2. DhDerive(c, flagged) = IF c.kdf = "none" THEN t
                               ELSE IF c.md = "none" THEN Failed ELSE Through(t, c.md, c.ukm, c.len)
    BY Zenon DEF DhDerive, DhKdfDerive
  <2> HIDE DEF s, t, k, p
  <2>3. GroupOf[k] = GroupOf[p] /\ t = s
    BY <1>1, <1>9, <2>1 DEF t
  <2> QED BY <1>1, <1>5, <1>6, <1>7, <1>9, <2>2, <2>3
<1> QED BY <1>8, <1>9

(* An answer changes no context. *)
LEMMA ExAnswerKeeps ==
  ASSUME ExInv, UNCHANGED <<exch, agree, hope, raw>>, answer'.got = answer'.due
  PROVE  ExInv'
<1>1. ASSUME NEW y \in Contexts PROVE ExSays(agree[y], hope[y])'
  <2>1. ExSays(agree[y], hope[y])
    BY DEF ExInv
  <2> HIDE DEF ExInv
  <2> QED BY <2>1 DEF ExSays, KeysSay, SettingsSay, DigestSays, UnaskedSays
<1> QED BY <1>1 DEF ExInv

LEMMA DeriveKeeps ==
  ASSUME ExInv, Cofactors = {}, NEW x \in Contexts, Derive(x)
  PROVE  ExInv'
<1> DEFINE c == agree[x]
           w == hope[x]
           d == IF exch = "ecdh" THEN EcdhDerive(c, cdh') ELSE DhDerive(c, cdh')
<1>1. /\ w.key # "none" /\ c.peer # "none" /\ (exch = "ecdh" \/ exch = "dh")
      /\ answer' = [got |-> <<d>>, due |-> <<SecretOf(w)>>] /\ UNCHANGED <<exch, agree, hope, raw>>
  BY DEF Derive, Usable
<1>2. c \in ExObject /\ w \in ExWanted /\ ExSays(c, w)
  BY DEF ExInv
<1>3. c.key = w.key
  BY <1>2 DEF ExSays, KeysSay
<1> HIDE DEF c, w, ExObject, ExWanted
<1>4. d = SecretOf(w)
  BY <1>1, <1>2, <1>3, DerivesAsAsked
<1> HIDE DEF d
<1>5. answer'.got = answer'.due
  BY <1>1, <1>4
<1> QED BY <1>1, <1>5, ExAnswerKeeps

LEMMA DeriveCurveKeeps ==
  ASSUME ExInv, NEW x \in Contexts, DeriveCurve(x)
  PROVE  ExInv'
<1>1. /\ exch = "ecx" /\ UNCHANGED <<exch, agree, hope, raw>>
      /\ answer' = [got |-> <<agree[x].peer, ValueOf(Reverse(X25519Derive(raw)))>>,
                    due |-> <<hope[x].peer, ValueOf(raw) % ValueOf(CurveOrder)>>]
  BY DEF DeriveCurve
<1>2. raw \in XSecrets /\ agree[x].peer = hope[x].peer
  BY <1>1 DEF ExInv, ExSays, KeysSay
<1>3. ValueOf(Reverse(X25519Derive(raw))) = ValueOf(raw) % ValueOf(CurveOrder)
  BY <1>2, CurveReduced
<1>4. answer'.got = answer'.due
  BY <1>1, <1>2, <1>3
<1> QED BY <1>1, <1>4, ExAnswerKeeps

LEMMA AskKeeps ==
  ASSUME ExInv, ExHabits = {}, NEW x \in Contexts, Ask(x)
  PROVE  ExInv'
<1> DEFINE c == agree[x]
           w == hope[x]
<1>1. /\ exch # "ecx" /\ ~w.copied /\ UNCHANGED <<exch, agree, hope, raw>>
      /\ answer' = [got |-> <<[opt |-> c.opt, kdf |-> c.kdf, md |-> c.mdName, len |-> c.len,
                               ukm |-> c.ukm]>>,
                    due |-> <<[opt |-> w.opt, kdf |-> w.kdf, md |-> w.md, len |-> w.len,
                               ukm |-> w.ukm]>>]
  BY DEF Ask, GetExCtxParams, GetParamsKdf
<1>2. w.copied \in BOOLEAN /\ ExSays(c, w)
  BY DEF ExInv, ExWanted
<1>3. c.opt = w.opt /\ c.kdf = w.kdf /\ c.mdName = w.md /\ c.len = w.len /\ c.ukm = w.ukm
  <2>1. w.copied = FALSE
    BY <1>1, <1>2
  <2> HIDE DEF c, w
  <2> QED BY <1>1, <1>2, <2>1 DEF ExSays, SettingsSay, DigestSays
<1> HIDE DEF c, w
<1>4. answer'.got = answer'.due
  BY <1>1, <1>3
<1> QED BY <1>1, <1>4, ExAnswerKeeps

(* A derivation gives the secret of the context's own key and the last peer, *)
(* padded and through the KDF the program asked for, of whatever keys and    *)
(* groups, after any order of calls, copies and refusals; a curve secret is  *)
(* reduced, for an order of any length; and a context reports what was set   *)
(* in it: wp_ecdh_exch.c, wp_dh_exch.c and wp_ecx_exch.c, of programs with   *)
(* none of the habits.                                                       *)
THEOREM SpecSecretAsAsked ==
  ASSUME ExHabits = {}, Cofactors = {}
  PROVE  ExchSpec => []SecretAsAsked
<1>1. ASSUME ExchInit PROVE ExInv
  <2> DEFINE w == NoHope
  <2>1. ExCtxNew \in ExObject /\ w \in ExWanted /\ ExSays(ExCtxNew, w)
    <3>1. 0 \in Nat
      OBVIOUS
    <3>2. w = [NoHope EXCEPT !.sets = 0]
      <4> DEFINE h == NoHope
      <4>1. h = [key |-> "none", peer |-> "none", opt |-> FALSE, kdf |-> "none", md |-> NoName,
               ukm |-> NoName, len |-> 0, sets |-> 0, copied |-> FALSE]
        BY ExNewSays
      <4> HIDE DEF h
      <4>2. {NoName, "none"} \subseteq ExText /\ 0 \in Nat /\ FALSE \in BOOLEAN
        BY DEF ExText
      <4>3. h \in ExWanted /\ h.sets = 0
        BY <4>1, <4>2 DEF ExWanted
      <4>4. h = [h EXCEPT !.sets = 0]
        BY <4>3 DEF ExWanted
      <4> QED BY <4>4 DEF h
    <3> QED BY <3>1, <3>2, ExNewIs
  <2> HIDE DEF w, ExObject, ExWanted
  <2>2. agree = [c \in Contexts |-> ExCtxNew] /\ hope = [c \in Contexts |-> w]
        /\ exch \in {"ecdh", "dh", "ecx"} /\ (exch = "ecx" => raw \in XSecrets)
        /\ answer = NoAnswer
    BY <1>1 DEF ExchInit, w
  <2>3. answer.got = answer.due
    BY <2>2 DEF NoAnswer
  <2> QED BY <2>1, <2>2, <2>3 DEF ExInv
<1>2. ASSUME ExInv, [ExchNext]_exchVars PROVE ExInv'
  <2>1. ASSUME NEW x \in Contexts, NEW k \in OwnKeys, StartExchange(x, k) PROVE ExInv'
    BY <1>2, <2>1, StartExchangeKeeps
  <2>2. ASSUME NEW x \in Contexts, NEW k \in ExKeys, SetPeer(x, k) PROVE ExInv'
    BY <1>2, <2>2, SetPeerKeeps
  <2>3. ASSUME NEW x \in Contexts, NEW s \in ExSettings, SetExchange(x, s) PROVE ExInv'
    BY <1>2, <2>3, SetExchangeKeeps
  <2>4. ASSUME NEW x \in Contexts, Derive(x) PROVE ExInv'
    BY <1>2, <2>4, DeriveKeeps
  <2>5. ASSUME NEW x \in Contexts, DeriveCurve(x) PROVE ExInv'
    BY <1>2, <2>5, DeriveCurveKeeps
  <2>6. ASSUME NEW x \in Contexts, Ask(x) PROVE ExInv'
    BY <1>2, <2>6, AskKeeps
  <2>7. ASSUME CopyExchange PROVE ExInv'
    BY <1>2, <2>7, CopyExchangeKeeps
  <2>8. ASSUME UNCHANGED exchVars PROVE ExInv'
    <3>1. answer'.got = answer'.due /\ UNCHANGED <<exch, agree, hope, raw>>
      BY <1>2, <2>8 DEF ExInv, exchVars
    <3> QED BY <1>2, <3>1, ExAnswerKeeps
  <2> QED BY <1>2, <2>1, <2>2, <2>3, <2>4, <2>5, <2>6, <2>7, <2>8 DEF ExchNext
<1>3. ExchInit => ExInv
  BY <1>1
<1>4. ExInv /\ [ExchNext]_exchVars => ExInv'
  BY <1>2
<1>5. ExInv => SecretAsAsked
  BY DEF ExInv, SecretAsAsked
<1> QED BY <1>3, <1>4, <1>5, PTL DEF ExchSpec
==============================================================================
