-------------------------- MODULE SignatureProofs --------------------------
(***************************************************************************)
(* Theorems about Signature, for every set of messages and any number of   *)
(* keys, signatures and openings, and about the hash of its messages       *)
(* (Hash), for every length of message and block.                          *)
(***************************************************************************)
EXTENDS Signature, Hash, SequenceTheorems, NumberLemmas, TLAPS

-----------------------------------------------------------------------------
(* The parts of the inductive invariant *)

Variants == {"plain", "ctx", "ph"}
Contexts == Messages \union {Absent}

\* What crypto_sign was given.
Supplied(s) == Content(s.variant, s.ctx, s.msg)

IsSecretKey(sk, torn) ==
    /\ sk = [seed |-> sk.seed, pk |-> sk.pk]
    /\ ~torn => sk.pk = PublicKey(sk.seed)

SignMade(s) ==
    /\ s.variant \in Variants /\ s.ctx \in Contexts /\ s.msg \in Messages
    /\ IsSecretKey(s.sk, s.torn)
    /\ s.sm = SignedMessage(s.sk, Supplied(s))

SignedAreMade == \A s \in signed : SignMade(s)

KeyInv == sign_sk # Absent => IsSecretKey(sign_sk, sign_torn)

\* What the opening o may have left, had it returned.
Openings(o) ==
    IF o.variant = "plain"
    THEN {SignOpen(IF o.place = "over" THEN o.sm ELSE Buffer(Len(o.sm)), o.sm, o.pk, o.place)}
    ELSE IF o.variant = "ctx"
    THEN {CtxOpen(Buffer(Len(o.sm)), o.sm, o.pk, o.ctx, allocated) : allocated \in BOOLEAN}
    ELSE {PhOpen(Buffer(Len(o.sm)), o.sm, o.pk)}

SignOpeningInv ==
    sign_opened # Absent =>
        /\ sign_opened.variant \in Variants /\ sign_opened.ctx \in Contexts
        /\ sign_opened.sm \in Received /\ sign_opened.pk \in PublicKeys
        /\ sign_opened.place \in {"over", "apart"}
        /\ sign_opened.place # "apart" => sign_opened.variant = "plain"
        /\ \E left \in Openings(sign_opened) :
               \/ sign_opened.left = left
               \/ left.overrun /\ sign_opened.left = [left EXCEPT !.ret = Absent]

SignInv == SignedAreMade /\ KeyInv /\ SignOpeningInv

-----------------------------------------------------------------------------
(* Lemmas about sequences *)

(* Two elements before a sequence: the length, the elements, and the rest. *)
LEMMA Front ==
  ASSUME NEW X, NEW c \in Seq(X), NEW x, NEW y, NEW s, s = <<x, y>> \o c
  PROVE  /\ Len(s) = Len(c) + 2 /\ Len(s) \in Nat
         /\ s[1] = x /\ s[2] = y
         /\ SubSeq(s, 3, Len(s)) = c
         /\ s \in Seq(X \union {x, y})
         /\ \A i \in 1 .. Len(c) : s[i + 2] = c[i]
<1> DEFINE Y == X \union {x, y}
<1>1. <<x, y>> \in Seq(Y) /\ c \in Seq(Y) /\ Len(<<x, y>>) = 2
  <2>1. c \in Seq(Y)
    BY SeqMonotonic
  <2> QED
    BY <2>1
<1>2. /\ s \in Seq(Y) /\ Len(s) = Len(c) + 2
      /\ \A i \in 1 .. Len(c) + 2 : s[i] = IF i <= 2 THEN <<x, y>>[i] ELSE c[i - 2]
  <2>1. ASSUME NEW p \in Seq(Y), Len(p) = 2
        PROVE  /\ p \o c \in Seq(Y) /\ Len(p \o c) = Len(c) + 2
               /\ \A i \in 1 .. Len(c) + 2 : (p \o c)[i] = IF i <= 2 THEN p[i] ELSE c[i - 2]
    <3>1. Len(c) \in Nat
      BY LenProperties
    <3> HIDE DEF Y
    <3>2. /\ p \o c \in Seq(Y) /\ Len(p \o c) = Len(p) + Len(c)
          /\ \A i \in 1 .. Len(p) + Len(c) :
                 (p \o c)[i] = IF i <= Len(p) THEN p[i] ELSE c[i - Len(p)]
      BY <1>1, <2>1, ConcatProperties, Zenon
    <3>3. 1 .. Len(p) + Len(c) = 1 .. Len(c) + 2
      BY <2>1, <3>1
    <3> QED
      BY <2>1, <3>1, <3>2, <3>3
  <2> QED
    BY <1>1, <2>1, Zenon
<1>3. Len(c) \in Nat
  BY LenProperties
<1>4. s[1] = x /\ s[2] = y
  BY <1>2, <1>3
<1>5. \A i \in 1 .. Len(c) : s[i + 2] = c[i]
  BY <1>2, <1>3
<1>6. SubSeq(s, 3, Len(s)) = c
  <2>1. \A i \in 3 .. Len(s) : s[i] \in Y
    BY <1>2, <1>3, ElementOfSeq
  <2>2. /\ SubSeq(s, 3, Len(s)) \in Seq(Y)
        /\ Len(SubSeq(s, 3, Len(s))) = Len(c)
        /\ \A i \in 1 .. Len(c) : SubSeq(s, 3, Len(s))[i] = s[i + 2]
    BY <1>2, <1>3, <2>1, SubSeqProperties
  <2> QED
    BY <1>1, <1>5, <2>2, SeqEqual
<1> QED
  BY <1>2, <1>3, <1>4, <1>5, <1>6

(* A sequence that agrees with c on its first Len(c) places begins with c. *)
LEMMA BeginsWith ==
  ASSUME NEW X, NEW c \in Seq(X), NEW s, \A i \in 1 .. Len(c) : s[i] = c[i]
  PROVE  SubSeq(s, 1, Len(c)) = c
<1>1. Len(c) \in Nat /\ \A i \in 1 .. Len(c) : s[i] \in X
  BY LenProperties, ElementOfSeq
<1>2. /\ SubSeq(s, 1, Len(c)) \in Seq(X)
      /\ Len(SubSeq(s, 1, Len(c))) = Len(c)
      /\ \A i \in 1 .. Len(c) : SubSeq(s, 1, Len(c))[i] = s[i]
  BY <1>1, SubSeqProperties
<1> QED
  BY <1>2, SeqEqual

(* Two slots and a text are equal only when the slots and the texts are. *)
LEMMA FrontsEqual ==
  ASSUME NEW X, NEW c \in Seq(X), NEW d \in Seq(X), NEW x, NEW y, NEW u, NEW v,
         NEW s, s = <<x, y>> \o c, s = <<u, v>> \o d
  PROVE  x = u /\ y = v /\ c = d
<1>1. s[1] = x /\ s[2] = y /\ SubSeq(s, 3, Len(s)) = c
  BY Front
<1>2. s[1] = u /\ s[2] = v /\ SubSeq(s, 3, Len(s)) = d
  BY Front
<1> QED
  BY <1>1, <1>2, Zenon

-----------------------------------------------------------------------------
(* Lemmas about what is signed *)

(* The digest of a context fills two slots. *)
LEMMA CtxHashType ==
  ASSUME NEW ctx \in Contexts
  PROVE  \E x, y \in Slots : CtxHash(ctx) = <<x, y>>
<1>1. CASE ctx = Absent \/ ctx = <<>>
  BY <1>1 DEF CtxHash, Slots
<1>2. CASE ~(ctx = Absent \/ ctx = <<>>)
  BY <1>2 DEF CtxHash, Slots, Contexts, Digest
<1> QED
  BY <1>1, <1>2

(* What each variant hands crypto_sign. *)
LEMMA ContentType ==
  ASSUME NEW variant \in Variants, NEW ctx \in Contexts, NEW msg \in Messages
  PROVE  /\ msg \in Seq(Slots) /\ Content(variant, ctx, msg) \in Seq(Slots)
         /\ variant = "plain" => Content(variant, ctx, msg) = msg
         /\ variant = "ctx" => Content(variant, ctx, msg) = CtxHash(ctx) \o msg
         /\ variant = "ph" => Content(variant, ctx, msg) = Digest(msg)
<1>1. msg \in Seq(Slots)
  BY SignatureAssumption
<1>2. CASE variant = "plain"
  BY <1>1, <1>2 DEF Content
<1>3. CASE variant = "ctx"
  <2>1. Content(variant, ctx, msg) = CtxHash(ctx) \o msg
    BY <1>3 DEF Content
  <2>2. PICK x \in Slots, y \in Slots : CtxHash(ctx) = <<x, y>>
    BY CtxHashType
  <2>3. <<x, y>> \o msg \in Seq(Slots \union {x, y})
    BY <1>1, Front
  <2>4. Slots \union {x, y} = Slots
    BY <2>2
  <2> QED
    BY <1>1, <1>3, <2>1, <2>2, <2>3, <2>4
<1>4. CASE variant = "ph"
  <2>1. Content(variant, ctx, msg) = Digest(msg)
    BY <1>4 DEF Content
  <2>2. <<"hash", 1, msg>> \in Slots /\ <<"hash", 2, msg>> \in Slots
    BY DEF Slots
  <2>3. Digest(msg) \in Seq(Slots)
    BY <2>2 DEF Digest
  <2> QED
    BY <1>1, <1>4, <2>1, <2>3
<1> QED
  BY <1>2, <1>3, <1>4 DEF Variants

(* The slots of a signed message. *)
LEMMA SignedSlots ==
  ASSUME NEW s, SignMade(s)
  PROVE  LET R == Commitment(s.sk.seed, Supplied(s))
             S == Response(s.sk.seed, Supplied(s), Hram(R, s.sk.pk, Supplied(s)))
         IN  /\ Supplied(s) \in Seq(Slots)
             /\ s.sm = <<R, S>> \o Supplied(s)
             /\ Len(s.sm) = Len(Supplied(s)) + 2 /\ Len(s.sm) \in Nat
             /\ s.sm[1] = R /\ s.sm[2] = S
             /\ SubSeq(s.sm, 3, Len(s.sm)) = Supplied(s)
<1> DEFINE R == Commitment(s.sk.seed, Supplied(s))
           S == Response(s.sk.seed, Supplied(s), Hram(R, s.sk.pk, Supplied(s)))
<1>1. Supplied(s) \in Seq(Slots)
  BY ContentType DEF SignMade, Supplied
<1>2. s.sm = <<R, S>> \o Supplied(s)
  BY Zenon DEF SignMade, SignedMessage
<1> HIDE DEF R, S
<1>3. /\ Len(s.sm) = Len(Supplied(s)) + 2 /\ Len(s.sm) \in Nat
      /\ s.sm[1] = R /\ s.sm[2] = S
      /\ SubSeq(s.sm, 3, Len(s.sm)) = Supplied(s)
  BY <1>1, <1>2, Front
<1> QED
  BY <1>1, <1>2, <1>3, Zenon DEF R, S

-----------------------------------------------------------------------------
(* What arrives, and what is accepted *)

(* What has two slots is neither of the short strings. *)
LEMMA LongEnough ==
  ASSUME NEW sm, ~(Len(sm) < 2)
  PROVE  sm # <<>> /\ sm # <<Zero>>
<1>1. Len(<<>>) = 0 /\ Len(<<Zero>>) = 1
  OBVIOUS
<1>2. sm = <<>> => Len(sm) = Len(<<>>)
  BY Zenon
<1>3. sm = <<Zero>> => Len(sm) = Len(<<Zero>>)
  BY Zenon
<1>4. sm # <<>>
  BY <1>1, <1>2
<1>5. sm # <<Zero>>
  BY <1>1, <1>3
<1> QED
  BY <1>4, <1>5

(* A signed message that arrives long enough has R, S and the text of signed
   messages. *)
LEMMA ReceivedSlots ==
  ASSUME SignedAreMade, NEW sm \in Received, ~(Len(sm) < 2)
  PROVE  \E a, b, c \in signed : sm = <<a.sm[1], b.sm[2]>> \o Supplied(c)
<1> DEFINE M == {Mixed(a, b, c) : a \in signed, b \in signed, c \in signed}
<1>1. sm # <<>> /\ sm # <<Zero>>
  BY LongEnough
<1>2. sm \in M
  <2>1. Received = M \union {<<>>, <<Zero>>}
    BY DEF Received
  <2> HIDE DEF M
  <2> QED
    BY <1>1, <2>1, Zenon
<1>3. PICK a \in signed, b \in signed, c \in signed : sm = Mixed(a, b, c)
  BY <1>2, SMT
<1>4. SubSeq(c.sm, 3, Len(c.sm)) = Supplied(c)
  BY SignedSlots DEF SignedAreMade
<1> QED
  BY <1>3, <1>4, Zenon DEF Mixed

\* The check of crypto_sign_open.
Accepted(sm, pk, place) ==
    sm[1] = Recovered(IF place = "over" THEN pk ELSE sm[2],
                      Hram(sm[1], pk, SubSeq(sm, 3, Len(sm))), pk)

(* What is accepted was signed, under this key. *)
LEMMA AcceptedWasSigned ==
  ASSUME SignedAreMade, NEW sm \in Received, ~(Len(sm) < 2),
         NEW pk \in PublicKeys, pk # NoPoint, NEW place \in {"over", "apart"},
         Accepted(sm, pk, place)
  PROVE  /\ place = "apart"
         /\ \E s \in signed : /\ s.sk.pk = pk /\ pk = PublicKey(s.sk.seed)
                              /\ Supplied(s) = SubSeq(sm, 3, Len(sm))
<1>1. PICK a \in signed, b \in signed, c \in signed :
          sm = <<a.sm[1], b.sm[2]>> \o Supplied(c)
  BY ReceivedSlots
<1>2. Supplied(b) \in Seq(Slots) /\ Supplied(c) \in Seq(Slots)
  BY SignedSlots DEF SignedAreMade
<1>3. sm[1] = a.sm[1] /\ sm[2] = b.sm[2] /\ SubSeq(sm, 3, Len(sm)) = Supplied(c)
  BY <1>1, <1>2, Front
<1>4. a.sm[1] = Commitment(a.sk.seed, Supplied(a))
  BY SignedSlots DEF SignedAreMade
<1> DEFINE Rb == Commitment(b.sk.seed, Supplied(b))
           hb == Hram(Rb, b.sk.pk, Supplied(b))
           h == Hram(sm[1], pk, Supplied(c))
           S == IF place = "over" THEN pk ELSE sm[2]
<1>5. b.sm[2] = Response(b.sk.seed, Supplied(b), hb)
  BY SignedSlots, Zenon DEF SignedAreMade
<1>6. sm[1] = Recovered(S, h, pk)
  BY <1>3, Zenon DEF Accepted
<1> HIDE DEF h, hb, S
<1>7. /\ S[1] = "S" /\ S[4] = h /\ pk = PublicKey(S[2])
      /\ sm[1] = Commitment(S[2], S[3])
  <2>1. sm[1] # <<"other">>
    BY <1>3, <1>4 DEF Commitment
  <2> QED
    BY <1>6, <2>1, Zenon DEF Recovered
<1>8. place = "apart"
  <2> SUFFICES ASSUME place = "over" PROVE FALSE
    OBVIOUS
  <2>1. S = pk
    BY DEF S
  <2>2. PICK seed \in 1 .. sign_keypairs : pk = PublicKey(seed)
    BY DEF PublicKeys
  <2> QED
    BY <1>7, <2>1, <2>2 DEF PublicKey
<1>9. S = Response(b.sk.seed, Supplied(b), hb)
  BY <1>3, <1>5, <1>8 DEF S
<1>10. S[2] = b.sk.seed /\ S[3] = Supplied(b) /\ S[4] = hb
  BY <1>9 DEF Response
<1>11. sm[1] = Rb /\ h = hb /\ pk = PublicKey(b.sk.seed)
  BY <1>7, <1>10
<1>12. h = <<sm[1], pk>> \o Supplied(c) /\ h = <<Rb, b.sk.pk>> \o Supplied(b)
  BY <1>11, Zenon DEF h, hb, Hram
<1>13. pk = b.sk.pk /\ Supplied(c) = Supplied(b)
  <2>1. \A x, y, u, v, s : s = <<x, y>> \o Supplied(c) /\ s = <<u, v>> \o Supplied(b)
                             => y = v /\ Supplied(c) = Supplied(b)
    BY <1>2, FrontsEqual
  <2> QED
    BY <1>12, <2>1, Zenon
<1> QED
  BY <1>3, <1>8, <1>11, <1>13

(* The text of what arrives is as long as what is left of it. *)
LEMMA ReceivedText ==
  ASSUME SignedAreMade, NEW sm \in Received, ~(Len(sm) < 2)
  PROVE  /\ SubSeq(sm, 3, Len(sm)) \in Seq(Slots)
         /\ Len(sm) \in Nat /\ Len(sm) >= 2
         /\ Len(SubSeq(sm, 3, Len(sm))) = Len(sm) - 2
<1>1. PICK a \in signed, b \in signed, c \in signed :
          sm = <<a.sm[1], b.sm[2]>> \o Supplied(c)
  BY ReceivedSlots
<1>2. Supplied(c) \in Seq(Slots)
  BY SignedSlots DEF SignedAreMade
<1>3. /\ SubSeq(sm, 3, Len(sm)) = Supplied(c)
      /\ Len(sm) = Len(Supplied(c)) + 2
  BY <1>1, <1>2, Front
<1>4. Len(Supplied(c)) \in Nat
  BY <1>2, LenProperties
<1> QED
  BY <1>2, <1>3, <1>4

-----------------------------------------------------------------------------
(* What the openings leave *)

Copied(m, sm, pk) ==
    [i \in DOMAIN m |-> IF i = 2 THEN pk ELSE IF i <= Len(sm) THEN sm[i] ELSE m[i]]

Moved(copied, text) ==
    [i \in DOMAIN copied |-> IF i > Len(text) THEN copied[i] ELSE text[i]]

Cleared(copied, text) ==
    [i \in DOMAIN copied |-> IF i > Len(text) THEN copied[i] ELSE Zero]

(* The three ways out of crypto_sign_open. *)
LEMMA WayRefused ==
  ASSUME NEW m, NEW sm, NEW pk, NEW place, Len(sm) < 2 \/ pk = NoPoint
  PROVE  SignOpen(m, sm, pk, place) = Refusal(m)
  BY Zenon DEF SignOpen

LEMMA WayAccepted ==
  ASSUME NEW m, NEW sm, NEW pk, NEW place, ~(Len(sm) < 2), pk # NoPoint,
         Accepted(sm, pk, place)
  PROVE  SignOpen(m, sm, pk, place) =
             [ret |-> 0, m |-> Moved(Copied(m, sm, pk), SubSeq(sm, 3, Len(sm))),
              mlen |-> Len(sm) - 2, checked |-> TRUE, overrun |-> Len(m) < Len(sm)]
<1> DEFINE text == SubSeq(sm, 3, Len(sm))
           failed == sm[1] # Recovered(IF place = "over" THEN pk ELSE sm[2],
                                       Hram(sm[1], pk, text), pk)
           over == Len(m) < Len(sm)
<1>1. SignOpen(m, sm, pk, place) =
          [ret |-> IF failed THEN -1 ELSE 0,
           m |-> Recover(Copied(m, sm, pk), text, failed),
           mlen |-> IF failed THEN 0 ELSE Len(sm) - 2,
           checked |-> TRUE, overrun |-> over]
  BY Zenon DEF SignOpen, Copied
<1>2. ~failed
  BY Zenon DEF Accepted
<1>3. Recover(Copied(m, sm, pk), text, failed) = Moved(Copied(m, sm, pk), text)
  <2> HIDE DEF failed, text
  <2> QED
    BY <1>2, Zenon DEF Recover, Moved
<1> HIDE DEF failed, text, over
<1>4. (IF failed THEN -1 ELSE 0) = 0 /\ (IF failed THEN 0 ELSE Len(sm) - 2) = Len(sm) - 2
  BY <1>2, Zenon
<1> QED
  BY <1>1, <1>3, <1>4, Zenon DEF text, over

LEMMA WayFailed ==
  ASSUME NEW m, NEW sm, NEW pk, NEW place, ~(Len(sm) < 2), pk # NoPoint,
         ~Accepted(sm, pk, place)
  PROVE  SignOpen(m, sm, pk, place) =
             [ret |-> -1, m |-> Cleared(Copied(m, sm, pk), SubSeq(sm, 3, Len(sm))),
              mlen |-> 0, checked |-> TRUE, overrun |-> Len(m) < Len(sm)]
<1> DEFINE text == SubSeq(sm, 3, Len(sm))
           failed == sm[1] # Recovered(IF place = "over" THEN pk ELSE sm[2],
                                       Hram(sm[1], pk, text), pk)
           over == Len(m) < Len(sm)
<1>1. SignOpen(m, sm, pk, place) =
          [ret |-> IF failed THEN -1 ELSE 0,
           m |-> Recover(Copied(m, sm, pk), text, failed),
           mlen |-> IF failed THEN 0 ELSE Len(sm) - 2,
           checked |-> TRUE, overrun |-> over]
  BY Zenon DEF SignOpen, Copied
<1>2. failed
  BY Zenon DEF Accepted
<1>3. Recover(Copied(m, sm, pk), text, failed) = Cleared(Copied(m, sm, pk), text)
  <2> HIDE DEF failed, text
  <2> QED
    BY <1>2, Zenon DEF Recover, Cleared
<1> HIDE DEF failed, text, over
<1>4. (IF failed THEN -1 ELSE 0) = -1 /\ (IF failed THEN 0 ELSE Len(sm) - 2) = 0
  BY <1>2, Zenon
<1> QED
  BY <1>1, <1>3, <1>4, Zenon DEF text, over

(* A result of 0 is that of an accepted message. *)
LEMMA AcceptedMoves ==
  ASSUME NEW sm, NEW pk, NEW place, NEW m, SignOpen(m, sm, pk, place).ret = 0
  PROVE  /\ ~(Len(sm) < 2) /\ pk # NoPoint /\ Accepted(sm, pk, place)
         /\ SignOpen(m, sm, pk, place) =
                [ret |-> 0, m |-> Moved(Copied(m, sm, pk), SubSeq(sm, 3, Len(sm))),
                 mlen |-> Len(sm) - 2, checked |-> TRUE, overrun |-> Len(m) < Len(sm)]
<1>1. ~(Len(sm) < 2 \/ pk = NoPoint)
  <2>1. Refusal(m).ret # 0
    BY DEF Refusal
  <2> QED
    BY <2>1, WayRefused, Zenon
<1>2. Accepted(sm, pk, place)
  <2> SUFFICES ASSUME ~Accepted(sm, pk, place) PROVE FALSE
    OBVIOUS
  <2>1. SignOpen(m, sm, pk, place) =
            [ret |-> -1, m |-> Cleared(Copied(m, sm, pk), SubSeq(sm, 3, Len(sm))),
             mlen |-> 0, checked |-> TRUE, overrun |-> Len(m) < Len(sm)]
    BY <1>1, WayFailed, Zenon
  <2> QED
    BY <2>1
<1>3. SignOpen(m, sm, pk, place) =
          [ret |-> 0, m |-> Moved(Copied(m, sm, pk), SubSeq(sm, 3, Len(sm))),
           mlen |-> Len(sm) - 2, checked |-> TRUE, overrun |-> Len(m) < Len(sm)]
  BY <1>1, <1>2, WayAccepted, Zenon
<1> QED
  BY <1>1, <1>2, <1>3, Zenon

(* All that arrives is a sequence. *)
LEMMA ReceivedDomain ==
  ASSUME SignedAreMade, NEW sm \in Received
  PROVE  Len(sm) \in Nat /\ DOMAIN sm = 1 .. Len(sm)
<1>1. CASE ~(Len(sm) < 2)
  <2>1. PICK a \in signed, b \in signed, c \in signed :
            sm = <<a.sm[1], b.sm[2]>> \o Supplied(c)
    BY <1>1, ReceivedSlots
  <2>2. Supplied(c) \in Seq(Slots)
    BY SignedSlots DEF SignedAreMade
  <2>3. sm \in Seq(Slots \union {a.sm[1], b.sm[2]})
    BY <2>1, <2>2, Front
  <2> QED
    BY <2>3, LenProperties
<1>2. CASE sm \in {<<>>, <<Zero>>}
  <2>1. <<>> \in Seq({Zero}) /\ <<Zero>> \in Seq({Zero})
    OBVIOUS
  <2>2. sm \in Seq({Zero})
    BY <1>2, <2>1, Zenon
  <2> QED
    BY <2>2, LenProperties
<1> DEFINE M == {Mixed(a, b, c) : a \in signed, b \in signed, c \in signed}
<1>3. CASE sm \in M
  <2>1. PICK a \in signed, b \in signed, c \in signed : sm = Mixed(a, b, c)
    BY <1>3, SMT
  <2>2. SubSeq(c.sm, 3, Len(c.sm)) = Supplied(c) /\ Supplied(c) \in Seq(Slots)
    BY SignedSlots DEF SignedAreMade
  <2>3. sm = <<a.sm[1], b.sm[2]>> \o Supplied(c)
    BY <2>1, <2>2, Zenon DEF Mixed
  <2>4. sm \in Seq(Slots \union {a.sm[1], b.sm[2]})
    BY <2>2, <2>3, Front
  <2> QED
    BY <2>4, LenProperties
<1>4. Received = M \union {<<>>, <<Zero>>}
  BY DEF Received
<1> HIDE DEF M
<1> QED
  BY <1>2, <1>3, <1>4, Zenon

(* The text an accepted message leaves in m, when m has room for it. *)
LEMMA AcceptedText ==
  ASSUME SignedAreMade, NEW sm \in Received, NEW pk, NEW place,
         NEW k \in Nat, NEW m, DOMAIN m = 1 .. k, Len(sm) - 2 <= k,
         SignOpen(m, sm, pk, place).ret = 0
  PROVE  /\ SignOpen(m, sm, pk, place).mlen = Len(sm) - 2
         /\ \A i \in 1 .. Len(sm) - 2 :
                SignOpen(m, sm, pk, place).m[i] = SubSeq(sm, 3, Len(sm))[i]
         /\ SubSeq(SignOpen(m, sm, pk, place).m, 1, Len(sm) - 2)
                = SubSeq(sm, 3, Len(sm))
<1> DEFINE text == SubSeq(sm, 3, Len(sm))
           copied == Copied(m, sm, pk)
           moved == Moved(copied, text)
           over == Len(m) < Len(sm)
           res == SignOpen(m, sm, pk, place)
<1>1. ~(Len(sm) < 2)
  BY AcceptedMoves, Zenon
<1>2. res = [ret |-> 0, m |-> moved, mlen |-> Len(sm) - 2, checked |-> TRUE,
             overrun |-> over]
  BY AcceptedMoves, Zenon
<1>3. text \in Seq(Slots) /\ Len(text) = Len(sm) - 2 /\ Len(text) \in Nat
  BY <1>1, ReceivedText
<1>4. DOMAIN copied = 1 .. k
  BY DEF Copied
<1> HIDE DEF text, copied, over, res
<1>5. \A i \in 1 .. Len(text) : moved[i] = text[i]
  BY <1>3, <1>4 DEF Moved
<1> HIDE DEF moved
<1>6. SubSeq(moved, 1, Len(text)) = text
  BY <1>3, <1>5, BeginsWith
<1>7. res.m = moved /\ res.mlen = Len(sm) - 2
  BY <1>2
<1>8. /\ res.mlen = Len(sm) - 2 /\ \A i \in 1 .. Len(sm) - 2 : res.m[i] = text[i]
      /\ SubSeq(res.m, 1, Len(sm) - 2) = text
  BY <1>3, <1>5, <1>6, <1>7, Zenon
<1> QED
  BY <1>8, Zenon DEF text, res

-----------------------------------------------------------------------------
(* The openings that return 0 *)

\* What an opening returned 0 for: all of the text that was signed.
SignedText(sm) == SubSeq(sm, 3, Len(sm))

(* A plain opening that succeeds returns the text that was verified. *)
LEMMA PlainText ==
  ASSUME SignedAreMade, NEW sm \in Received, NEW pk, NEW place,
         NEW o, o = SignOpen(IF place = "over" THEN sm ELSE Buffer(Len(sm)), sm, pk, place),
         o.ret = 0
  PROVE  /\ ~(Len(sm) < 2) /\ pk # NoPoint /\ Accepted(sm, pk, place)
         /\ SubSeq(o.m, 1, o.mlen) = SignedText(sm)
<1> DEFINE m == IF place = "over" THEN sm ELSE Buffer(Len(sm))
<1>1. Len(sm) \in Nat /\ DOMAIN m = 1 .. Len(sm)
  BY ReceivedDomain DEF Buffer
<1> HIDE DEF m
<1>2. o = SignOpen(m, sm, pk, place)
  BY Zenon DEF m
<1>3. SignOpen(m, sm, pk, place).ret = 0
  BY <1>2, Zenon
<1>4. ~(Len(sm) < 2) /\ pk # NoPoint /\ Accepted(sm, pk, place)
  BY <1>3, AcceptedMoves, SMTT(30)
<1>5. PICK k \in Nat : k = Len(sm)
  BY <1>1
<1>6. DOMAIN m = 1 .. k /\ Len(sm) - 2 <= k
  BY <1>1, <1>5
<1>7. /\ SignOpen(m, sm, pk, place).mlen = Len(sm) - 2
      /\ SubSeq(SignOpen(m, sm, pk, place).m, 1, Len(sm) - 2) = SubSeq(sm, 3, Len(sm))
  BY <1>3, <1>6, AcceptedText, SMTT(30)
<1> QED
  BY <1>2, <1>4, <1>7, Zenon DEF SignedText

\* The fields of what an opening leaves.
Fields == {"ret", "m", "mlen", "checked", "overrun"}

(* Every way out of crypto_sign_open leaves a value for every output. *)
LEMMA SignOpenFields ==
  ASSUME NEW m, NEW sm, NEW pk, NEW place
  PROVE  DOMAIN SignOpen(m, sm, pk, place) = Fields
<1>1. ASSUME NEW r, NEW b, NEW l, NEW c, NEW v
      PROVE  DOMAIN [ret |-> r, m |-> b, mlen |-> l, checked |-> c, overrun |-> v] = Fields
  BY DEF Fields
<1>2. DOMAIN Refusal(m) = Fields
  BY <1>1, Zenon DEF Refusal
<1>3. CASE Len(sm) < 2 \/ pk = NoPoint
  BY <1>2, <1>3, WayRefused, Zenon
<1>4. CASE ~(Len(sm) < 2) /\ pk # NoPoint /\ Accepted(sm, pk, place)
  <2>1. SignOpen(m, sm, pk, place) =
            [ret |-> 0, m |-> Moved(Copied(m, sm, pk), SubSeq(sm, 3, Len(sm))),
             mlen |-> Len(sm) - 2, checked |-> TRUE, overrun |-> Len(m) < Len(sm)]
    BY <1>4, WayAccepted, Zenon
  <2> QED
    BY <1>1, <2>1, Zenon
<1>5. CASE ~(Len(sm) < 2) /\ pk # NoPoint /\ ~Accepted(sm, pk, place)
  <2>1. SignOpen(m, sm, pk, place) =
            [ret |-> -1, m |-> Cleared(Copied(m, sm, pk), SubSeq(sm, 3, Len(sm))),
             mlen |-> 0, checked |-> TRUE, overrun |-> Len(m) < Len(sm)]
    BY <1>5, WayFailed, Zenon
  <2> QED
    BY <1>1, <2>1, Zenon
<1> QED
  BY <1>3, <1>4, <1>5

\* What the variants hand to crypto_sign_open, with a buffer of n slots.
Inner(n, sm, pk, place) == SignOpen(Buffer(n), sm, pk, place)

(* What a context opening that succeeds has seen and returns. *)
LEMMA CtxReturn ==
  ASSUME NEW m, NEW sm, NEW pk, NEW ctx, NEW allocated,
         NEW o, o = CtxOpen(m, sm, pk, ctx, allocated), o.ret = 0
  PROVE  /\ ~(Len(sm) - 2 < 2) /\ Inner(Len(sm) - 2, sm, pk, "apart").ret = 0
         /\ SubSeq(Inner(Len(sm) - 2, sm, pk, "apart").m, 1, 2) = CtxHash(ctx)
         /\ o.m = [i \in DOMAIN m |-> IF i + 2 <= Len(sm) - 2
                                      THEN Inner(Len(sm) - 2, sm, pk, "apart").m[i + 2]
                                      ELSE m[i]]
         /\ o.mlen = Len(sm) - 2 - 2
<1> DEFINE part == Len(sm) - 2
           inner == Inner(part, sm, pk, "apart")
           refused == ctx \in LongContexts \/ part < 2 \/ ~allocated
           differs == inner.ret # 0 \/ SubSeq(inner.m, 1, 2) # CtxHash(ctx)
           rejected == [inner EXCEPT !.ret = -1, !.m = m, !.mlen = Absent]
           moved == [i \in DOMAIN m |-> IF i + 2 <= part THEN inner.m[i + 2] ELSE m[i]]
           opened == [inner EXCEPT !.m = moved, !.mlen = part - 2]
<1>1. o = IF refused THEN Refusal(m) ELSE IF differs THEN rejected ELSE opened
  BY Zenon DEF CtxOpen, Inner
<1>2. DOMAIN inner = Fields
  BY SignOpenFields, Zenon DEF Inner
<1> HIDE DEF inner
<1>3. Refusal(m).ret # 0 /\ rejected.ret # 0
  BY <1>2 DEF Refusal, Fields
<1>4. opened.m = moved /\ opened.mlen = part - 2
  <2> HIDE DEF moved
  <2> QED
    BY <1>2 DEF Fields
<1>5. ~(part < 2) \/ refused
  OBVIOUS
<1>6. differs \/ (inner.ret = 0 /\ SubSeq(inner.m, 1, 2) = CtxHash(ctx))
  OBVIOUS
<1> HIDE DEF refused, differs, rejected, moved, opened, part
<1>7. ~refused /\ ~differs /\ o = opened
  BY <1>1, <1>3, Zenon
<1> QED
  BY <1>4, <1>5, <1>6, <1>7, Zenon DEF moved, inner, part

\* One of the openings of the context variant.
IsCtxOpening(o, sm, pk, ctx) ==
    \E allocated \in BOOLEAN : o = CtxOpen(Buffer(Len(sm)), sm, pk, ctx, allocated)

(* A context opening that succeeds verified its digest and what it returns. *)
LEMMA CtxText ==
  ASSUME SignedAreMade, NEW sm \in Received, NEW pk, NEW ctx \in Contexts,
         NEW o, IsCtxOpening(o, sm, pk, ctx), o.ret = 0
  PROVE  /\ ~(Len(sm) < 2) /\ pk # NoPoint /\ Accepted(sm, pk, "apart")
         /\ CtxHash(ctx) \o SubSeq(o.m, 1, o.mlen) = SignedText(sm)
         /\ SubSeq(o.m, 1, o.mlen) \in Seq(Slots)
<1> DEFINE part == Len(sm) - 2
           inner == Inner(part, sm, pk, "apart")
           m == Buffer(Len(sm))
           text == SubSeq(sm, 3, Len(sm))
           got == SubSeq(o.m, 1, o.mlen)
<1>1. Len(sm) \in Nat /\ DOMAIN m = 1 .. Len(sm)
  BY ReceivedDomain DEF Buffer
<1>0. PICK allocated : o = CtxOpen(Buffer(Len(sm)), sm, pk, ctx, allocated)
  BY Zenon DEF IsCtxOpening
<1>2. /\ ~(part < 2) /\ inner.ret = 0 /\ SubSeq(inner.m, 1, 2) = CtxHash(ctx)
      /\ o.m = [i \in DOMAIN m |-> IF i + 2 <= part THEN inner.m[i + 2] ELSE m[i]]
      /\ o.mlen = part - 2
  BY <1>0, CtxReturn, SMTT(30)
<1>3. ~(Len(sm) < 2) /\ pk # NoPoint /\ Accepted(sm, pk, "apart")
  BY <1>2, AcceptedMoves, SMTT(30) DEF Inner
<1>4. part \in Nat /\ DOMAIN Buffer(part) = 1 .. part /\ Len(sm) - 2 <= part
  BY <1>1, <1>2 DEF Buffer
<1>5. \A i \in 1 .. part : inner.m[i] = text[i]
  <2>1. SignOpen(Buffer(part), sm, pk, "apart").ret = 0
    BY <1>2, Zenon DEF Inner
  <2> HIDE DEF part
  <2>2. \A i \in 1 .. Len(sm) - 2 :
            SignOpen(Buffer(part), sm, pk, "apart").m[i] = SubSeq(sm, 3, Len(sm))[i]
    BY <1>4, <2>1, AcceptedText, SMTT(30)
  <2> QED
    BY <2>2, Zenon DEF part, Inner
<1>6. text \in Seq(Slots) /\ Len(text) = part
  BY <1>3, ReceivedText
<1> HIDE DEF part, inner, m, text
<1>7. \A i \in 1 .. part : text[i] \in Slots
  BY <1>6, ElementOfSeq
<1>8. \A i \in 1 .. part - 2 : o.m[i] = text[i + 2]
  <2> SUFFICES ASSUME NEW i \in 1 .. part - 2 PROVE o.m[i] = text[i + 2]
    OBVIOUS
  <2>1. i \in 1 .. Len(sm) /\ i + 2 \in 1 .. part /\ i + 2 <= part
    BY <1>1, <1>4 DEF part
  <2>2. o.m[i] = inner.m[i + 2]
    BY <1>1, <1>2, <2>1
  <2> QED
    BY <1>5, <2>1, <2>2
<1>9. /\ got \in Seq(Slots) /\ Len(got) = part - 2
      /\ \A i \in 1 .. part - 2 : got[i] = text[i + 2]
  <2>1. part - 2 \in Nat
    BY <1>2, <1>4
  <2>2. \A i \in 1 .. part - 2 : o.m[i] \in Slots
    BY <1>4, <1>7, <1>8
  <2>3. /\ SubSeq(o.m, 1, part - 2) \in Seq(Slots)
        /\ Len(SubSeq(o.m, 1, part - 2)) = part - 2
        /\ \A i \in 1 .. part - 2 : SubSeq(o.m, 1, part - 2)[i] = o.m[i]
    BY <2>1, <2>2, SubSeqProperties
  <2>4. got = SubSeq(o.m, 1, part - 2)
    BY <1>2, Zenon
  <2> HIDE DEF got
  <2> QED
    BY <1>8, <2>3, <2>4
<1> HIDE DEF got
<1>10. PICK x \in Slots, y \in Slots : CtxHash(ctx) = <<x, y>>
  BY CtxHashType
<1>11. text[1] = x /\ text[2] = y
  <2>1. 1 \in 1 .. part /\ 2 \in 1 .. part
    BY <1>2, <1>4
  <2>2. \A i \in 1 .. 2 : inner.m[i] \in Slots
    BY <1>5, <1>7, <2>1
  <2>3. SubSeq(inner.m, 1, 2)[1] = inner.m[1] /\ SubSeq(inner.m, 1, 2)[2] = inner.m[2]
    BY <2>2, SubSeqProperties
  <2>4. SubSeq(inner.m, 1, 2) = <<x, y>>
    BY <1>2, <1>10, Zenon
  <2>5. inner.m[1] = <<x, y>>[1] /\ inner.m[2] = <<x, y>>[2]
    BY <2>3, <2>4, Zenon
  <2> QED
    BY <1>5, <2>1, <2>5
<1>12. <<x, y>> \o got = text
  <2> DEFINE s == <<x, y>> \o got
  <2>1. /\ Len(s) = Len(got) + 2 /\ s[1] = x /\ s[2] = y /\ s \in Seq(Slots \union {x, y})
        /\ \A i \in 1 .. Len(got) : s[i + 2] = got[i]
    BY <1>9, Front
  <2> HIDE DEF s
  <2>2. Slots \union {x, y} = Slots
    BY <1>10
  <2>3. Len(s) = Len(text)
    BY <1>4, <1>6, <1>9, <2>1
  <2>4. \A i \in 1 .. Len(s) : s[i] = text[i]
    <3> SUFFICES ASSUME NEW i \in 1 .. Len(s) PROVE s[i] = text[i]
      OBVIOUS
    <3>1. CASE i \in 1 .. 2
      BY <1>11, <2>1, <3>1
    <3>2. CASE i \notin 1 .. 2
      <4>1. i - 2 \in 1 .. part - 2 /\ (i - 2) + 2 = i
        BY <1>4, <1>6, <2>3, <3>2
      <4> QED
        BY <1>9, <2>1, <4>1
    <3> QED
      BY <3>1, <3>2
  <2>5. s = text
    BY <1>6, <2>1, <2>2, <2>3, <2>4, SeqEqual
  <2> QED
    BY <2>5 DEF s
<1> QED
  BY <1>3, <1>9, <1>10, <1>12, Zenon DEF text, got, SignedText

(* What a prehash opening that succeeds has seen and returns. *)
LEMMA PhReturn ==
  ASSUME NEW m, NEW sm, NEW pk,
         NEW o, o = PhOpen(m, sm, pk), o.ret = 0
  PROVE  /\ Inner(2, sm, pk, "apart").ret = 0 /\ Inner(2, sm, pk, "apart").mlen = 2 /\ o.mlen = 2
         /\ o.m = [i \in DOMAIN m |-> IF i <= 2 THEN Inner(2, sm, pk, "apart").m[i] ELSE m[i]]
<1> DEFINE inner == Inner(2, sm, pk, "apart")
           differs == inner.ret # 0 \/ inner.mlen # 2
           rejected == [inner EXCEPT !.ret = -1, !.m = m, !.mlen = Absent]
           moved == [i \in DOMAIN m |-> IF i <= 2 THEN inner.m[i] ELSE m[i]]
           opened == [inner EXCEPT !.m = moved]
<1>1. o = IF differs THEN rejected ELSE opened
  BY Zenon DEF PhOpen, Inner
<1>2. DOMAIN inner = Fields
  BY SignOpenFields, Zenon DEF Inner
<1> HIDE DEF inner
<1>3. rejected.ret # 0
  BY <1>2 DEF Fields
<1>4. opened.m = moved /\ opened.mlen = inner.mlen
  <2> HIDE DEF moved
  <2> QED
    BY <1>2 DEF Fields
<1>5. differs \/ (inner.ret = 0 /\ inner.mlen = 2)
  OBVIOUS
<1> HIDE DEF differs, rejected, moved, opened
<1>6. ~differs /\ o = opened
  BY <1>1, <1>3, Zenon
<1> QED
  BY <1>4, <1>5, <1>6, Zenon DEF moved, inner

(* A prehash opening that succeeds returns the text that was verified. *)
LEMMA PhText ==
  ASSUME SignedAreMade, NEW sm \in Received, NEW pk,
         NEW o, o = PhOpen(Buffer(Len(sm)), sm, pk), o.ret = 0
  PROVE  /\ ~(Len(sm) < 2) /\ pk # NoPoint /\ Accepted(sm, pk, "apart")
         /\ SubSeq(o.m, 1, o.mlen) = SignedText(sm)
<1> DEFINE buf == Buffer(2)
           inner == SignOpen(buf, sm, pk, "apart")
           m == Buffer(Len(sm))
           text == SubSeq(sm, 3, Len(sm))
<1>1. Len(sm) \in Nat /\ DOMAIN m = 1 .. Len(sm)
  BY ReceivedDomain DEF Buffer
<1>2. DOMAIN buf = 1 .. 2
  BY DEF Buffer
<1> HIDE DEF buf
<1>3. /\ inner.ret = 0 /\ inner.mlen = 2 /\ o.mlen = 2
      /\ o.m = [i \in DOMAIN m |-> IF i <= 2 THEN inner.m[i] ELSE m[i]]
  BY PhReturn, SMTT(30) DEF Inner, buf
<1>4. ~(Len(sm) < 2) /\ pk # NoPoint /\ Accepted(sm, pk, "apart")
  BY <1>3, AcceptedMoves, SMTT(30)
<1>5. Len(sm) = 4
  <2> DEFINE moved == Moved(Copied(buf, sm, pk), SubSeq(sm, 3, Len(sm)))
             over == Len(buf) < Len(sm)
  <2>1. inner = [ret |-> 0, m |-> moved, mlen |-> Len(sm) - 2, checked |-> TRUE,
                 overrun |-> over]
    BY <1>3, AcceptedMoves, SMTT(30)
  <2> HIDE DEF moved, over, inner
  <2>2. inner.mlen = Len(sm) - 2
    BY <2>1
  <2>3. inner.mlen = 2
    BY <1>3, Zenon
  <2>4. Len(sm) - 2 = 2
    BY <2>2, <2>3, Zenon
  <2> QED
    BY <1>1, <2>4
<1>6. \A i \in 1 .. 2 : inner.m[i] = text[i]
  <2>1. Len(sm) - 2 <= 2 /\ Len(sm) - 2 = 2
    BY <1>5
  <2>2. SignOpen(buf, sm, pk, "apart").ret = 0
    BY <1>3, Zenon
  <2>3. PICK k \in Nat : k = 2
    OBVIOUS
  <2>4. DOMAIN buf = 1 .. k /\ Len(sm) - 2 <= k
    BY <1>2, <2>1, <2>3
  <2>5. SubSeq(SignOpen(buf, sm, pk, "apart").m, 1, Len(sm) - 2) = SubSeq(sm, 3, Len(sm))
    BY <2>2, <2>4, AcceptedText, SMTT(30)
  <2>6. SubSeq(inner.m, 1, 2) = text
    BY <2>1, <2>5, Zenon
  <2> HIDE DEF inner, text
  <2>7. \A i \in 1 .. 2 : inner.m[i] \in {inner.m[1], inner.m[2]}
    OBVIOUS
  <2>8. \A i \in 1 .. 2 : SubSeq(inner.m, 1, 2)[i] = inner.m[i]
    BY <2>7, SubSeqProperties
  <2> QED
    BY <2>6, <2>8, Zenon
<1>7. text \in Seq(Slots) /\ Len(text) = 2
  BY <1>4, <1>5, ReceivedText
<1> HIDE DEF inner, m, text
<1>8. \A i \in 1 .. Len(text) : o.m[i] = text[i]
  <2> SUFFICES ASSUME NEW i \in 1 .. 2 PROVE o.m[i] = text[i]
    BY <1>7
  <2>1. i \in DOMAIN m /\ i <= 2
    BY <1>1, <1>5
  <2> QED
    BY <1>3, <1>6, <2>1
<1>9. SubSeq(o.m, 1, Len(text)) = text
  BY <1>7, <1>8, BeginsWith
<1> QED
  BY <1>3, <1>4, <1>7, <1>9, Zenon DEF text, SignedText

(* Every opening leaves a value for every output. *)
LEMMA OpeningFields ==
  ASSUME NEW o, NEW left \in Openings(o)
  PROVE  DOMAIN left = Fields
<1>1. CASE o.variant = "plain"
  <2> DEFINE m == IF o.place = "over" THEN o.sm ELSE Buffer(Len(o.sm))
  <2>1. left = SignOpen(m, o.sm, o.pk, o.place)
    BY <1>1, Zenon DEF Openings
  <2> HIDE DEF m
  <2> QED
    BY <2>1, SignOpenFields, Zenon
<1>2. CASE o.variant = "ctx"
  <2>1. PICK allocated \in BOOLEAN :
            left = CtxOpen(Buffer(Len(o.sm)), o.sm, o.pk, o.ctx, allocated)
    BY <1>2, Zenon DEF Openings
  <2> DEFINE m == Buffer(Len(o.sm))
             part == Len(o.sm) - 2
             inner == SignOpen(Buffer(part), o.sm, o.pk, "apart")
             refused == o.ctx \in LongContexts \/ part < 2 \/ ~allocated
             differs == inner.ret # 0 \/ SubSeq(inner.m, 1, 2) # CtxHash(o.ctx)
             rejected == [inner EXCEPT !.ret = -1, !.m = m, !.mlen = Absent]
             moved == [i \in DOMAIN m |-> IF i + 2 <= part THEN inner.m[i + 2] ELSE m[i]]
             opened == [inner EXCEPT !.m = moved, !.mlen = part - 2]
  <2>2. left = IF refused THEN Refusal(m) ELSE IF differs THEN rejected ELSE opened
    BY <2>1, Zenon DEF CtxOpen
  <2>3. DOMAIN inner = Fields
    BY SignOpenFields, Zenon
  <2>4. DOMAIN rejected = DOMAIN inner /\ DOMAIN opened = DOMAIN inner
    <3> HIDE DEF inner, m, moved, part
    <3> QED
      OBVIOUS
  <2>5. DOMAIN Refusal(m) = Fields
    BY DEF Refusal, Fields
  <2> HIDE DEF refused, differs, rejected, opened
  <2> QED
    BY <2>2, <2>3, <2>4, <2>5, Zenon
<1>3. CASE o.variant # "plain" /\ o.variant # "ctx"
  <2> DEFINE m == Buffer(Len(o.sm))
             inner == SignOpen(Buffer(2), o.sm, o.pk, "apart")
             differs == inner.ret # 0 \/ inner.mlen # 2
             rejected == [inner EXCEPT !.ret = -1, !.m = m, !.mlen = Absent]
             moved == [i \in DOMAIN m |-> IF i <= 2 THEN inner.m[i] ELSE m[i]]
             opened == [inner EXCEPT !.m = moved]
  <2>1. left = PhOpen(m, o.sm, o.pk)
    BY <1>3, Zenon DEF Openings
  <2>2. left = IF differs THEN rejected ELSE opened
    BY <2>1, Zenon DEF PhOpen
  <2>3. DOMAIN inner = Fields
    BY SignOpenFields, Zenon
  <2>4. DOMAIN rejected = DOMAIN inner /\ DOMAIN opened = DOMAIN inner
    <3> HIDE DEF inner, m, moved
    <3> QED
      OBVIOUS
  <2> HIDE DEF differs, rejected, opened
  <2> QED
    BY <2>2, <2>3, <2>4, Zenon
<1> QED
  BY <1>1, <1>2, <1>3

-----------------------------------------------------------------------------
(* The invariant *)

(* What an opening records. *)
LEMMA OpensRecords ==
  ASSUME NEW variant, NEW ctx, NEW sm, NEW pk, NEW place, NEW left,
         Opens(variant, ctx, sm, pk, place, left)
  PROVE  /\ sign_opened'.variant = variant /\ sign_opened'.ctx = ctx
         /\ sign_opened'.sm = sm /\ sign_opened'.pk = pk /\ sign_opened'.place = place
         /\ \/ sign_opened'.left = left
            \/ left.overrun /\ sign_opened'.left = [left EXCEPT !.ret = Absent]
         /\ UNCHANGED <<sign_sk, sign_keypairs, sign_torn, signed>>
<1> DEFINE gone == [left EXCEPT !.ret = Absent]
<1>1. UNCHANGED <<sign_sk, sign_keypairs, sign_torn, signed>>
  BY DEF Opens
<1>2. PICK survives \in IF left.overrun THEN BOOLEAN ELSE {TRUE} :
          sign_opened' =
              [variant |-> variant, ctx |-> ctx, sm |-> sm, pk |-> pk, place |-> place,
               left |-> IF survives THEN left ELSE gone]
  BY Zenon DEF Opens
<1> DEFINE l == IF survives THEN left ELSE gone
<1>3. l = left \/ (left.overrun /\ l = gone)
  <2> HIDE DEF gone
  <2>1. CASE left.overrun
    BY <2>1, Zenon
  <2>2. CASE ~left.overrun
    <3>1. survives = TRUE
      BY <1>2, <2>2, Zenon
    <3> QED
      BY <3>1, Zenon
  <2> QED
    BY <2>1, <2>2, Zenon
<1>4. sign_opened' = [variant |-> variant, ctx |-> ctx, sm |-> sm, pk |-> pk,
                      place |-> place, left |-> l]
  BY <1>2, Zenon
<1> HIDE DEF l, gone
<1>5. /\ sign_opened'.variant = variant /\ sign_opened'.ctx = ctx
      /\ sign_opened'.sm = sm /\ sign_opened'.pk = pk /\ sign_opened'.place = place
      /\ sign_opened'.left = l
  BY <1>4
<1> QED
  BY <1>1, <1>3, <1>5, Zenon DEF gone

(* A signature call keeps the invariant. *)
LEMMA SignStepInv ==
  ASSUME SignInv, NEW variant \in Variants, NEW ctx \in Contexts, NEW msg \in Messages,
         Sign(variant, ctx, msg), sign_opened = Absent
  PROVE  SignInv'
<1> DEFINE s == [variant |-> variant, ctx |-> ctx, msg |-> msg, sk |-> sign_sk,
                 torn |-> sign_torn,
                 sm |-> SignedMessage(sign_sk, Content(variant, ctx, msg))]
<1>1. /\ sign_sk # Absent /\ signed' = signed \union {s}
      /\ sign_sk' = sign_sk /\ sign_torn' = sign_torn /\ sign_opened' = sign_opened
  BY Zenon DEF Sign
<1>2. SignMade(s)
  <2> DEFINE content == Content(variant, ctx, msg)
             made == SignedMessage(sign_sk, content)
  <2>1. IsSecretKey(sign_sk, sign_torn)
    BY <1>1, Zenon DEF SignInv, KeyInv
  <2> HIDE DEF made
  <2>2. ASSUME NEW sk, NEW torn, NEW r,
               r = [variant |-> variant, ctx |-> ctx, msg |-> msg, sk |-> sk,
                    torn |-> torn, sm |-> made]
        PROVE  /\ r.variant = variant /\ r.ctx = ctx /\ r.msg = msg /\ r.sk = sk
               /\ r.torn = torn /\ r.sm = made
    BY <2>2, Zenon
  <2>3. /\ s.variant = variant /\ s.ctx = ctx /\ s.msg = msg /\ s.sk = sign_sk
        /\ s.torn = sign_torn /\ s.sm = made
    BY <2>2, Zenon DEF made
  <2> HIDE DEF s
  <2>4. IsSecretKey(s.sk, s.torn)
    BY <2>1, <2>3, Zenon
  <2>5. s.sm = SignedMessage(s.sk, Supplied(s))
    BY <2>3, Zenon DEF made, Supplied
  <2> QED
    BY <2>3, <2>4, <2>5, Zenon DEF SignMade
<1> HIDE DEF s
<1>3. SignedAreMade'
  BY <1>1, <1>2, Zenon DEF SignInv, SignedAreMade
<1>4. KeyInv'
  BY <1>1, Zenon DEF SignInv, KeyInv
<1>5. SignOpeningInv'
  BY <1>1, Zenon DEF SignOpeningInv
<1> QED
  BY <1>3, <1>4, <1>5, Zenon DEF SignInv

(* A key generation keeps the invariant, whether its random bytes come or not. *)
LEMMA KeypairStep ==
  ASSUME SignInv, sign_opened = Absent, SignKeypairSucceeds \/ SignKeypairFails
  PROVE  SignInv'
<1>1. signed' = signed /\ sign_opened' = sign_opened
  BY DEF SignKeypairSucceeds, SignKeypairFails, SignKeypair
<1>2. KeyInv'
  <2>1. CASE SignKeypairSucceeds
    <3>1. sign_sk' = [seed |-> Seed, pk |-> PublicKey(Seed)]
      BY <2>1, Zenon DEF SignKeypairSucceeds, SignKeypair
    <3>2. /\ sign_sk' = [seed |-> sign_sk'.seed, pk |-> sign_sk'.pk]
          /\ sign_sk'.pk = PublicKey(sign_sk'.seed)
      BY <3>1
    <3> QED
      BY <3>2, Zenon DEF KeyInv, IsSecretKey
  <2>2. CASE SignKeypairFails
    <3>1. sign_sk # Absent /\ sign_sk' = [sign_sk EXCEPT !.seed = Seed] /\ sign_torn' = TRUE
      BY <2>2, Zenon DEF SignKeypairFails, SignKeypair
    <3>2. sign_sk = [seed |-> sign_sk.seed, pk |-> sign_sk.pk]
      BY <3>1, Zenon DEF SignInv, KeyInv, IsSecretKey
    <3>3. sign_sk' = [seed |-> sign_sk'.seed, pk |-> sign_sk'.pk]
      BY <3>1, <3>2
    <3> QED
      BY <3>1, <3>3, Zenon DEF KeyInv, IsSecretKey
  <2> QED
    BY <2>1, <2>2
<1>3. SignedAreMade' /\ SignOpeningInv'
  BY <1>1, Zenon DEF SignInv, SignedAreMade, SignOpeningInv
<1> QED
  BY <1>2, <1>3, Zenon DEF SignInv

(* An opening keeps the invariant when what it leaves is one of Openings. *)
LEMMA OpenStep ==
  ASSUME SignInv, NEW variant \in Variants, NEW ctx \in Contexts, NEW sm \in Received,
         NEW pk \in PublicKeys, NEW place \in {"over", "apart"}, NEW left,
         place # "apart" => variant = "plain",
         Opens(variant, ctx, sm, pk, place, left),
         \A o : /\ o.variant = variant /\ o.ctx = ctx /\ o.sm = sm /\ o.pk = pk
                /\ o.place = place
                => left \in Openings(o)
  PROVE  SignInv'
<1>1. /\ sign_opened'.variant = variant /\ sign_opened'.ctx = ctx
      /\ sign_opened'.sm = sm /\ sign_opened'.pk = pk /\ sign_opened'.place = place
      /\ \/ sign_opened'.left = left
         \/ left.overrun /\ sign_opened'.left = [left EXCEPT !.ret = Absent]
  BY OpensRecords, Zenon
<1>2. /\ sign_sk' = sign_sk /\ sign_keypairs' = sign_keypairs /\ sign_torn' = sign_torn
      /\ signed' = signed
  BY OpensRecords, Zenon
<1>3. Received' = Received /\ PublicKeys' = PublicKeys
  BY <1>2 DEF Received, PublicKeys
<1>4. left \in Openings(sign_opened')
  BY <1>1, Zenon
<1>5. SignOpeningInv'
  BY <1>1, <1>3, <1>4, Zenon DEF SignOpeningInv
<1>6. SignedAreMade' /\ KeyInv'
  BY <1>2, Zenon DEF SignInv, SignedAreMade, KeyInv
<1> QED
  BY <1>5, <1>6, Zenon DEF SignInv

(* The inductive invariant of the signatures. *)
THEOREM SignInvariant == SignatureSpec => []SignInv
<1>1. SignatureInit => SignInv
  BY Zenon DEF SignatureInit, SignInv, SignedAreMade, KeyInv, SignOpeningInv
<1>2. SignInv /\ [SignatureNext]_signatureVars => SignInv'
  <2> SUFFICES ASSUME SignInv, [SignatureNext]_signatureVars PROVE SignInv'
    OBVIOUS
  <2>1. CASE UNCHANGED signatureVars
    <3>1. /\ sign_sk' = sign_sk /\ sign_keypairs' = sign_keypairs
          /\ sign_torn' = sign_torn /\ signed' = signed /\ sign_opened' = sign_opened
      BY <2>1 DEF signatureVars
    <3>2. Received' = Received /\ PublicKeys' = PublicKeys
      BY <3>1 DEF Received, PublicKeys
    <3> QED
      BY <3>1, <3>2, Zenon DEF SignInv, SignedAreMade, KeyInv, SignOpeningInv
  <2>2. CASE ForgetOpened
    <3>1. /\ sign_sk' = sign_sk /\ sign_torn' = sign_torn /\ signed' = signed
          /\ sign_opened' = Absent
      BY <2>2 DEF ForgetOpened
    <3> QED
      BY <3>1, Zenon DEF SignInv, SignedAreMade, KeyInv, SignOpeningInv
  <2>3. ASSUME sign_opened = Absent, NEW msg \in Messages, NEW variant \in Variants,
               NEW ctx \in Contexts, Sign(variant, ctx, msg)
        PROVE  SignInv'
    BY <2>3, SignStepInv, Zenon
  <2>4. ASSUME NEW sm \in Received, NEW pk \in PublicKeys, NEW place \in {"over", "apart"},
               OpenPlain(sm, pk, place)
        PROVE  SignInv'
    <3> DEFINE left == SignOpen(IF place = "over" THEN sm ELSE Buffer(Len(sm)), sm, pk, place)
    <3>1. Opens("plain", Absent, sm, pk, place, left)
      BY <2>4, Zenon DEF OpenPlain
    <3>2. ASSUME NEW o, o.variant = "plain", o.ctx = Absent, o.sm = sm, o.pk = pk, o.place = place
          PROVE  left \in Openings(o)
      <4>1. left = SignOpen(IF o.place = "over" THEN o.sm ELSE Buffer(Len(o.sm)),
                            o.sm, o.pk, o.place)
        BY <3>2
      <4> HIDE DEF left
      <4> QED
        BY <3>2, <4>1, Zenon DEF Openings
    <3> HIDE DEF left
    <3>3. "plain" \in Variants /\ Absent \in Contexts
      BY DEF Variants, Contexts
    <3> QED
      BY <3>1, <3>2, <3>3, OpenStep
  <2>5. ASSUME NEW sm \in Received, NEW pk \in PublicKeys, NEW ctx \in Contexts,
               NEW allocated \in BOOLEAN, OpenCtx(sm, pk, ctx, allocated)
        PROVE  SignInv'
    <3> DEFINE left == CtxOpen(Buffer(Len(sm)), sm, pk, ctx, allocated)
    <3>1. Opens("ctx", ctx, sm, pk, "apart", left)
      BY <2>5, Zenon DEF OpenCtx
    <3>2. ASSUME NEW o, o.variant = "ctx", o.ctx = ctx, o.sm = sm, o.pk = pk, o.place = "apart"
          PROVE  left \in Openings(o)
      <4>1. left = CtxOpen(Buffer(Len(o.sm)), o.sm, o.pk, o.ctx, allocated)
        BY <3>2, Zenon
      <4> HIDE DEF left
      <4>2. o.variant # "plain"
        BY <3>2
      <4> QED
        BY <3>2, <4>1, <4>2, Zenon DEF Openings
    <3> HIDE DEF left
    <3>3. "ctx" \in Variants /\ "apart" \in {"over", "apart"}
      BY DEF Variants
    <3> QED
      BY <3>1, <3>2, <3>3, OpenStep
  <2>6. ASSUME NEW sm \in Received, NEW pk \in PublicKeys, OpenPh(sm, pk)
        PROVE  SignInv'
    <3> DEFINE left == PhOpen(Buffer(Len(sm)), sm, pk)
    <3>1. Opens("ph", Absent, sm, pk, "apart", left)
      BY <2>6, Zenon DEF OpenPh
    <3>2. ASSUME NEW o, o.variant = "ph", o.ctx = Absent, o.sm = sm, o.pk = pk, o.place = "apart"
          PROVE  left \in Openings(o)
      <4>1. left = PhOpen(Buffer(Len(o.sm)), o.sm, o.pk)
        BY <3>2, Zenon
      <4> HIDE DEF left
      <4>2. o.variant # "plain" /\ o.variant # "ctx"
        BY <3>2
      <4> QED
        BY <3>2, <4>1, <4>2, Zenon DEF Openings
    <3> HIDE DEF left
    <3>3. "ph" \in Variants /\ Absent \in Contexts /\ "apart" \in {"over", "apart"}
      BY DEF Variants, Contexts
    <3> QED
      BY <3>1, <3>2, <3>3, OpenStep
  <2>7. ASSUME sign_opened = Absent, SignKeypairSucceeds \/ SignKeypairFails
        PROVE  SignInv'
    BY <2>7, KeypairStep, Zenon
  <2>8. SignatureNext => \/ sign_opened = Absent /\ SignatureCall
                         \/ ForgetOpened
    BY Zenon DEF SignatureNext
  <2> QED
    BY <2>1, <2>2, <2>3, <2>4, <2>5, <2>6, <2>7, <2>8, Zenon
       DEF SignatureCall, Variants, Contexts
<1> QED
  BY <1>1, <1>2, PTL DEF SignatureSpec

(* An opening that returned 0 left what Openings says. *)
LEMMA ReturnedZero ==
  ASSUME NEW o, NEW left \in Openings(o), o.left.ret = 0,
         o.left = left \/ (left.overrun /\ o.left = [left EXCEPT !.ret = Absent])
  PROVE  o.left = left
<1> SUFFICES ASSUME o.left = [left EXCEPT !.ret = Absent] PROVE FALSE
  OBVIOUS
<1>1. DOMAIN left = Fields
  BY OpeningFields
<1>2. [left EXCEPT !.ret = Absent].ret = Absent
  BY <1>1 DEF Fields
<1>3. Absent # 0
  BY SignatureAssumption
<1> QED
  BY <1>2, <1>3, Zenon

\* The text under which an opening that returned 0 leaves its message.
TextOf(o) ==
    LET got == SubSeq(o.left.m, 1, o.left.mlen)
    IN  IF o.variant = "ctx" THEN CtxHash(o.ctx) \o got ELSE got

(* Every opening that returns 0 has accepted the whole text that arrived. *)
LEMMA SignOpenedText ==
  ASSUME SignedAreMade, NEW o, o.variant \in Variants, o.ctx \in Contexts,
         o.sm \in Received, o.place # "apart" => o.variant = "plain",
         o.left \in Openings(o), o.left.ret = 0
  PROVE  /\ ~(Len(o.sm) < 2) /\ o.pk # NoPoint
         /\ \E place \in {o.place, "apart"} : Accepted(o.sm, o.pk, place)
         /\ TextOf(o) = SignedText(o.sm)
         /\ o.variant = "ctx" => SubSeq(o.left.m, 1, o.left.mlen) \in Seq(Slots)
<1> DEFINE got == SubSeq(o.left.m, 1, o.left.mlen)
<1>1. CASE o.variant = "plain"
  <2>1. o.left = SignOpen(IF o.place = "over" THEN o.sm ELSE Buffer(Len(o.sm)),
                          o.sm, o.pk, o.place)
    BY <1>1, Zenon DEF Openings
  <2>2. /\ ~(Len(o.sm) < 2) /\ o.pk # NoPoint /\ Accepted(o.sm, o.pk, o.place)
        /\ got = SignedText(o.sm)
    BY <2>1, PlainText, Zenon
  <2>3. o.variant # "ctx"
    BY <1>1
  <2> QED
    BY <2>2, <2>3, Zenon DEF TextOf
<1>2. CASE o.variant = "ctx"
  <2>1. o.variant # "plain"
    BY <1>2
  <2>2. IsCtxOpening(o.left, o.sm, o.pk, o.ctx)
    BY <1>2, <2>1, Zenon DEF Openings, IsCtxOpening
  <2>3. /\ ~(Len(o.sm) < 2) /\ o.pk # NoPoint /\ Accepted(o.sm, o.pk, "apart")
        /\ CtxHash(o.ctx) \o got = SignedText(o.sm) /\ got \in Seq(Slots)
    BY <2>2, CtxText, Zenon
  <2> QED
    BY <1>2, <2>3, Zenon DEF TextOf
<1>3. CASE o.variant = "ph"
  <2>1. o.variant # "plain" /\ o.variant # "ctx"
    BY <1>3
  <2>2. o.left = PhOpen(Buffer(Len(o.sm)), o.sm, o.pk)
    BY <2>1, Zenon DEF Openings
  <2>3. /\ ~(Len(o.sm) < 2) /\ o.pk # NoPoint /\ Accepted(o.sm, o.pk, "apart")
        /\ got = SignedText(o.sm)
    BY <2>2, PhText, Zenon
  <2> QED
    BY <2>1, <2>3, Zenon DEF TextOf
<1> QED
  BY <1>1, <1>2, <1>3 DEF Variants

(* Only nothing and the empty context hash alike. *)
LEMMA CtxHashesEqual ==
  ASSUME NEW c, NEW d, CtxHash(c) = CtxHash(d)
  PROVE  c = d \/ {c, d} \subseteq {Absent, <<>>}
<1>1. \A x, y : Digest(x) = Digest(y) => x = y
  BY DEF Digest
<1>2. \A x : Digest(x) # <<Zero, Zero>>
  BY DEF Digest, Zero
<1> QED
  BY <1>1, <1>2, Zenon DEF CtxHash

(* What hashes like a context is the context. *)
LEMMA DigestIsCtxHash ==
  ASSUME NEW x, NEW c, Digest(x) = CtxHash(c)
  PROVE  x = c
<1>1. \A y, z : Digest(y) = Digest(z) => y = z
  BY DEF Digest
<1>2. \A y : Digest(y) # <<Zero, Zero>>
  BY DEF Digest, Zero
<1> QED
  BY <1>1, <1>2, Zenon DEF CtxHash

(* Two texts that begin with context hashes are equal only when both parts are. *)
LEMMA HashedFronts ==
  ASSUME NEW c \in Contexts, NEW d \in Contexts, NEW p \in Seq(Slots), NEW q \in Seq(Slots),
         CtxHash(c) \o p = CtxHash(d) \o q
  PROVE  CtxHash(c) = CtxHash(d) /\ p = q
<1>1. PICK x \in Slots, y \in Slots : CtxHash(c) = <<x, y>>
  BY CtxHashType
<1>2. PICK u \in Slots, v \in Slots : CtxHash(d) = <<u, v>>
  BY CtxHashType
<1>3. CtxHash(c) \o p = <<x, y>> \o p /\ CtxHash(c) \o p = <<u, v>> \o q
  BY <1>1, <1>2, Zenon
<1>4. ASSUME NEW s, s = <<x, y>> \o p, s = <<u, v>> \o q
      PROVE  x = u /\ y = v /\ p = q
  <2>1. s[1] = x /\ s[2] = y /\ SubSeq(s, 3, Len(s)) = p
    BY <1>4, Front
  <2>2. s[1] = u /\ s[2] = v /\ SubSeq(s, 3, Len(s)) = q
    BY <1>4, Front
  <2> QED
    BY <2>1, <2>2, Zenon
<1>5. x = u /\ y = v /\ p = q
  BY <1>3, <1>4, Zenon
<1> QED
  BY <1>1, <1>2, <1>5, Zenon

(* A hash that begins with a context hash is just that. *)
LEMMA HashedAlone ==
  ASSUME NEW msg, NEW c \in Contexts, NEW p \in Seq(Slots), Digest(msg) = CtxHash(c) \o p
  PROVE  msg = c /\ p = <<>>
<1>1. PICK x \in Slots, y \in Slots : CtxHash(c) = <<x, y>>
  BY CtxHashType
<1>2. Digest(msg) = <<x, y>> \o p
  BY <1>1, Zenon
<1>3. ASSUME NEW s, s = <<x, y>> \o p
      PROVE  Len(s) = Len(p) + 2 /\ s[1] = x /\ s[2] = y
  BY <1>3, Front
<1>4. Len(Digest(msg)) = Len(p) + 2 /\ Digest(msg)[1] = x /\ Digest(msg)[2] = y
  BY <1>2, <1>3, Zenon
<1>5. Digest(msg) = <<Digest(msg)[1], Digest(msg)[2]>> /\ Len(Digest(msg)) = 2
  BY DEF Digest
<1>6. p = <<>>
  <2>1. Len(p) = 0
    <3>1. Len(p) \in Nat
      BY LenProperties
    <3> QED
      BY <1>4, <1>5, <3>1
  <2> QED
    BY <2>1, EmptySeq
<1>7. Digest(msg) = CtxHash(c)
  BY <1>1, <1>4, <1>5, Zenon
<1> QED
  BY <1>6, <1>7, DigestIsCtxHash, Zenon

(* What the text of an accepted signature s says of the message that comes out of
   the opening o. *)
LEMMA TextTells ==
  ASSUME NEW s, SignMade(s), NEW o, o.variant \in Variants, o.ctx \in Contexts, NEW got,
         o.variant = "ctx" => got \in Seq(Slots),
         Supplied(s) = IF o.variant = "ctx" THEN CtxHash(o.ctx) \o got ELSE got
  PROVE  SameVariant(s, o, got) \/ OtherVariant(s, o, got)
<1>1. s.variant \in Variants /\ s.ctx \in Contexts /\ s.msg \in Messages
  BY Zenon DEF SignMade
<1>2. /\ s.msg \in Seq(Slots)
      /\ s.variant = "plain" => Supplied(s) = s.msg
      /\ s.variant = "ctx" => Supplied(s) = CtxHash(s.ctx) \o s.msg
      /\ s.variant = "ph" => Supplied(s) = Digest(s.msg)
  BY <1>1, ContentType, Zenon DEF Supplied
<1>3. CASE o.variant # "ctx"
  <2>1. got = Supplied(s)
    BY <1>3, Zenon
  <2>2. CASE s.variant = o.variant
    BY <1>1, <1>2, <1>3, <2>1, <2>2 DEF SameVariant, Variants
  <2>3. CASE s.variant # o.variant
    BY <1>3, <2>1, <2>3, Zenon DEF OtherVariant, Supplied
  <2> QED
    BY <2>2, <2>3
<1>4. CASE o.variant = "ctx"
  <2>1. got \in Seq(Slots) /\ Supplied(s) = CtxHash(o.ctx) \o got
    BY <1>4, Zenon
  <2>2. CASE s.variant = "ctx"
    <3>1. CtxHash(s.ctx) = CtxHash(o.ctx) /\ s.msg = got
      <4>1. CtxHash(s.ctx) \o s.msg = CtxHash(o.ctx) \o got
        BY <1>2, <2>1, <2>2, Zenon
      <4>2. s.ctx \in Contexts /\ s.msg \in Seq(Slots) /\ got \in Seq(Slots)
        BY <1>1, <1>2, <2>1, Zenon
      <4> QED
        BY <4>1, <4>2, HashedFronts, Zenon
    <3>2. s.ctx = o.ctx \/ {s.ctx, o.ctx} \subseteq {Absent, <<>>}
      BY <3>1, CtxHashesEqual, Zenon
    <3>3. o.variant # "ph"
      BY <1>4
    <3> QED
      BY <1>4, <2>2, <3>1, <3>2, <3>3, Zenon DEF SameVariant
  <2>3. CASE s.variant = "plain"
    <3>1. s.variant # o.variant
      BY <1>4, <2>3
    <3>2. s.msg = CtxHash(o.ctx) \o got
      BY <1>2, <2>1, <2>3, Zenon
    <3> QED
      BY <1>4, <2>3, <3>1, <3>2, Zenon DEF OtherVariant
  <2>4. CASE s.variant = "ph"
    <3>1. Digest(s.msg) = CtxHash(o.ctx) \o got
      BY <1>2, <2>1, <2>4, Zenon
    <3>2. s.msg = o.ctx /\ got = <<>>
      BY <2>1, <3>1, HashedAlone, Zenon
    <3>3. s.variant # o.variant /\ s.variant # "plain"
      BY <1>4, <2>4
    <3> QED
      BY <1>4, <2>4, <3>2, <3>3, Zenon DEF OtherVariant
  <2> QED
    BY <1>1, <2>2, <2>3, <2>4, Zenon DEF Variants
<1> QED
  BY <1>3, <1>4

(* What any opening returns with 0 was signed by the secret half of the public key it
   was opened with: the same message and context when the variants are the same, and
   otherwise just the texts that the two variants have in common. *)
THEOREM OpenedIsSigned == SignatureSpec => []OpenedWasSigned
<1>1. ASSUME SignInv PROVE OpenedWasSigned
  <2> DEFINE o == sign_opened
             got == SubSeq(o.left.m, 1, o.left.mlen)
  <2> SUFFICES ASSUME o # Absent, o.left.ret = 0
               PROVE  \E s \in signed :
                          /\ s.sk = [seed |-> s.sk.seed, pk |-> o.pk]
                          /\ o.pk = PublicKey(s.sk.seed)
                          /\ SameVariant(s, o, got) \/ OtherVariant(s, o, got)
    BY Zenon DEF OpenedWasSigned
  <2>1. /\ SignedAreMade /\ o.variant \in Variants /\ o.ctx \in Contexts
        /\ o.sm \in Received /\ o.pk \in PublicKeys /\ o.place \in {"over", "apart"}
        /\ o.place # "apart" => o.variant = "plain"
    BY <1>1, Zenon DEF SignInv, SignOpeningInv
  <2>2. PICK left \in Openings(o) :
            o.left = left \/ (left.overrun /\ o.left = [left EXCEPT !.ret = Absent])
    BY <1>1, Zenon DEF SignInv, SignOpeningInv
  <2>3. o.left \in Openings(o)
    BY <2>2, ReturnedZero, Zenon
  <2>4. PICK place \in {o.place, "apart"} :
            /\ ~(Len(o.sm) < 2) /\ o.pk # NoPoint /\ Accepted(o.sm, o.pk, place)
            /\ TextOf(o) = SignedText(o.sm)
            /\ o.variant = "ctx" => got \in Seq(Slots)
    BY <2>1, <2>3, SignOpenedText, Zenon
  <2>5. place \in {"over", "apart"}
    BY <2>1, <2>4
  <2>6. PICK s \in signed : /\ s.sk.pk = o.pk /\ o.pk = PublicKey(s.sk.seed)
                            /\ Supplied(s) = SubSeq(o.sm, 3, Len(o.sm))
    BY <2>1, <2>4, <2>5, AcceptedWasSigned, SMTT(30)
  <2>7. SignMade(s) /\ s.sk = [seed |-> s.sk.seed, pk |-> s.sk.pk]
    BY <2>1, Zenon DEF SignedAreMade, SignMade, IsSecretKey
  <2>8. Supplied(s) = IF o.variant = "ctx" THEN CtxHash(o.ctx) \o got ELSE got
    BY <2>4, <2>6, Zenon DEF SignedText, TextOf
  <2> HIDE DEF got, o
  <2>9. SameVariant(s, o, got) \/ OtherVariant(s, o, got)
    BY <2>1, <2>4, <2>7, <2>8, TextTells
  <2> QED
    BY <2>6, <2>7, <2>9, Zenon
<1> QED
  BY <1>1, SignInvariant, PTL

-----------------------------------------------------------------------------
(* What was signed opens *)

(* A signed message made with a whole key pair passes the check. *)
LEMMA SignedAccepted ==
  ASSUME SignedAreMade, NEW s \in signed, ~s.torn, NEW pk, pk = PublicKey(s.sk.seed)
  PROVE  /\ ~(Len(s.sm) < 2) /\ pk # NoPoint /\ Accepted(s.sm, pk, "apart")
         /\ SignedText(s.sm) = Supplied(s) /\ s.sm \in Received
<1>1. SignMade(s)
  BY DEF SignedAreMade
<1> DEFINE R == Commitment(s.sk.seed, Supplied(s))
           h == Hram(R, s.sk.pk, Supplied(s))
           S == Response(s.sk.seed, Supplied(s), h)
<1>2. /\ Supplied(s) \in Seq(Slots) /\ s.sm = <<R, S>> \o Supplied(s)
      /\ Len(s.sm) = Len(Supplied(s)) + 2
      /\ s.sm[1] = R /\ s.sm[2] = S /\ SubSeq(s.sm, 3, Len(s.sm)) = Supplied(s)
  BY <1>1, SignedSlots, Zenon
<1>3. s.sk.pk = pk
  BY <1>1, Zenon DEF SignMade, IsSecretKey
<1>4. ~(Len(s.sm) < 2)
  <2>1. Len(Supplied(s)) \in Nat
    BY <1>2, LenProperties
  <2> QED
    BY <1>2, <2>1
<1>5. pk # NoPoint
  BY DEF PublicKey, NoPoint
<1>6. Recovered(S, h, pk) = R
  <2> HIDE DEF h
  <2>1. S[1] = "S" /\ S[2] = s.sk.seed /\ S[3] = Supplied(s) /\ S[4] = h
    BY DEF Response
  <2> HIDE DEF S
  <2> QED
    BY <2>1, Zenon DEF Recovered
<1>7. Accepted(s.sm, pk, "apart")
  <2>1. "apart" # "over"
    OBVIOUS
  <2>2. (IF "apart" = "over" THEN pk ELSE s.sm[2]) = S
    BY <1>2, <2>1, Zenon
  <2>3. Hram(s.sm[1], pk, SubSeq(s.sm, 3, Len(s.sm))) = h
    BY <1>2, <1>3, Zenon
  <2> HIDE DEF R, S, h
  <2> QED
    BY <1>2, <1>6, <2>2, <2>3, Zenon DEF Accepted
<1>8. s.sm \in Received
  <2>1. s.sm = Mixed(s, s, s)
    BY <1>2, Zenon DEF Mixed
  <2> QED
    BY <2>1 DEF Received
<1> QED
  BY <1>2, <1>4, <1>5, <1>7, <1>8, Zenon DEF SignedText

(* The context variant takes its hash off the text again. *)
LEMMA CtxSucceeds ==
  ASSUME SignedAreMade, NEW sm \in Received, NEW pk, pk # NoPoint,
         ~(Len(sm) < 2), Accepted(sm, pk, "apart"),
         NEW ctx \in Contexts, NEW msg \in Seq(Slots), SignedText(sm) = CtxHash(ctx) \o msg,
         NEW o, IsCtxOpening(o, sm, pk, ctx), o.checked
  PROVE  o.ret = 0
<1>0. PICK allocated : o = CtxOpen(Buffer(Len(sm)), sm, pk, ctx, allocated)
  BY Zenon DEF IsCtxOpening
<1> DEFINE part == Len(sm) - 2
           b == Buffer(part)
           inner == SignOpen(b, sm, pk, "apart")
           m == Buffer(Len(sm))
           text == SubSeq(sm, 3, Len(sm))
           refused == ctx \in LongContexts \/ part < 2 \/ ~allocated
           differs == inner.ret # 0 \/ SubSeq(inner.m, 1, 2) # CtxHash(ctx)
           rejected == [inner EXCEPT !.ret = -1, !.m = m, !.mlen = Absent]
           moved == [i \in DOMAIN m |-> IF i + 2 <= part THEN inner.m[i + 2] ELSE m[i]]
           opened == [inner EXCEPT !.m = moved, !.mlen = part - 2]
<1>1. o = IF refused THEN Refusal(m) ELSE IF differs THEN rejected ELSE opened
  BY <1>0, Zenon DEF CtxOpen
<1>2. ~refused
  <2> SUFFICES ASSUME refused PROVE FALSE
    OBVIOUS
  <2> HIDE DEF refused, differs, rejected, opened, m
  <2>1. Refusal(m).checked = FALSE
    BY DEF Refusal
  <2>2. o.checked = FALSE
    BY <1>1, <2>1, Zenon
  <2> QED
    BY <2>2, Zenon
<1>3. inner.ret = 0
  <2>1. inner = [ret |-> 0, m |-> Moved(Copied(b, sm, pk), text), mlen |-> part,
                 checked |-> TRUE, overrun |-> Len(b) < Len(sm)]
    BY WayAccepted, Zenon
  <2> DEFINE x == Moved(Copied(b, sm, pk), text)
             over == Len(b) < Len(sm)
  <2> HIDE DEF x, over, b, inner
  <2>2. inner = [ret |-> 0, m |-> x, mlen |-> part, checked |-> TRUE, overrun |-> over]
    BY <2>1, Zenon DEF x, over
  <2> HIDE DEF part
  <2> QED
    BY <2>2
<1>4. Len(sm) \in Nat /\ part \in Nat /\ part >= 2
  <2>1. Len(sm) \in Nat /\ ~(part < 2)
    BY <1>2, ReceivedDomain
  <2> QED
    BY <2>1
<1>5. PICK x \in Slots, y \in Slots : CtxHash(ctx) = <<x, y>>
  BY CtxHashType
<1>6. text[1] = x /\ text[2] = y
  <2>1. text = <<x, y>> \o msg
    BY <1>5, Zenon DEF SignedText
  <2> HIDE DEF text
  <2> QED
    BY <2>1, Front
<1>7. inner.m[1] = text[1] /\ inner.m[2] = text[2]
  <2>1. DOMAIN b = 1 .. part
    BY DEF Buffer
  <2>2. part <= part
    BY <1>4
  <2>3. SignOpen(b, sm, pk, "apart").ret = 0
    BY <1>3, Zenon
  <2>4. PICK k \in Nat : k = part
    BY <1>4, Zenon
  <2>5. DOMAIN b = 1 .. k /\ Len(sm) - 2 <= k
    BY <2>1, <2>2, <2>4, Zenon
  <2> HIDE DEF b
  <2>6. SubSeq(SignOpen(b, sm, pk, "apart").m, 1, Len(sm) - 2) = SubSeq(sm, 3, Len(sm))
    BY <2>3, <2>5, AcceptedText, SMTT(30)
  <2>7. SubSeq(inner.m, 1, part) = text
    BY <2>6, Zenon
  <2> HIDE DEF inner, text, part
  <2>8. /\ SubSeq(inner.m, 1, part)[1] = inner.m[1]
        /\ SubSeq(inner.m, 1, part)[2] = inner.m[2]
    <3>1. \A i \in 1 .. part : inner.m[i] \in {inner.m[j] : j \in 1 .. part}
      OBVIOUS
    <3>2. \A i \in 1 .. part : SubSeq(inner.m, 1, part)[i] = inner.m[i]
      BY <1>4, <3>1, SubSeqProperties
    <3>3. 1 \in 1 .. part /\ 2 \in 1 .. part
      BY <1>4
    <3> QED
      BY <3>2, <3>3, Zenon
  <2> QED
    BY <2>7, <2>8, Zenon
<1>8. SubSeq(inner.m, 1, 2) = CtxHash(ctx)
  <2> HIDE DEF inner, text, part
  <2>1. <<x, y>> \in Seq(Slots) /\ Len(<<x, y>>) = 2
    OBVIOUS
  <2>2. \A i \in 1 .. Len(<<x, y>>) : inner.m[i] = <<x, y>>[i]
    BY <1>6, <1>7, <2>1
  <2>3. SubSeq(inner.m, 1, Len(<<x, y>>)) = <<x, y>>
    BY <2>1, <2>2, BeginsWith
  <2> QED
    BY <1>5, <2>1, <2>3, Zenon
<1>9. opened.ret = inner.ret
  <2>1. DOMAIN inner = Fields
    BY SignOpenFields, Zenon
  <2> HIDE DEF inner, moved, part
  <2> QED
    BY <2>1 DEF Fields
<1>10. ~differs
  BY <1>3, <1>8, Zenon
<1> HIDE DEF refused, differs, rejected, opened, inner
<1> QED
  BY <1>1, <1>2, <1>3, <1>9, <1>10, Zenon

(* The prehash variant has room for the hash. *)
LEMMA PhSucceeds ==
  ASSUME NEW m, NEW sm, NEW pk, pk # NoPoint, Len(sm) = 4, Accepted(sm, pk, "apart")
  PROVE  PhOpen(m, sm, pk).ret = 0
<1> DEFINE b == Buffer(2)
           text == SubSeq(sm, 3, Len(sm))
           inner == SignOpen(b, sm, pk, "apart")
           x == Moved(Copied(b, sm, pk), text)
           over == Len(b) < Len(sm)
           differs == inner.ret # 0 \/ inner.mlen # 2
           rejected == [inner EXCEPT !.ret = -1, !.m = m, !.mlen = Absent]
           moved == [i \in DOMAIN m |-> IF i <= 2 THEN inner.m[i] ELSE m[i]]
           opened == [inner EXCEPT !.m = moved]
<1>1. ~(Len(sm) < 2) /\ Len(sm) - 2 = 2
  OBVIOUS
<1>2. inner = [ret |-> 0, m |-> x, mlen |-> Len(sm) - 2, checked |-> TRUE, overrun |-> over]
  BY <1>1, WayAccepted, Zenon
<1>3. PhOpen(m, sm, pk) = IF differs THEN rejected ELSE opened
  BY Zenon DEF PhOpen
<1> HIDE DEF inner, x, over, b
<1>4. inner.ret = 0 /\ inner.mlen = Len(sm) - 2 /\ DOMAIN inner = Fields
  BY <1>2 DEF Fields
<1>5. inner.mlen = 2
  BY <1>1, <1>4, Zenon
<1>6. ~differs
  BY <1>4, <1>5, Zenon
<1>7. opened.ret = inner.ret
  <2> HIDE DEF moved
  <2> QED
    BY <1>4 DEF Fields
<1> HIDE DEF differs, rejected, opened
<1> QED
  BY <1>3, <1>4, <1>6, <1>7, Zenon

(* What verifies is opened with 0. *)
LEMMA PlainSucceeds ==
  ASSUME NEW m, NEW sm, NEW pk, NEW place, ~(Len(sm) < 2), pk # NoPoint,
         Accepted(sm, pk, place)
  PROVE  SignOpen(m, sm, pk, place).ret = 0
<1> DEFINE x == Moved(Copied(m, sm, pk), SubSeq(sm, 3, Len(sm)))
           over == Len(m) < Len(sm)
<1>1. SignOpen(m, sm, pk, place) =
          [ret |-> 0, m |-> x, mlen |-> Len(sm) - 2, checked |-> TRUE, overrun |-> over]
  BY WayAccepted, Zenon
<1> HIDE DEF x
<1> QED
  BY <1>1, SMT

(* The message behind the hash of the context is what was signed. *)
LEMMA CtxMessage ==
  ASSUME SignedAreMade, NEW sm \in Received, NEW pk, NEW ctx \in Contexts,
         NEW msg \in Seq(Slots), SignedText(sm) = CtxHash(ctx) \o msg,
         NEW o, IsCtxOpening(o, sm, pk, ctx), o.ret = 0
  PROVE  SubSeq(o.m, 1, o.mlen) = msg
<1> DEFINE got == SubSeq(o.m, 1, o.mlen)
<1>1. CtxHash(ctx) \o got = SignedText(sm) /\ got \in Seq(Slots)
  BY CtxText, Zenon
<1>2. PICK x \in Slots, y \in Slots : CtxHash(ctx) = <<x, y>>
  BY CtxHashType
<1> DEFINE all == SignedText(sm)
<1>3. all = <<x, y>> \o got /\ all = <<x, y>> \o msg
  BY <1>1, <1>2, Zenon
<1> HIDE DEF got, all
<1>4. SubSeq(all, 3, Len(all)) = got
  BY <1>1, <1>3, Front
<1>5. SubSeq(all, 3, Len(all)) = msg
  BY <1>3, Front
<1> QED
  BY <1>4, <1>5, Zenon DEF got

(* The opening of a signed message with its own variant, context and key. *)
LEMMA OwnOpening ==
  ASSUME SignedAreMade, NEW s \in signed, ~s.torn,
         NEW o, o.pk = PublicKey(s.sk.seed), o.sm = s.sm, o.variant = s.variant,
         o.ctx = s.ctx, o.place = "apart", o.left \in Openings(o), o.left.checked
  PROVE  /\ o.left.ret = 0
         /\ SubSeq(o.left.m, 1, o.left.mlen) = IF s.variant = "ph" THEN Digest(s.msg) ELSE s.msg
<1> DEFINE sm == s.sm
           pk == o.pk
           got == SubSeq(o.left.m, 1, o.left.mlen)
<1>1. /\ ~(Len(sm) < 2) /\ pk # NoPoint /\ Accepted(sm, pk, "apart")
      /\ SignedText(sm) = Supplied(s) /\ sm \in Received
  BY SignedAccepted, Zenon
<1>2. /\ s.variant \in Variants /\ s.ctx \in Contexts /\ s.msg \in Messages
      /\ Len(sm) = Len(Supplied(s)) + 2
  BY SignedSlots, Zenon DEF SignedAreMade, SignMade
<1>3. /\ s.msg \in Seq(Slots)
      /\ s.variant = "plain" => Supplied(s) = s.msg
      /\ s.variant = "ctx" => Supplied(s) = CtxHash(s.ctx) \o s.msg
      /\ s.variant = "ph" => Supplied(s) = Digest(s.msg)
  BY <1>2, ContentType, Zenon DEF Supplied
<1>4. CASE s.variant = "plain"
  <2> DEFINE m == IF o.place = "over" THEN sm ELSE Buffer(Len(sm))
  <2>1. o.left = SignOpen(m, sm, pk, "apart")
    BY <1>4, Zenon DEF Openings
  <2> HIDE DEF m
  <2>2. o.left.ret = 0
    <3>1. SignOpen(m, sm, pk, "apart").ret = 0
      BY <1>1, PlainSucceeds, SMTT(30)
    <3> QED
      BY <2>1, <3>1, Zenon
  <2>3. m = IF "apart" = "over" THEN sm ELSE Buffer(Len(sm))
    BY Zenon DEF m
  <2>4. got = SignedText(sm)
    BY <1>1, <2>1, <2>2, <2>3, PlainText, SMTT(30)
  <2>5. s.variant # "ph"
    BY <1>4
  <2> QED
    BY <1>1, <1>3, <1>4, <2>2, <2>4, <2>5, Zenon
<1>5. CASE s.variant = "ctx"
  <2>1. s.variant # "plain" /\ s.variant # "ph"
    BY <1>5
  <2>2. IsCtxOpening(o.left, sm, pk, s.ctx)
    BY <1>5, <2>1, Zenon DEF Openings, IsCtxOpening
  <2>3. SignedText(sm) = CtxHash(s.ctx) \o s.msg
    BY <1>1, <1>3, <1>5, Zenon
  <2>4. o.left.ret = 0
    BY <1>1, <1>2, <1>3, <2>2, <2>3, CtxSucceeds, Zenon
  <2>5. got = s.msg
    BY <1>1, <1>2, <1>3, <2>2, <2>3, <2>4, CtxMessage, Zenon
  <2> QED
    BY <2>1, <2>4, <2>5, Zenon
<1>6. CASE s.variant = "ph"
  <2>1. s.variant # "plain" /\ s.variant # "ctx"
    BY <1>6
  <2>2. o.left = PhOpen(Buffer(Len(sm)), sm, pk)
    BY <2>1, Zenon DEF Openings
  <2>3. Len(sm) = 4
    <3>1. Len(Digest(s.msg)) = 2
      BY DEF Digest
    <3>2. Len(Supplied(s)) = Len(Digest(s.msg))
      BY <1>3, <1>6, Zenon
    <3> QED
      BY <1>2, <3>1, <3>2
  <2>4. o.left.ret = 0
    BY <1>1, <2>2, <2>3, PhSucceeds, SMTT(30)
  <2>5. got = SignedText(sm)
    BY <1>1, <2>2, <2>4, PhText, Zenon
  <2> QED
    BY <1>1, <1>3, <1>6, <2>4, <2>5, Zenon
<1> QED
  BY <1>2, <1>4, <1>5, <1>6 DEF Variants

(* A message signed with a whole key pair opens to what was signed, unless the
   opening was refused a buffer, overwrote its own input, or did not return. *)
THEOREM WhatIsSignedOpens == SignatureSpec => []SignedOpens
<1>1. ASSUME SignInv PROVE SignedOpens
  <2> SUFFICES ASSUME sign_opened # Absent, NEW s \in signed,
                      ~s.torn, sign_opened.pk = PublicKey(s.sk.seed),
                      s.sm = sign_opened.sm, s.variant = sign_opened.variant,
                      s.ctx = sign_opened.ctx, sign_opened.left.checked,
                      sign_opened.place = "apart", sign_opened.left.ret # Absent
               PROVE  /\ sign_opened.left.ret = 0
                      /\ SubSeq(sign_opened.left.m, 1, sign_opened.left.mlen) =
                             IF s.variant = "ph" THEN Digest(s.msg) ELSE s.msg
    BY Zenon DEF SignedOpens
  <2> DEFINE o == sign_opened
  <2>1. PICK left \in Openings(o) :
            o.left = left \/ (left.overrun /\ o.left = [left EXCEPT !.ret = Absent])
    BY <1>1, Zenon DEF SignInv, SignOpeningInv
  <2>2. o.left \in Openings(o)
    <3>1. CASE o.left = left
      BY <2>1, <3>1, Zenon
    <3>2. CASE o.left = [left EXCEPT !.ret = Absent]
      <4>1. DOMAIN left = Fields
        BY OpeningFields
      <4>2. [left EXCEPT !.ret = Absent].ret = Absent
        BY <4>1 DEF Fields
      <4> QED
        BY <3>2, <4>2, Zenon
    <3> QED
      BY <2>1, <3>1, <3>2, Zenon
  <2>3. SignedAreMade
    BY <1>1, Zenon DEF SignInv
  <2> QED
    BY <2>2, <2>3, OwnOpening, Zenon
<1> QED
  BY <1>1, SignInvariant, PTL

-----------------------------------------------------------------------------
(* What the openings leave behind *)

(* A buffer has the length it is asked for. *)
LEMMA BufferLength ==
  ASSUME NEW n \in Nat
  PROVE  Len(Buffer(n)) = n
<1>1. Buffer(n) \in Seq({Before})
  BY DEF Buffer
<1>2. DOMAIN Buffer(n) = 1 .. n
  BY DEF Buffer
<1>3. DOMAIN Buffer(n) = 1 .. Len(Buffer(n)) /\ Len(Buffer(n)) \in Nat
  BY <1>1, LenProperties
<1> HIDE DEF Buffer
<1> QED
  BY <1>2, <1>3

(* crypto_sign_open writes past a buffer that is shorter than sm, whenever it
   gets as far as the check. *)
LEMMA InnerOverrun ==
  ASSUME NEW m, NEW sm, NEW pk, NEW place, NEW r, r = SignOpen(m, sm, pk, place)
  PROVE  r.overrun <=> r.checked /\ Len(m) < Len(sm)
<1> DEFINE over == Len(m) < Len(sm)
<1>1. CASE Len(sm) < 2 \/ pk = NoPoint
  <2>1. r = [ret |-> -1, m |-> m, mlen |-> Absent, checked |-> FALSE, overrun |-> FALSE]
    BY <1>1, WayRefused, Zenon DEF Refusal
  <2>2. r.checked = FALSE /\ r.overrun = FALSE
    BY <2>1, SMT
  <2> QED
    BY <2>2, Zenon
<1>2. CASE ~(Len(sm) < 2) /\ pk # NoPoint /\ Accepted(sm, pk, place)
  <2>1. r = [ret |-> 0, m |-> Moved(Copied(m, sm, pk), SubSeq(sm, 3, Len(sm))),
             mlen |-> Len(sm) - 2, checked |-> TRUE, overrun |-> over]
    BY <1>2, WayAccepted, Zenon
  <2>2. r.checked = TRUE /\ r.overrun = over
    BY <2>1, SMT
  <2> QED
    BY <2>2, Zenon
<1>3. CASE ~(Len(sm) < 2) /\ pk # NoPoint /\ ~Accepted(sm, pk, place)
  <2>1. r = [ret |-> -1, m |-> Cleared(Copied(m, sm, pk), SubSeq(sm, 3, Len(sm))),
             mlen |-> 0, checked |-> TRUE, overrun |-> over]
    BY <1>3, WayFailed, Zenon
  <2>2. r.checked = TRUE /\ r.overrun = over
    BY <2>1, SMT
  <2> QED
    BY <2>2, Zenon
<1> QED
  BY <1>1, <1>2, <1>3, Zenon

\* A plain opening, and a prehash one.
IsPlainOpening(r, sm, pk, place) ==
    r = SignOpen(IF place = "over" THEN sm ELSE Buffer(Len(sm)), sm, pk, place)

IsPhOpening(o, sm, pk) == o = PhOpen(Buffer(Len(sm)), sm, pk)

\* r states no length, and the first n bytes of its buffer are zeroed.
LeavesZeroes(r, n) == r.mlen = 0 /\ \A i \in 1 .. n : r.m[i] = Zero

(* A plain opening stays within m and zeroes the text it does not accept. *)
LEMMA PlainLeaves ==
  ASSUME SignedAreMade, NEW sm \in Received, NEW pk, NEW place,
         NEW r, IsPlainOpening(r, sm, pk, place)
  PROVE  ~r.overrun /\ (r.checked /\ r.ret # 0 => LeavesZeroes(r, Len(sm) - 2))
<1> DEFINE m == IF place = "over" THEN sm ELSE Buffer(Len(sm))
           text == SubSeq(sm, 3, Len(sm))
           copied == Copied(m, sm, pk)
<1>1. /\ Len(sm) \in Nat /\ DOMAIN m = 1 .. Len(sm) /\ Len(m) = Len(sm)
  BY ReceivedDomain, BufferLength DEF Buffer
<1>2. ~(Len(m) < Len(sm))
  <2> HIDE DEF m
  <2> QED
    BY <1>1
<1>3. ~r.overrun
  BY <1>2, InnerOverrun, Zenon DEF IsPlainOpening
<1>4. ASSUME r.checked, r.ret # 0
      PROVE  LeavesZeroes(r, Len(sm) - 2)
  <2> HIDE DEF m
  <2>0. r = SignOpen(m, sm, pk, place)
    BY Zenon DEF m, IsPlainOpening
  <2>1. ~(Len(sm) < 2) /\ pk # NoPoint
    <3> SUFFICES ASSUME Len(sm) < 2 \/ pk = NoPoint PROVE FALSE
      BY Zenon
    <3>1. r = [ret |-> -1, m |-> m, mlen |-> Absent, checked |-> FALSE, overrun |-> FALSE]
      BY <2>0, WayRefused, Zenon DEF Refusal
    <3>2. r.checked = FALSE
      BY <3>1, SMT
    <3> QED
      BY <1>4, <3>2, Zenon
  <2>2. ~Accepted(sm, pk, place)
    <3> SUFFICES ASSUME Accepted(sm, pk, place) PROVE FALSE
      BY Zenon
    <3> DEFINE over == Len(m) < Len(sm)
    <3>1. r = [ret |-> 0, m |-> Moved(copied, text), mlen |-> Len(sm) - 2,
               checked |-> TRUE, overrun |-> over]
      BY <2>0, <2>1, WayAccepted, Zenon
    <3>2. r.ret = 0
      BY <3>1, SMT
    <3> QED
      BY <1>4, <3>2, Zenon
  <2>3. r = [ret |-> -1, m |-> Cleared(copied, text), mlen |-> 0, checked |-> TRUE,
             overrun |-> Len(m) < Len(sm)]
    BY <2>0, <2>1, <2>2, WayFailed, Zenon
  <2>4. r.mlen = 0 /\ r.m = Cleared(copied, text)
    BY <2>3, SMT
  <2>5. Len(text) = Len(sm) - 2 /\ Len(text) \in Nat
    BY <1>1, <2>1, ReceivedText
  <2>6. DOMAIN copied = 1 .. Len(sm)
    BY <1>1 DEF Copied
  <2> HIDE DEF copied, text
  <2>7. \A i \in 1 .. Len(sm) - 2 : Cleared(copied, text)[i] = Zero
    BY <1>1, <2>5, <2>6 DEF Cleared
  <2> QED
    BY <2>4, <2>7, Zenon DEF LeavesZeroes
<1> QED
  BY <1>3, <1>4, Zenon

(* A context opening that fails leaves m, and one that verifies writes past its
   own buffer. *)
LEMMA CtxLeaves ==
  ASSUME SignedAreMade, NEW sm \in Received, NEW pk, NEW ctx,
         NEW o, IsCtxOpening(o, sm, pk, ctx)
  PROVE  (o.ret = -1 => o.m = Buffer(Len(sm))) /\ (o.overrun <=> o.checked)
<1>0. PICK allocated : o = CtxOpen(Buffer(Len(sm)), sm, pk, ctx, allocated)
  BY Zenon DEF IsCtxOpening
<1> DEFINE m == Buffer(Len(sm))
           part == Len(sm) - 2
           b == Buffer(part)
           inner == SignOpen(b, sm, pk, "apart")
           refused == ctx \in LongContexts \/ part < 2 \/ ~allocated
           differs == inner.ret # 0 \/ SubSeq(inner.m, 1, 2) # CtxHash(ctx)
           rejected == [inner EXCEPT !.ret = -1, !.m = m, !.mlen = Absent]
           moved == [i \in DOMAIN m |-> IF i + 2 <= part THEN inner.m[i + 2] ELSE m[i]]
           opened == [inner EXCEPT !.m = moved, !.mlen = part - 2]
<1>1. o = IF refused THEN Refusal(m) ELSE IF differs THEN rejected ELSE opened
  BY <1>0, Zenon DEF CtxOpen
<1> SUFFICES (o.ret = -1 => o.m = m) /\ (o.overrun <=> o.checked)
  BY Zenon DEF m
<1> HIDE DEF m
<1>2. DOMAIN inner = Fields
  BY SignOpenFields, Zenon
<1>3. CASE refused
  <2>1. o = Refusal(m)
    <3> HIDE DEF refused, differs, rejected, opened
    <3> QED
      BY <1>1, <1>3, Zenon
  <2>2. o = [ret |-> -1, m |-> m, mlen |-> Absent, checked |-> FALSE, overrun |-> FALSE]
    BY <2>1, Zenon DEF Refusal
  <2>3. o.m = m /\ o.checked = FALSE /\ o.overrun = FALSE
    BY <2>2, SMT
  <2> QED
    BY <2>3, Zenon
<1>4. CASE ~refused
  <2>1. Len(b) < Len(sm)
    <3>1. Len(sm) \in Nat /\ ~(part < 2)
      BY <1>4, ReceivedDomain
    <3>2. part \in Nat /\ part < Len(sm)
      BY <3>1
    <3>3. Len(b) = part
      BY <3>2, BufferLength, Zenon
    <3> QED
      BY <3>2, <3>3, Zenon
  <2>2. inner.overrun <=> inner.checked
    BY <2>1, InnerOverrun, Zenon
  <2>3. /\ rejected.m = m /\ rejected.checked = inner.checked
        /\ rejected.overrun = inner.overrun
        /\ opened.ret = inner.ret /\ opened.checked = inner.checked
        /\ opened.overrun = inner.overrun
    <3> HIDE DEF inner, moved, part
    <3> QED
      BY <1>2 DEF Fields
  <2>4. 0 # -1
    OBVIOUS
  <2>5. ~differs => inner.ret = 0
    OBVIOUS
  <2> HIDE DEF refused, differs, rejected, opened, inner
  <2>6. CASE differs
    <3>1. o = rejected
      BY <1>1, <1>4, <2>6, Zenon
    <3> QED
      BY <2>2, <2>3, <3>1, Zenon
  <2>7. CASE ~differs
    <3>1. o = opened
      BY <1>1, <1>4, <2>7, Zenon
    <3> QED
      BY <2>2, <2>3, <2>4, <2>5, <2>7, <3>1, Zenon
  <2> QED
    BY <2>6, <2>7
<1> QED
  BY <1>3, <1>4, Zenon

(* A prehash opening that fails leaves m, and one that verifies more than the
   two slots it has room for writes past its own buffer. *)
LEMMA PhLeaves ==
  ASSUME NEW sm, NEW pk, NEW o, IsPhOpening(o, sm, pk)
  PROVE  (o.ret = -1 => o.m = Buffer(Len(sm))) /\ (o.overrun <=> o.checked /\ 2 < Len(sm))
<1> DEFINE m == Buffer(Len(sm))
           b == Buffer(2)
           inner == SignOpen(b, sm, pk, "apart")
           differs == inner.ret # 0 \/ inner.mlen # 2
           rejected == [inner EXCEPT !.ret = -1, !.m = m, !.mlen = Absent]
           moved == [i \in DOMAIN m |-> IF i <= 2 THEN inner.m[i] ELSE m[i]]
           opened == [inner EXCEPT !.m = moved]
<1>1. o = IF differs THEN rejected ELSE opened
  BY Zenon DEF PhOpen, IsPhOpening
<1> SUFFICES (o.ret = -1 => o.m = m) /\ (o.overrun <=> o.checked /\ 2 < Len(sm))
  BY Zenon DEF m
<1> HIDE DEF m
<1>2. DOMAIN inner = Fields
  BY SignOpenFields, Zenon
<1>3. Len(b) = 2
  BY BufferLength
<1>4. inner.overrun <=> inner.checked /\ 2 < Len(sm)
  <2>1. inner.overrun <=> inner.checked /\ Len(b) < Len(sm)
    BY InnerOverrun, Zenon
  <2> QED
    BY <1>3, <2>1, Zenon
<1>5. /\ rejected.m = m /\ rejected.checked = inner.checked
      /\ rejected.overrun = inner.overrun
      /\ opened.ret = inner.ret /\ opened.checked = inner.checked
      /\ opened.overrun = inner.overrun
  <2> HIDE DEF inner, moved
  <2> QED
    BY <1>2 DEF Fields
<1>6. 0 # -1
  OBVIOUS
<1>7. ~differs => inner.ret = 0
  OBVIOUS
<1> HIDE DEF differs, rejected, opened, inner
<1>8. CASE differs
  <2>1. o = rejected
    BY <1>1, <1>8, Zenon
  <2> QED
    BY <1>4, <1>5, <2>1, Zenon
<1>9. CASE ~differs
  <2>1. o = opened
    BY <1>1, <1>9, Zenon
  <2> QED
    BY <1>4, <1>5, <1>6, <1>7, <1>9, <2>1, Zenon
<1> QED
  BY <1>8, <1>9, Zenon

(* What each opening leaves, had it returned. *)
LEMMA OpeningLeaves ==
  ASSUME SignedAreMade, NEW o, o.variant \in Variants, o.sm \in Received,
         NEW left \in Openings(o)
  PROVE  /\ o.variant = "plain" =>
                /\ ~left.overrun
                /\ left.checked /\ left.ret # 0 =>
                       left.mlen = 0 /\ \A i \in 1 .. Len(o.sm) - 2 : left.m[i] = Zero
         /\ o.variant # "plain" /\ left.ret = -1 => left.m = Buffer(Len(o.sm))
         /\ o.variant = "ctx" => (left.overrun <=> left.checked)
         /\ o.variant = "ph" => (left.overrun <=> left.checked /\ 2 < Len(o.sm))
<1>1. CASE o.variant = "plain"
  <2>1. IsPlainOpening(left, o.sm, o.pk, o.place)
    BY <1>1, Zenon DEF Openings, IsPlainOpening
  <2>2. ~left.overrun /\ (left.checked /\ left.ret # 0 => LeavesZeroes(left, Len(o.sm) - 2))
    BY <2>1, PlainLeaves, Zenon
  <2>3. o.variant # "ctx" /\ o.variant # "ph"
    BY <1>1
  <2> QED
    BY <1>1, <2>2, <2>3, Zenon DEF LeavesZeroes
<1>2. CASE o.variant = "ctx"
  <2>1. o.variant # "plain" /\ o.variant # "ph"
    BY <1>2
  <2>2. IsCtxOpening(left, o.sm, o.pk, o.ctx)
    BY <1>2, <2>1, Zenon DEF Openings, IsCtxOpening
  <2>3. (left.ret = -1 => left.m = Buffer(Len(o.sm))) /\ (left.overrun <=> left.checked)
    BY <2>2, CtxLeaves, Zenon
  <2> QED
    BY <2>1, <2>3, Zenon
<1>3. CASE o.variant = "ph"
  <2>1. o.variant # "plain" /\ o.variant # "ctx"
    BY <1>3
  <2>2. IsPhOpening(left, o.sm, o.pk)
    BY <2>1, Zenon DEF Openings, IsPhOpening
  <2>3. /\ left.ret = -1 => left.m = Buffer(Len(o.sm))
        /\ left.overrun <=> left.checked /\ 2 < Len(o.sm)
    BY <2>2, PhLeaves, Zenon
  <2> QED
    BY <2>1, <2>3, Zenon
<1> QED
  BY <1>1, <1>2, <1>3 DEF Variants

(* A plain opening that fails has zeroed the bytes of the message, and none writes
   past m; a variant that fails leaves m alone. *)
THEOREM WhatOpeningsLeave == SignatureSpec => []WhatSignOpenLeaves
<1>1. ASSUME SignInv PROVE WhatSignOpenLeaves
  <2> SUFFICES ASSUME sign_opened # Absent
               PROVE  /\ sign_opened.variant = "plain" =>
                             /\ ~sign_opened.left.overrun
                             /\ sign_opened.left.checked /\ sign_opened.left.ret # 0 =>
                                    /\ sign_opened.left.mlen = 0
                                    /\ \A i \in 1 .. Len(sign_opened.sm) - 2 :
                                           sign_opened.left.m[i] = Zero
                      /\ sign_opened.variant # "plain" /\ sign_opened.left.ret = -1 =>
                             sign_opened.left.m = Buffer(Len(sign_opened.sm))
    BY Zenon DEF WhatSignOpenLeaves
  <2> DEFINE o == sign_opened
             n == Len(o.sm)
  <2>1. SignedAreMade /\ o.variant \in Variants /\ o.sm \in Received
    BY <1>1, Zenon DEF SignInv, SignOpeningInv
  <2>2. PICK left \in Openings(o) :
            o.left = left \/ (left.overrun /\ o.left = [left EXCEPT !.ret = Absent])
    BY <1>1, Zenon DEF SignInv, SignOpeningInv
  <2>3. /\ o.variant = "plain" =>
                /\ ~left.overrun
                /\ left.checked /\ left.ret # 0 =>
                       left.mlen = 0 /\ \A i \in 1 .. n - 2 : left.m[i] = Zero
        /\ o.variant # "plain" /\ left.ret = -1 => left.m = Buffer(n)
    BY <2>1, <2>2, OpeningLeaves, Zenon
  <2>5. CASE o.left = left
    BY <2>3, <2>5, Zenon
  <2>6. CASE left.overrun /\ o.left = [left EXCEPT !.ret = Absent]
    <3> DEFINE gone == [left EXCEPT !.ret = Absent]
    <3>1. DOMAIN left = Fields
      BY <2>2, OpeningFields
    <3>2. gone.ret = Absent /\ gone.checked = left.checked /\ gone.overrun = left.overrun
      BY <3>1 DEF Fields
    <3>3. Absent # -1
      BY SignatureAssumption
    <3> HIDE DEF gone
    <3>4. o.left = gone
      BY <2>6 DEF gone
    <3> QED
      BY <2>3, <2>6, <3>2, <3>3, <3>4, Zenon
  <2> QED
    BY <2>2, <2>5, <2>6, Zenon
<1> QED
  BY <1>1, SignInvariant, PTL

(* The slots of a signed message: two, and its content. *)
LEMMA SignedLength ==
  ASSUME NEW s, SignMade(s)
  PROVE  Len(s.sm) = Len(Content(s.variant, s.ctx, s.msg)) + 2
<1>1. \E X : Supplied(s) \in Seq(X)
  BY ContentType DEF SignMade, Supplied
<1>2. PICK X : Supplied(s) \in Seq(X)
  BY <1>1
<1> DEFINE c == Supplied(s)
           R == Commitment(s.sk.seed, c)
           S == Response(s.sk.seed, c, Hram(R, s.sk.pk, c))
<1>3. s.sm = <<R, S>> \o c
  BY Zenon DEF SignMade, SignedMessage
<1> HIDE DEF c, R, S
<1>4. c \in Seq(X)
  BY <1>2, Zenon DEF c
<1>5. Len(s.sm) = Len(c) + 2
  BY <1>3, <1>4, Front
<1> QED
  BY <1>5 DEF c, Supplied

(* What an opening leaves is a return, or none. *)
Returned(left) == left.ret \in {0, -1} /\ "ret" \in DOMAIN left

LEMMA SignOpenReturns ==
  ASSUME NEW m, NEW sm, NEW pk, NEW place
  PROVE  Returned(SignOpen(m, sm, pk, place))
BY DEF SignOpen, Refusal, Returned

LEMMA CtxOpenReturns ==
  ASSUME NEW m, NEW sm, NEW pk, NEW ctx, NEW allocated
  PROVE  Returned(CtxOpen(m, sm, pk, ctx, allocated))
<1> DEFINE inner == SignOpen(Buffer(Len(sm) - 2), sm, pk, "apart")
<1>1. Returned(inner)
  BY SignOpenReturns
<1> HIDE DEF inner
<1> QED
  BY <1>1 DEF CtxOpen, Refusal, inner, Returned

LEMMA PhOpenReturns ==
  ASSUME NEW m, NEW sm, NEW pk
  PROVE  Returned(PhOpen(m, sm, pk))
<1> DEFINE inner == SignOpen(Buffer(2), sm, pk, "apart")
<1>1. Returned(inner)
  BY SignOpenReturns
<1> HIDE DEF inner
<1> QED
  BY <1>1 DEF PhOpen, Refusal, inner, Returned

LEMMA OpenReturns ==
  ASSUME NEW o, NEW left \in Openings(o)
  PROVE  Returned(left)
BY SignOpenReturns, CtxOpenReturns, PhOpenReturns, Zenon DEF Openings

(* The types of the signatures' state. *)
THEOREM SignatureTypes == SignatureSpec => []SignatureTypeOK
<1> DEFINE KeyTypes == /\ sign_sk # Absent => sign_sk.seed \in 1 .. sign_keypairs
                       /\ sign_keypairs \in Nat /\ sign_torn \in BOOLEAN
<1>1. SignatureInit => KeyTypes
  <2>1. sign_torn = FALSE => sign_torn \in BOOLEAN
    BY Zenon
  <2> QED
    BY <2>1 DEF SignatureInit
<1>2. SignInv /\ KeyTypes /\ [SignatureNext]_signatureVars => KeyTypes'
  <2> SUFFICES ASSUME SignInv, KeyTypes, [SignatureNext]_signatureVars PROVE KeyTypes'
    OBVIOUS
  <2>1. CASE SignKeypairSucceeds
    <3>1. sign_sk'.seed = sign_keypairs + 1 /\ sign_keypairs' = sign_keypairs + 1
          /\ sign_torn' = FALSE
      BY <2>1 DEF SignKeypairSucceeds, SignKeypair, Seed
    <3>2. sign_torn' \in BOOLEAN
      BY <3>1, Zenon
    <3> QED
      BY <3>1, <3>2
  <2>2. CASE SignKeypairFails
    <3>1. sign_sk # Absent /\ sign_sk' = [sign_sk EXCEPT !.seed = Seed] /\ sign_torn' = TRUE
          /\ sign_keypairs' = sign_keypairs + 1
      BY <2>2, Zenon DEF SignKeypairFails, SignKeypair
    <3>2. sign_sk = [seed |-> sign_sk.seed, pk |-> sign_sk.pk]
      BY <3>1, Zenon DEF SignInv, KeyInv, IsSecretKey
    <3>3. sign_sk'.seed = sign_keypairs + 1
      BY <3>1, <3>2 DEF Seed
    <3> QED
      BY <3>1, <3>3
  <2>3. CASE UNCHANGED <<sign_sk, sign_keypairs, sign_torn>>
    BY <2>3
  <2>4. \/ SignKeypairSucceeds \/ SignKeypairFails
        \/ UNCHANGED <<sign_sk, sign_keypairs, sign_torn>>
    <3> DEFINE Kept == UNCHANGED <<sign_sk, sign_keypairs, sign_torn>>
    <3>1. \A variant, ctx, msg : Sign(variant, ctx, msg) => Kept
      BY DEF Sign
    <3>2. \A variant, ctx, sm, pk, place, left : Opens(variant, ctx, sm, pk, place, left) => Kept
      BY DEF Opens
    <3>3. ForgetOpened => Kept
      BY DEF ForgetOpened
    <3>4. UNCHANGED signatureVars => Kept
      BY DEF signatureVars
    <3> QED
      BY <3>1, <3>2, <3>3, <3>4, Zenon
         DEF SignatureNext, SignatureCall, OpenPlain, OpenCtx, OpenPh
  <2> QED
    BY <2>1, <2>2, <2>3, <2>4
<1>3. SignInv /\ KeyTypes => SignatureTypeOK
  <2> SUFFICES ASSUME SignInv, KeyTypes PROVE SignatureTypeOK
    OBVIOUS
  <2>1. \A s \in signed : Len(s.sm) = Len(Content(s.variant, s.ctx, s.msg)) + 2
    BY SignedLength, Zenon DEF SignInv, SignedAreMade
  <2>2. ASSUME sign_opened # Absent PROVE sign_opened.left.ret \in {0, -1, Absent}
    <3>1. PICK left \in Openings(sign_opened) :
               \/ sign_opened.left = left
               \/ left.overrun /\ sign_opened.left = [left EXCEPT !.ret = Absent]
      BY <2>2, Zenon DEF SignInv, SignOpeningInv
    <3>2. left.ret \in {0, -1} /\ "ret" \in DOMAIN left
      BY OpenReturns, Zenon DEF Returned
    <3>3. CASE sign_opened.left = left
      BY <3>2, <3>3
    <3>4. CASE sign_opened.left = [left EXCEPT !.ret = Absent]
      BY <3>2, <3>4
    <3> QED
      BY <3>1, <3>3, <3>4
  <2> QED
    BY <2>1, <2>2 DEF SignatureTypeOK
<1> HIDE DEF KeyTypes
<1> QED
  BY SignInvariant, <1>1, <1>2, <1>3, PTL DEF SignatureSpec

-----------------------------------------------------------------------------
(* Hashing *)

\* What the chain over n blocks of m is, as a function of the blocks.
IsChain(h, n, m, h0, added) ==
    h = [i \in 0 .. n |->
            IF i = 0 THEN h0
            ELSE Compress(added, h[i - 1], SubSeq(m, (i - 1) * Block + 1, i * Block))]

(* There is a function that the equations of the block loop define. *)
LEMMA ChainExists ==
  ASSUME NEW n \in Nat, NEW m, NEW h0, NEW added
  PROVE  \E h : IsChain(h, n, m, h0, added)
<1> DEFINE Next(i, h) ==
        IF i = 0 THEN h0
        ELSE Compress(added, h, SubSeq(m, (i - 1) * Block + 1, i * Block))
           Done == {k \in Nat : \E h : IsChain(h, k, m, h0, added)}
<1>1. 0 \in Done
  <2> DEFINE b == [i \in 0 .. 0 |-> h0]
  <2>1. IsChain(b, 0, m, h0, added)
    BY DEF IsChain
  <2> QED
    BY <2>1
<1>2. ASSUME NEW k \in Nat, k \in Done PROVE k + 1 \in Done
  <2>1. PICK b : IsChain(b, k, m, h0, added)
    BY <1>2
  <2> DEFINE c == [i \in 0 .. k + 1 |-> IF i <= k THEN b[i] ELSE Next(k + 1, b[k])]
  <2>2. b = [i \in 0 .. k |-> Next(i, b[i - 1])]
    BY <2>1, Zenon DEF IsChain
  <2>3. ASSUME NEW i \in 0 .. k + 1
        PROVE  c[i] = Next(i, c[i - 1])
    <3> HIDE DEF Next
    <3>1. CASE i <= k /\ i # 0
      <4>1. c[i] = b[i] /\ c[i - 1] = b[i - 1]
        BY <3>1
      <4> HIDE DEF c
      <4> QED
        BY <2>2, <3>1, <4>1
    <3>2. CASE i = 0
      <4>1. c[i] = b[i]
        BY <3>2
      <4>2. b[i] = Next(0, b[i - 1])
        BY <2>2, <3>2
      <4>3. \A x, y : Next(0, x) = Next(0, y)
        BY Zenon DEF Next
      <4> QED
        BY <3>2, <4>1, <4>2, <4>3, Zenon
    <3>3. CASE i = k + 1
      <4>1. c[i] = Next(k + 1, b[k]) /\ c[i - 1] = b[k]
        BY <3>3
      <4> HIDE DEF c
      <4> QED
        BY <3>3, <4>1
    <3> QED
      BY <3>1, <3>2, <3>3
  <2>4. IsChain(c, k + 1, m, h0, added)
    <3> HIDE DEF Next
    <3>1. c = [i \in 0 .. k + 1 |-> Next(i, c[i - 1])]
      BY <2>3, Zenon
    <3> HIDE DEF c
    <3> QED
      BY <3>1, Zenon DEF IsChain, Next
  <2>5. k + 1 \in Nat
    OBVIOUS
  <2> QED
    BY <2>4, <2>5, Zenon
<1> HIDE DEF Done
<1>3. n \in Done
  BY <1>1, <1>2, UpTo
<1> QED
  BY <1>3 DEF Done

\* The steps of the block loop.
Chained(h, n, m, h0, added) ==
    /\ h[0] = h0
    /\ \A i \in 1 .. n :
           h[i] = Compress(added, h[i - 1], SubSeq(m, (i - 1) * Block + 1, i * Block))

LEMMA BlocksAre ==
  ASSUME NEW m, NEW h0, NEW added, NEW n \in Nat, Len(m) \div Block = n
  PROVE  \E h : Blocks(m, h0, added) = h[n] /\ Chained(h, n, m, h0, added)
<1> DEFINE h == CHOOSE g : IsChain(g, Len(m) \div Block, m, h0, added)
<1>1. Blocks(m, h0, added) = h[Len(m) \div Block]
  BY Zenon DEF Blocks, IsChain
<1>2. IsChain(h, n, m, h0, added)
  BY ChainExists, Zenon
<1> HIDE DEF h
<1>3. Blocks(m, h0, added) = h[n]
  BY <1>1, Zenon
<1>4. h[0] = h0
  BY <1>2 DEF IsChain
<1>5. \A i \in 1 .. n :
         h[i] = Compress(added, h[i - 1], SubSeq(m, (i - 1) * Block + 1, i * Block))
  BY <1>2 DEF IsChain
<1> QED
  BY <1>3, <1>4, <1>5, Zenon DEF Chained

\* s is the first qa blocks of a, then the qp blocks of p.
Splits(s, a, qa, p, qp) ==
    /\ \A i \in 1 .. qa * Block : s[i] = a[i]
    /\ \A i \in 1 .. qp * Block : s[qa * Block + i] = p[i]

(* Chaining the blocks of a, then those of p from the value reached, is chaining
   those of s, when s is the blocks of a followed by those of p. *)
LEMMA ChainsJoin ==
  ASSUME NEW a, NEW p, NEW s, NEW h0, NEW added, NEW qa \in Nat, NEW qp \in Nat,
         Len(a) \div Block = qa, Len(p) \div Block = qp, Len(s) \div Block = qa + qp,
         Splits(s, a, qa, p, qp)
  PROVE  Blocks(p, Blocks(a, h0, added), added) = Blocks(s, h0, added)
<1>1. Block \in Nat /\ Block > 0
  BY HashAssumption
<1>2. PICK ha : Blocks(a, h0, added) = ha[qa] /\ Chained(ha, qa, a, h0, added)
  BY BlocksAre, Zenon
<1>3. PICK hp : Blocks(p, ha[qa], added) = hp[qp] /\ Chained(hp, qp, p, ha[qa], added)
  BY BlocksAre, Zenon
<1>4. qa + qp \in Nat
  OBVIOUS
<1>5. PICK hs : Blocks(s, h0, added) = hs[qa + qp] /\ Chained(hs, qa + qp, s, h0, added)
  BY <1>4, BlocksAre, Zenon
<1>6. ha[qa] = hs[qa]
  <2> DEFINE S == {k \in 0 .. qa : hs[k] = ha[k]}
  <2>1. 0 \in S
    BY <1>2, <1>5 DEF Chained
  <2>2. \A k \in 0 .. qa - 1 : k \in S => k + 1 \in S
    <3> SUFFICES ASSUME NEW k \in 0 .. qa - 1, hs[k] = ha[k]
                 PROVE  k + 1 \in 0 .. qa /\ hs[k + 1] = ha[k + 1]
      OBVIOUS
    <3> DEFINE i == k + 1
               x == k * Block + 1
               y == i * Block
    <3>1. i \in 1 .. qa /\ i \in 1 .. qa + qp /\ i - 1 = k
      OBVIOUS
    <3>2. x \in Nat /\ y \in Nat /\ x >= 1 /\ y <= qa * Block
      BY <1>1
    <3>3. ha[i] = Compress(added, ha[k], SubSeq(a, x, y))
      BY <1>2, <3>1, Zenon DEF Chained
    <3>4. hs[i] = Compress(added, hs[k], SubSeq(s, x, y))
      BY <1>5, <3>1, Zenon DEF Chained
    <3> HIDE DEF i, x, y
    <3>5. SubSeq(s, x, y) = SubSeq(a, x, y)
      <4>1. /\ SubSeq(s, x, y) = [l \in 1 .. (1 + y - x) |-> s[l + x - 1]]
            /\ SubSeq(a, x, y) = [l \in 1 .. (1 + y - x) |-> a[l + x - 1]]
        BY <3>2
      <4>2. \A l \in 1 .. (1 + y - x) : s[l + x - 1] = a[l + x - 1]
        <5> SUFFICES ASSUME NEW l \in 1 .. (1 + y - x) PROVE s[l + x - 1] = a[l + x - 1]
          OBVIOUS
        <5>1. l + x - 1 \in 1 .. qa * Block
          BY <1>1, <3>2
        <5> QED
          BY <5>1 DEF Splits
      <4> QED
        BY <4>1, <4>2
    <3>6. hs[i] = ha[i]
      BY <3>3, <3>4, <3>5, Zenon
    <3> QED
      BY <3>1, <3>6 DEF i
  <2>3. \A k \in 0 .. qa : k \in S
    <3> HIDE DEF S
    <3> QED
      BY <2>1, <2>2, UpTo, Zenon
  <2> QED
    BY <2>3
<1>7. hp[qp] = hs[qa + qp]
  <2> DEFINE S == {k \in 0 .. qp : hs[qa + k] = hp[k]}
  <2>1. 0 \in S
    BY <1>3, <1>6 DEF Chained
  <2>2. \A k \in 0 .. qp - 1 : k \in S => k + 1 \in S
    <3> SUFFICES ASSUME NEW k \in 0 .. qp - 1, hs[qa + k] = hp[k]
                 PROVE  k + 1 \in 0 .. qp /\ hs[qa + (k + 1)] = hp[k + 1]
      OBVIOUS
    <3> DEFINE i == k + 1
               l == qa + i
               z == qa * Block
               x == k * Block + 1
               y == i * Block
    <3>1. /\ i \in 1 .. qp /\ i - 1 = k
          /\ l \in 1 .. qa + qp /\ l - 1 = qa + k
      OBVIOUS
    <3>2. /\ z \in Nat /\ x \in Nat /\ y \in Nat /\ x >= 1 /\ y <= qp * Block
          /\ (qa + k) * Block + 1 = z + x /\ l * Block = z + y
      BY <1>1
    <3> HIDE DEF x, y, z
    <3>3. SubSeq(s, z + x, z + y) = SubSeq(p, x, y)
      <4>1. /\ SubSeq(s, z + x, z + y) = [j \in 1 .. (1 + y - x) |-> s[z + (j + x - 1)]]
            /\ SubSeq(p, x, y) = [j \in 1 .. (1 + y - x) |-> p[j + x - 1]]
        BY <3>2
      <4>2. \A j \in 1 .. (1 + y - x) : s[z + (j + x - 1)] = p[j + x - 1]
        <5> SUFFICES ASSUME NEW j \in 1 .. (1 + y - x)
                     PROVE  s[z + (j + x - 1)] = p[j + x - 1]
          OBVIOUS
        <5>1. j + x - 1 \in 1 .. qp * Block
          BY <1>1, <3>2
        <5> QED
          BY <5>1 DEF z, Splits
      <4> QED
        BY <4>1, <4>2
    <3>4. hp[i] = Compress(added, hp[k], SubSeq(p, x, y))
      BY <1>3, <3>1, Zenon DEF Chained, x, y
    <3>5. hs[l] = Compress(added, hs[qa + k], SubSeq(s, z + x, z + y))
      BY <1>5, <3>1, <3>2, Zenon DEF Chained
    <3>6. hs[l] = hp[i]
      BY <3>3, <3>4, <3>5, Zenon
    <3> QED
      BY <3>1, <3>6 DEF i, l
  <2>3. \A k \in 0 .. qp : k \in S
    <3> HIDE DEF S
    <3> QED
      BY <2>1, <2>2, UpTo, Zenon
  <2> QED
    BY <2>3
<1> QED
  BY <1>2, <1>3, <1>5, <1>7

\* The whole blocks, the rest and the zeros of a message of n bytes.
ZerosFit(n, zeros) ==
    /\ n \div Block \in Nat
    /\ n % Block \in 0 .. Block - 1
    /\ n = (n \div Block) * Block + (n % Block)
    /\ zeros \in Nat
    /\ (n % Block) + 1 + zeros + LengthField = PaddedBlocks(n % Block) * Block

(* The zeros of the standard are those of a buffer of one block or two. *)
LEMMA ZerosAre ==
  ASSUME NEW n \in Nat,
         NEW zeros, zeros = CHOOSE k \in 0 .. Block - 1 :
                                (n + 1 + k + LengthField) % Block = 0
  PROVE  ZerosFit(n, zeros)
<1> DEFINE q == n \div Block
           r == n % Block
           size == PaddedBlocks(r) * Block
           k0 == size - r - 1 - LengthField
<1>1. /\ Block \in Nat \ {0} /\ LengthField \in Nat /\ LengthField > 0
      /\ LengthField < Block
  BY HashAssumption
<1>2. q \in Nat /\ r \in 0 .. Block - 1 /\ n = q * Block + r
  BY <1>1
<1> HIDE DEF q, r
<1>3. PaddedBlocks(r) \in {1, 2}
  BY DEF PaddedBlocks
<1>4. k0 \in 0 .. Block - 1
  <2>1. CASE r < Block - LengthField
    BY <1>1, <1>2, <2>1 DEF PaddedBlocks
  <2>2. CASE ~(r < Block - LengthField)
    <3>1. size = 2 * Block
      BY <2>2 DEF PaddedBlocks
    <3> HIDE DEF size
    <3> QED
      BY <1>1, <1>2, <2>2, <3>1
  <2> QED
    BY <2>1, <2>2
<1>5. ASSUME NEW k \in 0 .. Block - 1
      PROVE  (n + 1 + k + LengthField) % Block = 0 <=> k = k0
  <2> DEFINE w == n + 1 + k + LengthField
             b == PaddedBlocks(r)
             t == w \div Block
             u == w % Block
  <2>1. w \in Nat /\ t \in Nat /\ u \in 0 .. Block - 1 /\ w = Block * t + u
    BY <1>1
  <2>2. w = Block * (q + b) + (k - k0)
    <3>1. Block * (q + b) = Block * q + Block * b
      BY <1>1, <1>2, <1>3, Distribute
    <3>2. Block * b = size /\ Block * q = q * Block
      BY <1>1, <1>2, <1>3
    <3>3. size \in Nat /\ Block * q \in Nat
      BY <1>1, <1>2, <1>3
    <3> HIDE DEF b, size
    <3> QED
      BY <1>1, <1>2, <3>1, <3>2, <3>3
  <2> HIDE DEF w, t, u, k0
  <2> DEFINE c == q + b
             d == k - k0
  <2>3. c \in Nat /\ c > 0
    BY <1>2, <1>3
  <2>4. w = Block * c + d
    BY <2>2
  <2> HIDE DEF b, c, d
  <2>5. d \in 1 - Block .. Block - 1 /\ (d = 0 <=> k = k0)
    BY <1>1, <1>4 DEF d
  <2>6. CASE d >= 0
    <3>1. d \in 0 .. Block - 1 /\ Block * t + u = Block * c + d
      BY <1>1, <2>1, <2>4, <2>5, <2>6
    <3>2. u = d
      <4>1. Block \in Nat \ {0} /\ t \in Int /\ c \in Int /\ u \in 0 .. Block - 1
        BY <1>1, <2>1, <2>3
      <4> QED
        BY <3>1, <4>1, DivModUnique
    <3> QED
      BY <2>5, <3>2 DEF u, w
  <2>7. CASE d < 0
    <3> DEFINE e == Block + d
               f == c - 1
    <3>1. e \in 1 .. Block - 1 /\ f \in Nat /\ c = f + 1
      BY <1>1, <2>3, <2>5, <2>7
    <3>2. Block * c = Block * f + Block
      <4>1. Block * (f + 1) = Block * f + Block * 1
        <5>1. Block \in Int /\ f \in Int /\ 1 \in Int
          BY <1>1, <3>1
        <5> QED
          BY <5>1, Distribute, Zenon
      <4> QED
        BY <1>1, <3>1, <4>1
    <3>3. Block * f \in Int /\ Block * c \in Int
      BY <1>1, <2>3, <3>1
    <3>4. Block * t + u = Block * f + e
      BY <1>1, <2>1, <2>4, <2>5, <3>2, <3>3
    <3> HIDE DEF e, f
    <3>5. u = e
      <4>1. /\ Block \in Nat \ {0} /\ t \in Int /\ f \in Int /\ u \in 0 .. Block - 1
            /\ e \in 0 .. Block - 1
        BY <1>1, <2>1, <3>1
      <4> QED
        BY <3>4, <4>1, DivModUnique
    <3> QED
      BY <2>5, <2>7, <3>1, <3>5 DEF u, w
  <2> QED
    BY <2>5, <2>6, <2>7
<1> HIDE DEF k0
<1>6. zeros = k0
  <2>1. \E k \in 0 .. Block - 1 : (n + 1 + k + LengthField) % Block = 0
    BY <1>4, <1>5
  <2>2. zeros \in 0 .. Block - 1 /\ (n + 1 + zeros + LengthField) % Block = 0
    BY <2>1, Zenon
  <2> QED
    BY <1>5, <2>2, Zenon
<1>7. size \in Nat
  BY <1>1, <1>3
<1> HIDE DEF size
<1>8. r + 1 + zeros + LengthField = size
  <2>1. \A x \in Nat : r + 1 + (x - r - 1 - LengthField) + LengthField = x
    BY <1>1, <1>2
  <2> QED
    BY <1>6, <1>7, <2>1, Zenon DEF k0
<1>9. zeros \in Nat
  <2>1. k0 \in Nat
    BY <1>1, <1>4
  <2> QED
    BY <1>6, <2>1, Zenon
<1> QED
  BY <1>2, <1>8, <1>9, Zenon DEF size, q, r, ZerosFit

\* u is s followed by t, of k and l elements.
Joins(u, E, s, k, t, l) ==
    /\ u \in Seq(E) /\ Len(u) = k + l
    /\ \A i \in 1 .. k : u[i] = s[i]
    /\ \A i \in 1 .. l : u[k + i] = t[i]

LEMMA ConcatIs ==
  ASSUME NEW E, NEW s \in Seq(E), NEW t \in Seq(E), NEW k \in Nat, NEW l \in Nat,
         Len(s) = k, Len(t) = l
  PROVE  Joins(s \o t, E, s, k, t, l)
BY DEF Joins

\* s is the standard's padded message.
IsStandardMessage(s, m, zeros) ==
    s = m \o <<<<"128">>>> \o [i \in 1 .. zeros + LengthField - 1 |-> <<"0">>]
          \o <<LengthOf(m)>>

(* The standard's padded message: the whole blocks of m, then the buffer. *)
LEMMA PaddedMessageIs ==
  ASSUME NEW m \in Seq(HashBytes), NEW zeros, ZerosFit(Len(m), zeros),
         NEW s, IsStandardMessage(s, m, zeros)
  PROVE  /\ Len(s) = (Len(m) \div Block) * Block + PaddedBlocks(Len(m) % Block) * Block
         /\ Len(Padded(m)) = PaddedBlocks(Len(m) % Block) * Block
         /\ Splits(s, m, Len(m) \div Block, Padded(m), PaddedBlocks(Len(m) % Block))
<1> DEFINE q == Len(m) \div Block
           r == Len(m) % Block
           size == PaddedBlocks(r) * Block
           whole == q * Block
           n == Len(m)
           k == zeros + LengthField - 1
           length == LengthOf(m)
           fill == [i \in 1 .. k |-> <<"0">>]
           E == HashBytes \union {<<"128">>, <<"0">>, length}
           buffer == [i \in 1 .. size |->
                        CASE i <= r     -> m[n - r + i]
                          [] i = r + 1  -> <<"128">>
                          [] i = size   -> length
                          [] OTHER      -> <<"0">>]
<1>1. /\ size \in Nat /\ whole \in Nat /\ n \in Nat /\ LengthField \in Nat
      /\ LengthField > 0
  BY HashAssumption DEF PaddedBlocks, ZerosFit
<1>2. Padded(m) = buffer
  BY Zenon DEF Padded
<1>3. /\ n = whole + r /\ r \in Nat /\ k \in Nat /\ size = r + 2 + k
  <2>1. n = whole + r /\ r + 1 + zeros + LengthField = size /\ r \in Nat /\ zeros \in Nat
    BY DEF ZerosFit
  <2> HIDE DEF size, whole, n, r
  <2> QED
    BY <1>1, <2>1
<1>4. m \in Seq(E) /\ Len(m) = n
  OBVIOUS
<1>5. <<"128">> \in E /\ <<"0">> \in E /\ length \in E
  OBVIOUS
<1> HIDE DEF buffer, k, n, E, r, size, whole, length, fill
<1>6. fill \in Seq(E) /\ Len(fill) = k /\ \A i \in 1 .. k : fill[i] = <<"0">>
  <2> DEFINE zero == <<"0">>
  <2>1. k \in Nat /\ zero \in E /\ fill = [i \in 1 .. k |-> zero]
    BY <1>3, <1>5, Zenon DEF fill
  <2> HIDE DEF zero, fill
  <2>2. fill \in Seq(E) /\ Len(fill) = k /\ \A i \in 1 .. k : fill[i] = zero
    BY <2>1
  <2> QED
    BY <2>2, Zenon DEF zero
<1>7. /\ Len(s) = n + k + 2
      /\ \A i \in 1 .. n : s[i] = m[i]
      /\ s[n + 1] = <<"128">>
      /\ \A i \in 1 .. k : s[n + 1 + i] = <<"0">>
      /\ s[n + k + 2] = length
  <2> DEFINE one == <<<<"128">>>>
             a == m \o one
             b == a \o fill
             last == <<length>>
  <2>1. one \in Seq(E) /\ Len(one) = 1 /\ one[1] = <<"128">>
    BY <1>5
  <2>2. last \in Seq(E) /\ Len(last) = 1 /\ last[1] = length
    BY <1>5
  <2>3. s = b \o last
    BY Zenon DEF IsStandardMessage, fill, k, length
  <2>4. 1 \in Nat /\ n + 1 \in Nat /\ n + 1 + k \in Nat /\ k \in Nat /\ n \in Nat
    BY <1>1, <1>3
  <2> HIDE DEF one, last
  <2>5. Joins(a, E, m, n, one, 1)
    BY <1>4, <2>1, <2>4, ConcatIs, Zenon
  <2>20. a \in Seq(E) /\ Len(a) = n + 1
    BY <2>5, Zenon DEF Joins
  <2> HIDE DEF a
  <2>6. Joins(b, E, a, n + 1, fill, k)
    BY <1>6, <2>4, <2>20, ConcatIs, Zenon
  <2>21. b \in Seq(E) /\ Len(b) = n + 1 + k
    BY <2>6, Zenon DEF Joins
  <2> HIDE DEF b
  <2>7. Joins(s, E, b, n + 1 + k, last, 1)
    BY <2>2, <2>3, <2>4, <2>21, ConcatIs, Zenon
  <2>8. ASSUME NEW i \in 1 .. n PROVE s[i] = m[i]
    <3>1. i \in 1 .. n + 1 /\ i \in 1 .. n + 1 + k
      BY <2>4
    <3> QED
      BY <2>5, <2>6, <2>7, <3>1, Zenon DEF Joins
  <2>9. s[n + 1] = <<"128">>
    <3>1. n + 1 \in 1 .. n + 1 /\ n + 1 \in 1 .. n + 1 + k /\ 1 \in 1 .. 1
      BY <2>4
    <3> QED
      BY <2>1, <2>5, <2>6, <2>7, <3>1, Zenon DEF Joins
  <2>10. ASSUME NEW i \in 1 .. k PROVE s[n + 1 + i] = <<"0">>
    <3>1. n + 1 + i \in 1 .. n + 1 + k
      BY <2>4
    <3> QED
      BY <1>6, <2>6, <2>7, <3>1, Zenon DEF Joins
  <2>11. s[n + k + 2] = length
    <3>1. 1 \in 1 .. 1 /\ n + 1 + k + 1 = n + k + 2
      BY <2>4
    <3> QED
      BY <2>2, <2>7, <3>1, Zenon DEF Joins
  <2>12. Len(s) = n + k + 2
    <3>1. Len(s) = n + 1 + k + 1
      BY <2>7, Zenon DEF Joins
    <3> QED
      BY <2>4, <3>1
  <2> QED
    BY <2>8, <2>9, <2>10, <2>11, <2>12, Zenon
<1>8. ASSUME NEW i \in 1 .. size
      PROVE  /\ i <= r => buffer[i] = m[n - r + i]
             /\ i = r + 1 => buffer[i] = <<"128">>
             /\ i > r + 1 /\ i # size => buffer[i] = <<"0">>
             /\ i = size => buffer[i] = length
  <2>1. i <= r => i # r + 1 /\ i # size
    BY <1>1, <1>3
  <2>2. i = r + 1 => ~(i <= r) /\ i # size
    BY <1>1, <1>3
  <2>3. i > r + 1 => ~(i <= r) /\ i # r + 1
    BY <1>1, <1>3
  <2>4. i = size => ~(i <= r) /\ i # r + 1
    BY <1>1, <1>3
  <2>5. buffer[i] = CASE i <= r     -> m[n - r + i]
                      [] i = r + 1  -> <<"128">>
                      [] i = size   -> length
                      [] OTHER      -> <<"0">>
    BY Zenon DEF buffer
  <2>6. CASE i <= r
    BY <2>1, <2>3, <2>5, <2>6, Zenon
  <2>7. CASE i = r + 1
    BY <2>2, <2>3, <2>5, <2>7, Zenon
  <2>8. CASE i = size
    BY <2>4, <2>5, <2>8, Zenon
  <2>9. CASE i > r + 1 /\ i # size
    BY <2>3, <2>5, <2>9, Zenon
  <2>10. i <= r \/ i = r + 1 \/ i > r + 1
    BY <1>1, <1>3
  <2> QED
    BY <2>6, <2>7, <2>8, <2>9, <2>10, Zenon
<1>9. Len(buffer) = size
  BY <1>1 DEF buffer
<1>10. ASSUME NEW i \in 1 .. size PROVE s[whole + i] = buffer[i]
  <2>1. CASE i <= r
    <3>1. whole + i \in 1 .. n /\ n - r + i = whole + i
      BY <1>1, <1>3, <2>1
    <3> QED
      BY <1>7, <1>8, <2>1, <3>1, Zenon
  <2>2. CASE i = r + 1
    <3>1. whole + i = n + 1
      BY <1>1, <1>3, <2>2
    <3> QED
      BY <1>7, <1>8, <2>2, <3>1, Zenon
  <2>3. CASE i > r + 1 /\ i # size
    <3> DEFINE j == i - r - 1
    <3>1. j \in 1 .. k /\ whole + i = n + 1 + j
      BY <1>1, <1>3, <2>3
    <3> QED
      BY <1>7, <1>8, <2>3, <3>1, Zenon
  <2>4. CASE i = size
    <3>1. whole + i = n + k + 2
      BY <1>1, <1>3, <2>4
    <3> QED
      BY <1>7, <1>8, <2>4, <3>1, Zenon
  <2> QED
    BY <1>1, <1>3, <2>1, <2>2, <2>3, <2>4
<1>11. ASSUME NEW i \in 1 .. whole PROVE s[i] = m[i]
  <2>1. i \in 1 .. n
    BY <1>1, <1>3
  <2> QED
    BY <1>7, <2>1, Zenon
<1>12. Len(s) = whole + size
  BY <1>1, <1>3, <1>7
<1>13. Len(Padded(m)) = size /\ \A i \in 1 .. size : s[whole + i] = Padded(m)[i]
  BY <1>2, <1>9, <1>10, Zenon
<1> QED
  BY <1>11, <1>12, <1>13, Zenon DEF size, whole, r, Splits

(* A multiple of a block is that many blocks. *)
LEMMA WholeBlocks == ASSUME NEW q \in Nat PROVE (q * Block) \div Block = q
<1> DEFINE w == q * Block
           t == w \div Block
           u == w % Block
<1>1. Block \in Nat \ {0}
  BY HashAssumption
<1>2. w = Block * q + 0 /\ w \in Nat /\ 0 \in 0 .. Block - 1
  BY <1>1
<1> HIDE DEF w
<1>3. t \in Nat /\ u \in 0 .. Block - 1 /\ Block * t + u = Block * q + 0
  BY <1>1, <1>2
<1> HIDE DEF t, u
<1>4. t = q
  BY <1>1, <1>2, <1>3, DivModUnique
<1> QED
  BY <1>4 DEF t, w

(* Hashing the whole blocks in place and the rest in the buffer is what the
   standard says, for a message of any length. *)
LEMMA CryptoHashIsStandard ==
  ASSUME NEW m \in Seq(HashBytes)
  PROVE  crypto_hash(m) = Standard("sha512", m)
<1> DEFINE n == Len(m)
           q == n \div Block
           b == PaddedBlocks(n % Block)
           zeros == CHOOSE k \in 0 .. Block - 1 : (n + 1 + k + LengthField) % Block = 0
           s == m \o <<<<"128">>>> \o [i \in 1 .. zeros + LengthField - 1 |-> <<"0">>]
                  \o <<LengthOf(m)>>
           iv == Iv("sha512")
           added == "chain value"
<1>1. Standard("sha512", m) = Blocks(s, iv, added)
  BY Zenon DEF Standard
<1>2. crypto_hash(m) = Blocks(Padded(m), Blocks(m, iv, added), added)
  BY Zenon DEF crypto_hash
<1>3. n \in Nat
  OBVIOUS
<1>4. ZerosFit(n, zeros)
  BY <1>3, ZerosAre, Zenon
<1> HIDE DEF zeros
<1>5. b \in Nat /\ q \in Nat
  BY <1>4 DEF PaddedBlocks, ZerosFit
<1>11. IsStandardMessage(s, m, zeros)
  BY Zenon DEF IsStandardMessage
<1> HIDE DEF s
<1>6. /\ Len(s) = q * Block + b * Block
      /\ Len(Padded(m)) = b * Block
      /\ Splits(s, m, q, Padded(m), b)
  BY <1>4, <1>11, PaddedMessageIs, Zenon
<1>7. Len(m) \div Block = q
  OBVIOUS
<1> HIDE DEF n, q, b, iv, added
<1>8. Len(s) \div Block = q + b /\ q + b \in Nat
  <2>1. q * Block + b * Block = (q + b) * Block /\ q + b \in Nat
    BY <1>5, HashAssumption
  <2> QED
    BY <1>6, <2>1, WholeBlocks, Zenon
<1>9. Len(Padded(m)) \div Block = b
  BY <1>5, <1>6, WholeBlocks, Zenon
<1>10. Blocks(Padded(m), Blocks(m, iv, added), added) = Blocks(s, iv, added)
  BY <1>5, <1>6, <1>7, <1>8, <1>9, ChainsJoin
<1> QED
  BY <1>1, <1>2, <1>10, Zenon DEF added, iv

HashInv ==
    hash_last.variant = "sha512" =>
        /\ hash_last.m \in Seq(HashBytes)
        /\ hash_last.out = crypto_hash(hash_last.m)

(* crypto_hash is the chain over the padded message of the standard, for every
   length of a message and every size of a block (tweetnacl.c). *)
THEOREM Sha512IsStandard == HashSpec => []HashIsStandard
<1>1. HashInit => HashInv
  BY DEF HashInit, HashInv
<1>2. HashInv /\ [HashNext]_hash_last => HashInv'
  <2> SUFFICES ASSUME HashInv, [HashNext]_hash_last PROVE HashInv'
    OBVIOUS
  <2>1. ASSUME NEW m \in HashedMessages, HashCall(m) PROVE HashInv'
    <3>1. m \in Seq(HashBytes)
      BY HashAssumption DEF HashedMessages
    <3> QED
      BY <2>1, <3>1 DEF HashCall, HashInv
  <2>2. CASE HashReturn
    BY <2>2 DEF HashReturn, HashInv
  <2>3. CASE UNCHANGED hash_last
    BY <2>3 DEF HashInv
  <2> QED
    BY <2>1, <2>2, <2>3 DEF HashNext
<1>3. HashInv => HashIsStandard
  BY CryptoHashIsStandard, Zenon DEF HashInv, HashIsStandard
<1> QED
  BY <1>1, <1>2, <1>3, PTL DEF HashSpec
=============================================================================
