-------------------------- MODULE SecretBoxProofs --------------------------
(***************************************************************************)
(* Theorems about SecretBox, for every set of parties, keys, nonces and    *)
(* texts and any number of calls, about the key stream of its boxes        *)
(* (Salsa20), for every width of the words and every length, and about     *)
(* their authenticator (Poly1305), for every number of limbs and radix.    *)
(***************************************************************************)
EXTENDS SecretBox, Salsa20, Poly1305, NumberLemmas, TLAPS

-----------------------------------------------------------------------------
(* The parts of the inductive invariant *)

\* What crypto_secretbox is given and makes of it.
Made(s) ==
    /\ s.d # "short"
    /\ s.m = [head |-> s.m.head, tag |-> {}, body |-> s.m.body]
    /\ s.m.head \in {{}, Pad}
    /\ s.d = "empty" => s.m.body = {}
    /\ s.box = Secretbox(IF s.overlap THEN s.m ELSE Zeroed, s.m, s.d, s.overlap,
                         s.nonce, s.key)
    /\ s.pair # NULL /\ s.pair[5] = {} => s.key = s.pair[2] \union s.pair[4]

SealedAreMade == \A s \in sealed : Made(s)

\* A pair whose generation did not fail belongs together.
PairsMatch ==
    \A p \in Parties \ torn :
        box_sk[p] # NULL /\ box_pk[p] # NULL => box_pk[p] = Point(box_sk[p])

BoxTypes ==
    /\ box_sk \in [Parties -> Nat \union {NULL}]
    /\ box_pk \in [Parties -> (SUBSET Nat) \union {NULL}]
    /\ keypairs \in Nat

\* What an opening was given, and what it did with it.
OpeningInv ==
    opened # NULL =>
        /\ opened.c \in Arrived
        /\ opened.old = IF opened.overlap
                        THEN [head |-> opened.c.head, tag |-> opened.c.tag,
                              body |-> opened.c.body]
                        ELSE [head |-> Stale, tag |-> Stale, body |-> Stale]
        /\ opened.ret = IF /\ opened.c.d # "short"
                           /\ Verifies(opened.c, opened.c.d, opened.nonce, opened.key)
                        THEN 0 ELSE -1
        /\ opened.m = IF opened.c.d = "short" THEN opened.old
                      ELSE SecretboxOpen(opened.old, opened.c, opened.c.d,
                                         opened.overlap, opened.nonce, opened.key)
        /\ opened.pair # NULL /\ opened.pair[5] = {} =>
               opened.key = opened.pair[2] \union opened.pair[4]

BoxInv == SealedAreMade /\ PairsMatch /\ BoxTypes /\ OpeningInv

-----------------------------------------------------------------------------
(* Lemmas about terms *)

(* The exclusive or with the same term twice. *)
LEMMA XorTwice == ASSUME NEW a, NEW b PROVE XorTerms(XorTerms(a, b), b) = a
  BY DEF XorTerms

LEMMA XorZero == ASSUME NEW b PROVE XorTerms({}, b) = b
  BY DEF XorTerms

(* A stream names its key, its nonce and its part. *)
LEMMA StreamInjective ==
  ASSUME NEW k, NEW n, NEW p, NEW k2, NEW n2, NEW p2, Stream(k, n, p) = Stream(k2, n2, p2)
  PROVE  k = k2 /\ n = n2 /\ p = p2
<1>1. <<"stream", k, n, p>> = <<"stream", k2, n2, p2>>
  BY DEF Stream
<1> QED
  BY <1>1

(* An authenticator names its key, the length and the text. *)
LEMMA MacInjective ==
  ASSUME NEW x, NEW d, NEW b, NEW x2, NEW d2, NEW b2, Mac(x, d, b) = Mac(x2, d2, b2)
  PROVE  x = x2 /\ d = d2 /\ b = b2
<1>1. <<"mac", x, d, b>> = <<"mac", x2, d2, b2>>
  BY DEF Mac
<1> QED
  BY <1>1

(* A pad that is not zeroed changes the head of the stream. *)
LEMMA PadShows == ASSUME NEW k, NEW n PROVE XorTerms(Pad, Stream(k, n, "head")) # Stream(k, n, "head")
<1>1. <<"pad">> # <<"stream", k, n, "head">>
  OBVIOUS
<1>2. <<"pad">> \in XorTerms(Pad, Stream(k, n, "head"))
  BY <1>1 DEF XorTerms, Pad, Stream
<1> QED
  BY <1>1, <1>2 DEF Stream

(* A box whose tag verifies was sealed with the key and nonce it verifies
   under, over a zeroed pad, by a call whose stream was run. *)
LEMMA VerifiedWasSealed ==
  ASSUME NEW s, Made(s), NEW c, NEW k, NEW n,
         c.tag = s.box.tag, Verifies(c, c.d, n, k)
  PROVE  /\ WellSealed(s) /\ s.key = k /\ s.nonce = n /\ s.d = c.d
         /\ c.body = s.box.body
<1> DEFINE c0 == IF s.overlap THEN s.m ELSE Zeroed
           x == StreamXor(c0, s.m, s.d, s.overlap, s.nonce, s.key)
<1>1. s.box = [head |-> {}, tag |-> Mac(<<x.head, x.tag>>, s.d, x.body), body |-> x.body]
  BY DEF Made, Secretbox
<1> HIDE DEF x
<1> DEFINE made == <<x.head, x.tag>>
           checked == <<Stream(k, n, "head"), Stream(k, n, "tag")>>
<1>2. Mac(made, s.d, x.body) = Mac(checked, c.d, c.body)
  <2>1. s.box.tag = Mac(made, s.d, x.body)
    BY <1>1
  <2>2. c.tag = Mac(checked, c.d, c.body)
    BY DEF Verifies
  <2> QED
    BY <2>1, <2>2
<1>3. made = checked /\ s.d = c.d /\ x.body = c.body
  <2> HIDE DEF made, checked
  <2> QED
    BY <1>2, MacInjective
<1>4. x.head = Stream(k, n, "head") /\ x.tag = Stream(k, n, "tag")
  BY <1>3
<1>5. Stream(k, n, "tag") # {}
  BY DEF Stream
<1>6. s.m.tag = {} /\ Zeroed.tag = {}
  BY DEF Made, Zeroed
<1>7. ~Refused(s.d, s.overlap)
  BY <1>4, <1>5, <1>6 DEF StreamXor, x
<1>8. /\ x.head = XorTerms(s.m.head, Stream(s.key, s.nonce, "head"))
      /\ x.tag = XorTerms(s.m.tag, Stream(s.key, s.nonce, "tag"))
  BY <1>7 DEF StreamXor, x
<1>9. s.key = k /\ s.nonce = n
  BY <1>4, <1>6, <1>8, XorZero, StreamInjective
<1>10. s.m.head = {}
  BY <1>4, <1>8, <1>9, PadShows DEF Made
<1> QED
  BY <1>1, <1>3, <1>7, <1>9, <1>10 DEF WellSealed

(* A box sealed so verifies under its key and nonce. *)
LEMMA SealedVerifies ==
  ASSUME NEW s, Made(s), WellSealed(s), NEW c,
         c.tag = s.box.tag, c.body = s.box.body, c.d = s.d
  PROVE  Verifies(c, c.d, s.nonce, s.key)
<1> DEFINE c0 == IF s.overlap THEN s.m ELSE Zeroed
           x == StreamXor(c0, s.m, s.d, s.overlap, s.nonce, s.key)
<1>1. s.box = [head |-> {}, tag |-> Mac(<<x.head, x.tag>>, s.d, x.body), body |-> x.body]
  BY DEF Made, Secretbox
<1>2. s.m.head = {} /\ s.m.tag = {}
  BY DEF Made, WellSealed
<1>3. x.head = Stream(s.key, s.nonce, "head") /\ x.tag = Stream(s.key, s.nonce, "tag")
  BY <1>2, XorZero DEF WellSealed, StreamXor
<1> HIDE DEF x
<1> QED
  BY <1>1, <1>3 DEF Verifies

(* What opening such a box leaves in m. *)
LEMMA OpenedText ==
  ASSUME NEW s, Made(s), WellSealed(s), NEW c, NEW old,
         c.d = s.d, c.body = s.box.body,
         Verifies(c, c.d, s.nonce, s.key)
  PROVE  SecretboxOpen(old, c, c.d, FALSE, s.nonce, s.key) = s.m
<1> DEFINE c0 == IF s.overlap THEN s.m ELSE Zeroed
           stream == Stream(s.key, s.nonce, "body")
<1>1. ~Refused(s.d, s.overlap) /\ ~Refused(c.d, FALSE)
  BY DEF WellSealed, Refused
<1>2. c.body = IF s.d = "empty" THEN {} ELSE XorTerms(s.m.body, stream)
  BY <1>1 DEF Made, Secretbox, StreamXor
<1>3. SecretboxOpen(old, c, c.d, FALSE, s.nonce, s.key)
        = [head |-> {}, tag |-> {},
           body |-> IF s.d = "empty" THEN {} ELSE XorTerms(c.body, stream)]
  BY <1>1 DEF SecretboxOpen, StreamXor
<1>4. s.d # "empty" => XorTerms(c.body, stream) = s.m.body
  BY <1>2, XorTwice
<1>5. s.m = [head |-> {}, tag |-> {}, body |-> s.m.body]
  BY DEF Made, WellSealed
<1>6. s.d = "empty" => s.m.body = {}
  BY DEF Made
<1> QED
  BY <1>3, <1>4, <1>5, <1>6

-----------------------------------------------------------------------------
(* The steps *)

LEMMA InitBoxInv == SecretBoxInit => BoxInv
<1> SUFFICES ASSUME SecretBoxInit PROVE BoxInv
  OBVIOUS
<1>1. SealedAreMade /\ OpeningInv
  BY DEF SecretBoxInit, SealedAreMade, OpeningInv
<1>2. PairsMatch
  BY DEF SecretBoxInit, PairsMatch
<1>3. BoxTypes
  BY DEF SecretBoxInit, BoxTypes
<1> QED
  BY <1>1, <1>2, <1>3 DEF BoxInv

(* The key two parties compute, each from its own scalar, when their pairs match. *)
LEMMA SharedKey ==
  ASSUME PairsMatch, NEW p \in Parties, NEW q \in Parties, HavePairs(p, q),
         torn \intersect {p, q} = {}
  PROVE  BeforeNm(box_sk[p], box_pk[q]) = box_pk[p] \union box_pk[q]
<1>1. p \notin torn
  OBVIOUS
<1>2. box_pk[p] = {box_sk[p]}
  BY <1>1 DEF PairsMatch, HavePairs, Point
<1> QED
  BY <1>2 DEF BeforeNm

LEMMA PairParts ==
  ASSUME NEW p, NEW q
  PROVE  /\ Pair(p, q)[2] = box_pk[p] /\ Pair(p, q)[4] = box_pk[q]
         /\ Pair(p, q)[5] = torn \intersect {p, q}
  BY DEF Pair

(* Key generation leaves the boxes alone; a failed one leaves halves of two pairs. *)
LEMMA KeypairKeeps ==
  ASSUME BoxInv, opened = NULL, NEW p \in Parties, BoxKeypair(p) \/ BoxKeypairFails(p)
  PROVE  BoxInv'
<1> USE DEF BoxInv, BoxTypes
<1>1. UNCHANGED <<sealed, opened>>
  BY DEF BoxKeypair, BoxKeypairFails, Keypair
<1>2. Drawn \in Nat
  BY DEF Drawn
<1>3. CASE BoxKeypair(p)
  <2>1. /\ box_sk' = [box_sk EXCEPT ![p] = Drawn]
        /\ box_pk' = [box_pk EXCEPT ![p] = {Drawn}]
        /\ torn' = torn \ {p} /\ keypairs' = keypairs + 1
    BY <1>3 DEF BoxKeypair, Keypair, Point
  <2>2. PairsMatch'
    BY <1>2, <2>1 DEF PairsMatch, Point
  <2> QED
    BY <1>1, <1>2, <2>1, <2>2 DEF SealedAreMade, OpeningInv
<1>4. CASE BoxKeypairFails(p)
  <2>1. /\ box_sk' = [box_sk EXCEPT ![p] = Drawn]
        /\ box_pk' = [box_pk EXCEPT ![p] = box_pk[p]]
        /\ torn' = torn \union {p} /\ keypairs' = keypairs + 1
    BY <1>4 DEF BoxKeypairFails, Keypair
  <2>2. PairsMatch'
    BY <1>2, <2>1 DEF PairsMatch, Point
  <2> QED
    BY <1>1, <1>2, <2>1, <2>2 DEF SealedAreMade, OpeningInv
<1> QED
  BY <1>3, <1>4

(* Every sealing call adds a record of the kind Made describes. *)
LEMMA SealKeeps ==
  ASSUME BoxInv, opened = NULL, NEW k, NEW pair, NEW n, NEW t, NEW pad \in {{}, Pad},
         NEW d, NEW overlap, Seal(k, pair, n, t, pad, d, overlap),
         pair # NULL /\ pair[5] = {} => k = pair[2] \union pair[4]
  PROVE  BoxInv'
<1> DEFINE m == [head |-> pad, tag |-> {}, body |-> IF d = "empty" THEN {} ELSE Text(t)]
           c == IF overlap THEN m ELSE Zeroed
           s == [key |-> k, pair |-> pair, nonce |-> n, m |-> m, d |-> d,
                 overlap |-> overlap, box |-> Secretbox(c, m, d, overlap, n, k)]
<1>1. /\ sealed' = sealed \union {s} /\ d # "short"
      /\ UNCHANGED <<box_sk, box_pk, keypairs, torn, opened>>
  BY DEF Seal
<1>2. Made(s)
  BY <1>1 DEF Made
<1>3. SealedAreMade'
  <2> HIDE DEF s
  <2> QED
    BY <1>1, <1>2 DEF BoxInv, SealedAreMade
<1> QED
  BY <1>1, <1>3 DEF BoxInv, PairsMatch, BoxTypes, OpeningInv

(* An opening is recorded with what it was given. *)
LEMMA OpenKeeps ==
  ASSUME BoxInv, NEW k, NEW pair, NEW n, NEW c \in Arrived, NEW overlap,
         Open(k, pair, n, c, overlap),
         pair # NULL /\ pair[5] = {} => k = pair[2] \union pair[4]
  PROVE  BoxInv'
<1>1. UNCHANGED <<box_sk, box_pk, keypairs, torn, sealed>>
  BY DEF Open
<1>2. Arrived' = Arrived
  BY <1>1 DEF Arrived
<1>3. OpeningInv'
  BY <1>2 DEF Open, OpeningInv
<1> QED
  BY <1>1, <1>3 DEF BoxInv, SealedAreMade, PairsMatch, BoxTypes

LEMMA NextBoxInv == BoxInv /\ [SecretBoxNext]_secretBoxVars => BoxInv'
<1> SUFFICES ASSUME BoxInv, [SecretBoxNext]_secretBoxVars PROVE BoxInv'
  OBVIOUS
<1>1. ASSUME opened = NULL, NEW p \in Parties, BoxKeypair(p) \/ BoxKeypairFails(p)
      PROVE  BoxInv'
  BY <1>1, KeypairKeeps
<1>2. ASSUME opened = NULL, NEW n \in Nonces, NEW t \in Plaintexts, NEW pad \in {{}, Pad},
             NEW d \in Lengths, NEW overlap \in BOOLEAN, NEW k \in SymmetricKeys,
             SealSecretbox(k, n, t, pad, d, overlap)
      PROVE  BoxInv'
  BY <1>2, SealKeeps DEF SealSecretbox
<1>3. ASSUME opened = NULL, NEW n \in Nonces, NEW t \in Plaintexts, NEW pad \in {{}, Pad},
             NEW d \in Lengths, NEW overlap \in BOOLEAN,
             NEW p \in Parties, NEW q \in Parties, SealBox(p, q, n, t, pad, d, overlap)
      PROVE  BoxInv'
  <2>1. HavePairs(p, q)
    BY <1>3 DEF SealBox
  <2>2. Pair(p, q)[5] = {} =>
            BeforeNm(box_sk[p], box_pk[q]) = Pair(p, q)[2] \union Pair(p, q)[4]
    BY <2>1, SharedKey, PairParts DEF BoxInv
  <2> QED
    BY <1>3, <2>2, SealKeeps DEF SealBox
<1>4. ASSUME NEW c \in Arrived, NEW n \in Nonces, NEW overlap \in BOOLEAN,
             NEW k \in SymmetricKeys, OpenSecretbox(k, n, c, overlap)
      PROVE  BoxInv'
  BY <1>4, OpenKeeps DEF OpenSecretbox
<1>5. ASSUME NEW c \in Arrived, NEW n \in Nonces, NEW overlap \in BOOLEAN,
             NEW p \in Parties, NEW q \in Parties, OpenBox(q, p, n, c, overlap)
      PROVE  BoxInv'
  <2>1. HavePairs(q, p)
    BY <1>5 DEF OpenBox
  <2>2. Pair(p, q)[5] = {} =>
            BeforeNm(box_sk[q], box_pk[p]) = Pair(p, q)[2] \union Pair(p, q)[4]
    <3>1. torn \intersect {q, p} = torn \intersect {p, q}
      OBVIOUS
    <3>2. box_pk[q] \union box_pk[p] = box_pk[p] \union box_pk[q]
      OBVIOUS
    <3> QED
      BY <2>1, <3>1, <3>2, SharedKey, PairParts DEF BoxInv
  <2> QED
    BY <1>5, <2>2, OpenKeeps DEF OpenBox
<1>6. CASE Discard
  BY <1>6 DEF Discard, BoxInv, SealedAreMade, PairsMatch, BoxTypes, OpeningInv
<1>7. CASE UNCHANGED secretBoxVars
  BY <1>7 DEF secretBoxVars, BoxInv, SealedAreMade, PairsMatch, BoxTypes, OpeningInv, Arrived
<1> QED
  BY <1>1, <1>2, <1>3, <1>4, <1>5, <1>6, <1>7 DEF SecretBoxNext, Call

(* BoxInv holds in every reachable state. *)
LEMMA BoxInvariant == SecretBoxSpec => []BoxInv
  BY InitBoxInv, NextBoxInv, PTL DEF SecretBoxSpec

-----------------------------------------------------------------------------
(* The properties *)

(* Whatever parts of boxes arrive, an opening that returns 0 names the call that
   sealed, and gives its message back. *)
THEOREM OpenedIsSealed == SecretBoxSpec => []OpenedWasSealed
<1>1. ASSUME BoxInv PROVE OpenedWasSealed
  <2>0. ASSUME NEW a, Made(a), opened.c.tag = a.box.tag,
               Verifies(opened.c, opened.c.d, opened.nonce, opened.key)
        PROVE  /\ WellSealed(a) /\ a.key = opened.key /\ a.nonce = opened.nonce
               /\ a.d = opened.c.d /\ opened.c.body = a.box.body
    BY <2>0, VerifiedWasSealed
  <2> SUFFICES ASSUME opened # NULL, opened.ret = 0
               PROVE  \E s \in sealed :
                        /\ WellSealed(s)
                        /\ s.key = opened.key /\ s.nonce = opened.nonce
                        /\ s.d = opened.c.d
                        /\ ~opened.overlap => opened.m = s.m
    BY DEF OpenedWasSealed
  <2>1. /\ opened.c.d # "short"
        /\ Verifies(opened.c, opened.c.d, opened.nonce, opened.key)
        /\ opened.c \in Arrived
        /\ opened.m = SecretboxOpen(opened.old, opened.c, opened.c.d,
                                    opened.overlap, opened.nonce, opened.key)
    BY <1>1 DEF BoxInv, OpeningInv
  <2>2. PICK a \in sealed : opened.c.tag = a.box.tag
    BY <2>1 DEF Arrived
  <2>3. Made(a)
    BY <1>1, <2>2 DEF BoxInv, SealedAreMade
  <2>4. /\ WellSealed(a) /\ a.key = opened.key /\ a.nonce = opened.nonce
        /\ a.d = opened.c.d /\ opened.c.body = a.box.body
    BY <2>0, <2>1, <2>2, <2>3
  <2>5. ASSUME ~opened.overlap PROVE opened.m = a.m
    <3>1. StreamXor(opened.old, opened.c, opened.c.d, opened.overlap,
                    opened.nonce, opened.key)
            = StreamXor(opened.old, opened.c, opened.c.d, FALSE,
                        opened.nonce, opened.key)
      BY <2>5 DEF StreamXor, Refused
    <3>2. opened.m = SecretboxOpen(opened.old, opened.c, opened.c.d, FALSE,
                                   a.nonce, a.key)
      BY <2>1, <2>4, <3>1 DEF SecretboxOpen
    <3> QED
      BY <2>1, <2>3, <2>4, <3>2, OpenedText
  <2> QED
    BY <2>4, <2>5
<1> QED
  BY <1>1, BoxInvariant, PTL

(* A box no stream refused, made over a zeroed pad, opens for its reader. *)
THEOREM SealedIsOpened == SecretBoxSpec => []SealedBoxOpens
<1>1. ASSUME BoxInv PROVE SealedBoxOpens
  <2> SUFFICES ASSUME NEW s \in sealed,
                      opened # NULL, WellSealed(s),
                      opened.c.tag = s.box.tag, opened.c.body = s.box.body,
                      opened.c.d = s.d, opened.nonce = s.nonce, opened.pair = s.pair,
                      IF s.pair = NULL THEN opened.key = s.key ELSE s.pair[5] = {}
               PROVE  opened.ret = 0 /\ (opened.overlap \/ opened.m = s.m)
    BY DEF SealedBoxOpens
  <2>1. Made(s) /\ s.d # "short"
    BY <1>1 DEF BoxInv, SealedAreMade, Made
  <2>2. opened.key = s.key
    BY <1>1, <2>1 DEF BoxInv, OpeningInv, Made
  <2>3. Verifies(opened.c, opened.c.d, opened.nonce, opened.key)
    BY <2>1, <2>2, SealedVerifies
  <2>4. opened.ret = 0
    BY <1>1, <2>1, <2>3 DEF BoxInv, OpeningInv
  <2>5. ASSUME ~opened.overlap PROVE opened.m = s.m
    <3>1. opened.m = SecretboxOpen(opened.old, opened.c, opened.c.d,
                                   opened.overlap, opened.nonce, opened.key)
      BY <1>1, <2>1 DEF BoxInv, OpeningInv
    <3>2. StreamXor(opened.old, opened.c, opened.c.d, opened.overlap,
                    opened.nonce, opened.key)
            = StreamXor(opened.old, opened.c, opened.c.d, FALSE,
                        opened.nonce, opened.key)
      BY <2>5 DEF StreamXor, Refused
    <3>3. opened.m = SecretboxOpen(opened.old, opened.c, opened.c.d, FALSE,
                                   s.nonce, s.key)
      BY <2>2, <3>1, <3>2 DEF SecretboxOpen
    <3> QED
      BY <2>1, <2>2, <2>3, <3>3, OpenedText
  <2> QED
    BY <2>4, <2>5
<1> QED
  BY <1>1, BoxInvariant, PTL

(* A box that does not verify changes nothing; one that does leaves 32 zeroed bytes
   in front of its message. *)
THEOREM OpenLeaves == SecretBoxSpec => []WhatOpenLeaves
<1>1. ASSUME BoxInv PROVE WhatOpenLeaves
  <2> SUFFICES ASSUME opened # NULL
               PROVE  /\ opened.ret = -1 => opened.m = opened.old
                      /\ opened.ret = 0 => opened.m.head = {} /\ opened.m.tag = {}
    BY DEF WhatOpenLeaves
  <2>1. OpeningInv
    BY <1>1 DEF BoxInv
  <2>2. opened.ret = -1 => opened.m = opened.old
    BY <2>1 DEF OpeningInv, SecretboxOpen
  <2>3. opened.ret = 0 => opened.m.head = {} /\ opened.m.tag = {}
    BY <2>1 DEF OpeningInv, SecretboxOpen
  <2> QED
    BY <2>2, <2>3
<1> QED
  BY <1>1, BoxInvariant, PTL

(* Every box and every opening has a key of the right kind, and a nonce. *)
LEMMA SealTypes ==
  ASSUME SecretBoxTypeOK, NEW k \in Keys, NEW pair, NEW n \in Nonces, NEW t, NEW pad,
         NEW d \in Lengths, NEW overlap \in BOOLEAN, Seal(k, pair, n, t, pad, d, overlap)
  PROVE  SecretBoxTypeOK'
<1>1. PICK s : /\ sealed' = sealed \union {s}
               /\ s.key = k /\ s.nonce = n /\ s.d = d /\ s.overlap = overlap
  <2> DEFINE m == [head |-> pad, tag |-> {}, body |-> IF d = "empty" THEN {} ELSE Text(t)]
             c == IF overlap THEN m ELSE Zeroed
             box == Secretbox(c, m, d, overlap, n, k)
             s == [key |-> k, pair |-> pair, nonce |-> n, m |-> m, d |-> d,
                   overlap |-> overlap, box |-> box]
  <2>1. sealed' = sealed \union {s}
    BY Zenon DEF Seal
  <2> HIDE DEF m, box
  <2>2. s.key = k /\ s.nonce = n /\ s.d = d /\ s.overlap = overlap
    OBVIOUS
  <2> QED
    BY <2>1, <2>2, Zenon
<1>2. d # "short" /\ UNCHANGED <<box_sk, box_pk, keypairs, torn, opened>>
  BY DEF Seal
<1> QED
  BY <1>1, <1>2 DEF SecretBoxTypeOK, Keys

LEMMA OpenTypes ==
  ASSUME SecretBoxTypeOK, NEW k \in Keys, NEW pair, NEW n, NEW c, NEW overlap,
         Open(k, pair, n, c, overlap)
  PROVE  SecretBoxTypeOK'
<1>1. /\ opened'.key = k /\ opened'.ret \in {0, -1}
      /\ UNCHANGED <<box_sk, box_pk, keypairs, torn, sealed>>
  BY DEF Open
<1> QED
  BY <1>1 DEF SecretBoxTypeOK, Keys

LEMMA SharedKeyType ==
  ASSUME SecretBoxTypeOK, NEW p \in Parties, NEW q \in Parties, HavePairs(p, q)
  PROVE  BeforeNm(box_sk[p], box_pk[q]) \in Keys
BY DEF SecretBoxTypeOK, HavePairs, BeforeNm, Keys

(* The key of a box is a symmetric one or the union of what two parties hold. *)
THEOREM SecretBoxTypes == SecretBoxSpec => []SecretBoxTypeOK
<1>1. SecretBoxInit => SecretBoxTypeOK
  BY DEF SecretBoxInit, SecretBoxTypeOK
<1>2. SecretBoxTypeOK /\ [SecretBoxNext]_secretBoxVars => SecretBoxTypeOK'
  <2> SUFFICES ASSUME SecretBoxTypeOK, [SecretBoxNext]_secretBoxVars PROVE SecretBoxTypeOK'
    OBVIOUS
  <2>1. ASSUME NEW p \in Parties, BoxKeypair(p) \/ BoxKeypairFails(p) PROVE SecretBoxTypeOK'
    <3>1. /\ keypairs' \in Nat /\ torn' \subseteq Parties
          /\ box_sk' \in [Parties -> Nat \union {NULL}]
          /\ box_pk' \in [Parties -> (SUBSET Nat) \union {NULL}]
      BY <2>1 DEF SecretBoxTypeOK, BoxKeypair, BoxKeypairFails, Keypair, Drawn, Point
    <3>2. UNCHANGED <<sealed, opened>>
      BY <2>1 DEF BoxKeypair, BoxKeypairFails, Keypair
    <3> QED
      BY <3>1, <3>2 DEF SecretBoxTypeOK, Keys
  <2>2. ASSUME NEW n \in Nonces, NEW t \in Plaintexts, NEW pad \in {{}, Pad},
               NEW d \in Lengths, NEW overlap \in BOOLEAN, NEW k \in SymmetricKeys,
               SealSecretbox(k, n, t, pad, d, overlap)
        PROVE  SecretBoxTypeOK'
    BY <2>2, SealTypes DEF SealSecretbox, Keys
  <2>3. ASSUME NEW n \in Nonces, NEW t \in Plaintexts, NEW pad \in {{}, Pad},
               NEW d \in Lengths, NEW overlap \in BOOLEAN,
               NEW p \in Parties, NEW q \in Parties, SealBox(p, q, n, t, pad, d, overlap)
        PROVE  SecretBoxTypeOK'
    BY <2>3, SealTypes, SharedKeyType DEF SealBox
  <2>4. ASSUME NEW c \in Arrived, NEW n \in Nonces, NEW overlap \in BOOLEAN,
               NEW k \in SymmetricKeys, OpenSecretbox(k, n, c, overlap)
        PROVE  SecretBoxTypeOK'
    BY <2>4, OpenTypes DEF OpenSecretbox, Keys
  <2>5. ASSUME NEW c \in Arrived, NEW n \in Nonces, NEW overlap \in BOOLEAN,
               NEW p \in Parties, NEW q \in Parties, OpenBox(q, p, n, c, overlap)
        PROVE  SecretBoxTypeOK'
    BY <2>5, OpenTypes, SharedKeyType DEF OpenBox
  <2>6. CASE Discard
    BY <2>6 DEF Discard, SecretBoxTypeOK, Keys
  <2>7. CASE UNCHANGED secretBoxVars
    BY <2>7 DEF secretBoxVars, SecretBoxTypeOK, Keys
  <2> QED
    BY <2>1, <2>2, <2>3, <2>4, <2>5, <2>6, <2>7 DEF SecretBoxNext, Call
<1> QED
  BY <1>1, <1>2, PTL DEF SecretBoxSpec

-----------------------------------------------------------------------------
(* The rounds of the key stream *)

\* Where element m of line j is, from the diagonal on, in a matrix by rows.
ByColumn(j, m) == 4 * ((j + m) % 4) + j
ByRow(j, m) == 4 * j + ((j + m) % 4)

ColumnLine(x, j) ==
    QuarterRound(x[ByColumn(j, 0)], x[ByColumn(j, 1)], x[ByColumn(j, 2)], x[ByColumn(j, 3)])
RowLine(x, j) ==
    QuarterRound(x[ByRow(j, 0)], x[ByRow(j, 1)], x[ByRow(j, 2)], x[ByRow(j, 3)])

ColumnRound(x) == Lines(x, ByColumn)
RowRound(x) == Lines(x, ByRow)

(* A place is in one line only, at one distance from the diagonal. *)
LEMMA ColumnAt ==
  ASSUME NEW j \in 0 .. 3, NEW m \in 0 .. 3
  PROVE  (CHOOSE p \in (0 .. 3) \X (0 .. 3) : ByColumn(p[1], p[2]) = ByColumn(j, m))
             = <<j, m>>
<1>1. \A k \in 0 .. 3, l \in 0 .. 3 : ByColumn(k, l) = ByColumn(j, m) => k = j /\ l = m
  BY DEF ByColumn
<1>2. \A p \in (0 .. 3) \X (0 .. 3) :
         ByColumn(p[1], p[2]) = ByColumn(j, m) => p = <<j, m>>
  BY <1>1
<1>3. <<j, m>> \in (0 .. 3) \X (0 .. 3) /\ <<j, m>>[1] = j /\ <<j, m>>[2] = m
  OBVIOUS
<1> QED
  BY <1>2, <1>3, Zenon

LEMMA RowAt ==
  ASSUME NEW j \in 0 .. 3, NEW m \in 0 .. 3
  PROVE  (CHOOSE p \in (0 .. 3) \X (0 .. 3) : ByRow(p[1], p[2]) = ByRow(j, m))
             = <<j, m>>
<1>1. \A k \in 0 .. 3, l \in 0 .. 3 : ByRow(k, l) = ByRow(j, m) => k = j /\ l = m
  BY DEF ByRow
<1>2. \A p \in (0 .. 3) \X (0 .. 3) : ByRow(p[1], p[2]) = ByRow(j, m) => p = <<j, m>>
  BY <1>1
<1>3. <<j, m>> \in (0 .. 3) \X (0 .. 3) /\ <<j, m>>[1] = j /\ <<j, m>>[2] = m
  OBVIOUS
<1> QED
  BY <1>2, <1>3, Zenon

LEMMA RowRange ==
  ASSUME NEW j \in 0 .. 3, NEW m \in 0 .. 3
  PROVE  /\ ByRow(j, m) \in 0 .. 15 /\ ByColumn(j, m) \in 0 .. 15
         /\ ByRow(j, m) \div 4 = j /\ (ByRow(j, m) - j) % 4 = m
BY DEF ByRow, ByColumn

(* Lines, by its elements. *)
LEMMA LinesByColumn ==
  ASSUME NEW x, NEW j \in 0 .. 3, NEW m \in 0 .. 3
  PROVE  ColumnRound(x)[ByColumn(j, m)] = ColumnLine(x, j)[1 + m]
<1> DEFINE q == <<ColumnLine(x, 0), ColumnLine(x, 1),
                  ColumnLine(x, 2), ColumnLine(x, 3)>>
           i == ByColumn(j, m)
           at == CHOOSE p \in (0 .. 3) \X (0 .. 3) : ByColumn(p[1], p[2]) = i
<1>1. i \in 0 .. 15
  BY RowRange
<1>2. ColumnRound(x)[i] = q[1 + at[1]][1 + at[2]]
  BY <1>1, Zenon DEF Lines, ColumnLine, RowLine, ColumnRound, RowRound
<1>3. at[1] = j /\ at[2] = m
  <2>1. at = <<j, m>>
    BY ColumnAt, Zenon
  <2> HIDE DEF at
  <2> QED
    BY <2>1
<1>4. q[1 + j] = ColumnLine(x, j)
  OBVIOUS
<1> QED
  BY <1>2, <1>3, <1>4, Zenon

LEMMA LinesByRow ==
  ASSUME NEW x, NEW j \in 0 .. 3, NEW m \in 0 .. 3
  PROVE  RowRound(x)[ByRow(j, m)] = RowLine(x, j)[1 + m]
<1> DEFINE q == <<RowLine(x, 0), RowLine(x, 1),
                  RowLine(x, 2), RowLine(x, 3)>>
           i == ByRow(j, m)
           at == CHOOSE p \in (0 .. 3) \X (0 .. 3) : ByRow(p[1], p[2]) = i
<1>1. i \in 0 .. 15
  BY RowRange
<1>2. RowRound(x)[i] = q[1 + at[1]][1 + at[2]]
  BY <1>1, Zenon DEF Lines, ColumnLine, RowLine, ColumnRound, RowRound
<1>3. at[1] = j /\ at[2] = m
  <2>1. at = <<j, m>>
    BY RowAt, Zenon
  <2> HIDE DEF at
  <2> QED
    BY <2>1
<1>4. q[1 + j] = RowLine(x, j)
  OBVIOUS
<1> QED
  BY <1>2, <1>3, <1>4, Zenon

(* The code's round, by its elements. *)
LEMMA ColumnIsLine ==
  ASSUME NEW x, NEW j \in 0 .. 3 PROVE Column(x, j) = ColumnLine(x, j)
<1>1. /\ 5 * j = ByColumn(j, 0) /\ (5 * j + 4) % 16 = ByColumn(j, 1)
      /\ (5 * j + 8) % 16 = ByColumn(j, 2) /\ (5 * j + 12) % 16 = ByColumn(j, 3)
  BY DEF ByColumn
<1> QED
  BY <1>1, Zenon DEF Column, ColumnLine

LEMMA RoundByRow ==
  ASSUME NEW x, NEW j \in 0 .. 3, NEW m \in 0 .. 3
  PROVE  Round(x)[ByRow(j, m)] = ColumnLine(x, j)[1 + m]
<1> DEFINE t == <<Column(x, 0), Column(x, 1), Column(x, 2), Column(x, 3)>>
           i == ByRow(j, m)
<1>1. i \in 0 .. 15 /\ i \div 4 = j /\ (i - (i \div 4)) % 4 = m
  BY RowRange
<1>2. Round(x) = [k \in 0 .. 15 |-> t[1 + (k \div 4)][1 + ((k - (k \div 4)) % 4)]]
  BY Zenon DEF Round
<1>3. t[1 + j] = Column(x, j)
  OBVIOUS
<1> HIDE DEF t, i
<1>4. Round(x)[i] = t[1 + j][1 + m]
  BY <1>1, <1>2, Zenon
<1> QED
  BY <1>3, <1>4, ColumnIsLine, Zenon DEF i

(* The code's round is the rounds' first half, transposed. *)
LEMMA RoundTransposes ==
  ASSUME NEW x, NEW k \in 0 .. 3, NEW l \in 0 .. 3
  PROVE  Round(x)[ByColumn(k, l)] = ColumnRound(x)[ByRow(k, l)]
<1> DEFINE a == (k + l) % 4
           m == (k - a) % 4
<1>1. a \in 0 .. 3 /\ m \in 0 .. 3
  OBVIOUS
<1>2. ByRow(a, m) = ByColumn(k, l) /\ ByColumn(a, m) = ByRow(k, l)
  BY DEF ByRow, ByColumn
<1> HIDE DEF a, m
<1>3. Round(x)[ByRow(a, m)] = ColumnRound(x)[ByColumn(a, m)]
  BY <1>1, RoundByRow, LinesByColumn
<1> QED
  BY <1>2, <1>3, Zenon

(* Two of the code's rounds are a double round of the specification. *)
LEMMA TwoRounds == ASSUME NEW x PROVE Round(Round(x)) = DoubleRound(x)
<1> DEFINE y == Round(x)
           z == ColumnRound(x)
<1>1. DoubleRound(x) = RowRound(z)
  BY DEF DoubleRound, RowRound, ColumnRound, Lines, ByColumn, ByRow
<1>2. ASSUME NEW j \in 0 .. 3, NEW m \in 0 .. 3
      PROVE  Round(y)[ByRow(j, m)] = RowRound(z)[ByRow(j, m)]
  <2>1. \A l \in 0 .. 3 : y[ByColumn(j, l)] = z[ByRow(j, l)]
    BY RoundTransposes
  <2> HIDE DEF y, z
  <2>2. 0 \in 0 .. 3 /\ 1 \in 0 .. 3 /\ 2 \in 0 .. 3 /\ 3 \in 0 .. 3
    OBVIOUS
  <2>3. ColumnLine(y, j) = RowLine(z, j)
    BY <2>1, <2>2, Zenon DEF ColumnLine, RowLine
  <2> QED
    BY <2>3, RoundByRow, LinesByRow
<1>3. \A i \in 0 .. 15 : \E j \in 0 .. 3, m \in 0 .. 3 : i = ByRow(j, m)
  <2> SUFFICES ASSUME NEW i \in 0 .. 15
               PROVE  \E j \in 0 .. 3, m \in 0 .. 3 : i = ByRow(j, m)
    OBVIOUS
  <2> DEFINE j == i \div 4
             m == (i - j) % 4
  <2>1. j \in 0 .. 3 /\ m \in 0 .. 3 /\ i = ByRow(j, m)
    BY DEF ByRow
  <2> QED
    BY <2>1, Zenon
<1>4. \A i \in 0 .. 15 : Round(y)[i] = RowRound(z)[i]
  BY <1>2, <1>3, Zenon
<1> DEFINE f == Round(y)
           g == RowRound(z)
<1>5. f = [i \in 0 .. 15 |-> f[i]] /\ g = [i \in 0 .. 15 |-> g[i]]
  <2>1. DOMAIN f = 0 .. 15 /\ f = [i \in DOMAIN f |-> f[i]]
    BY Zenon DEF Round
  <2>2. DOMAIN g = 0 .. 15 /\ g = [i \in DOMAIN g |-> g[i]]
    BY DEF RowRound, Lines
  <2> QED
    BY <2>1, <2>2, Zenon
<1> HIDE DEF f, g
<1>6. \A i \in 0 .. 15 : f[i] = g[i]
  BY <1>4, Zenon DEF f, g
<1>7. f = g
  BY <1>5, <1>6
<1> QED
  BY <1>1, <1>7, Zenon DEF f, g

-----------------------------------------------------------------------------
(* The words *)

Words == 0 .. Word - 1
State == [0 .. 15 -> Words]

LEMMA WordIs == Word \in Nat \ {0} /\ Byte \in Nat \ {0} /\ Word = Byte * Byte /\ Word > 1
<1>1. Byte \in Nat /\ Byte > 1 /\ Word = Byte * Byte
  BY Salsa20Assumption
<1>2. PICK d \in Nat : Byte = d + 2
  <2>1. Byte - 2 \in Nat /\ Byte = (Byte - 2) + 2
    BY <1>1
  <2> QED
    BY <2>1
<1>3. Byte * Byte = Byte * d + Byte * 2 /\ Byte * d \in Nat
  BY <1>2, Distribute
<1> QED
  BY <1>1, <1>3

(* A rotation multiplies by R, and what leaves at the top comes in at the bottom:
   the product's low part is a multiple of R and its high part less than R. *)
LEMMA Rotates ==
  ASSUME NEW W \in Nat \ {0}, NEW R \in Nat \ {0}, W % R = 0, NEW x \in 0 .. W - 1
  PROVE  ((x * R) % W) + ((x * R) \div W) \in 0 .. W - 1
<1> DEFINE V == W \div R
           y == x * R
           high == y \div W
           low == y % W
<1>1. V \in Nat /\ W = R * V
  BY Divided
<1>2. y \in Nat /\ y = R * x /\ x \in Nat /\ x <= W - 1
  OBVIOUS
<1> HIDE DEF y
<1>3. high \in Nat /\ low \in 0 .. W - 1 /\ y = W * high + low
  BY <1>2, Divided
<1> HIDE DEF V, high, low
<1>4. high < R
  <2> SUFFICES ASSUME high >= R PROVE FALSE
    BY <1>3
  <2>1. PICK d \in Nat : high = R + d
    <3>1. high - R \in Nat /\ high = R + (high - R)
      BY <1>3
    <3> QED
      BY <3>1
  <2>2. W * high = W * R + W * d
    BY <2>1, Distribute
  <2>3. W * d \in Nat /\ W * R \in Nat
    BY <2>1
  <2>4. R * x < W * R
    BY <1>2
  <2> QED
    BY <1>2, <1>3, <2>2, <2>3, <2>4
<1> DEFINE s == x - V * high
<1>5. s \in Int /\ low = R * s
  <2>1. V * high \in Int /\ R \in Int
    BY <1>1, <1>3
  <2>2. s \in Int /\ x = V * high + s
    BY <1>2, <2>1
  <2> HIDE DEF s
  <2>3. R * x = R * (V * high) + R * s
    BY <2>1, <2>2, Distribute, Zenon
  <2>4. R * (V * high) = (R * V) * high
    BY <1>1, <1>3
  <2>5. W * high = R * (V * high)
    BY <2>4, <1>1, Zenon
  <2>6. R * s \in Int /\ W * high \in Int /\ low \in Int
    BY <1>3, <2>2
  <2> QED
    BY <1>2, <1>3, <2>2, <2>3, <2>5, <2>6
<1> HIDE DEF s
<1>6. s < V
  <2> SUFFICES ASSUME s >= V PROVE FALSE
    BY <1>1, <1>5
  <2>1. R * s >= R * V
    <3>1. s - V \in Nat /\ s = V + (s - V)
      BY <1>1, <1>5
    <3>2. PICK d \in Nat : s = V + d
      BY <3>1
    <3>3. R * s = R * V + R * d
      BY <3>2, <1>1, Distribute
    <3>4. R * d \in Nat /\ R * V \in Nat
      BY <3>2, <1>1
    <3> QED
      BY <3>3, <3>4
  <2> QED
    BY <1>1, <1>3, <1>5, <2>1
<1>7. low <= W - R
  <2>1. PICK d \in Nat : V = s + 1 + d
    <3>1. V - s - 1 \in Nat /\ V = s + 1 + (V - s - 1)
      BY <1>1, <1>5, <1>6
    <3> QED
      BY <3>1
  <2>2. R * V = R * (s + 1) + R * d
    BY <1>5, <2>1, Distribute
  <2>3. R * (s + 1) = R * s + R * 1
    BY <1>5, Distribute
  <2>4. R * d \in Nat /\ R * 1 = R /\ R * s \in Int
    BY <2>1, <1>5
  <2> QED
    BY <1>1, <1>5, <2>2, <2>3, <2>4
<1>8. low + high \in 0 .. W - 1
  BY <1>3, <1>4, <1>7
<1> QED
  BY <1>8 DEF low, high, y

LEMMA RotatedIsWord == ASSUME NEW x \in Words, NEW i \in 0 .. 3 PROVE L32(x, i) \in Words
<1>1. /\ Word \in Nat \ {0} /\ Rotations[i] \in Nat \ {0} /\ Word % Rotations[i] = 0
      /\ x \in 0 .. Word - 1
  <2>1. Rotations[i] \in 1 .. Word - 1 /\ Word % Rotations[i] = 0
    BY Salsa20Assumption, Zenon
  <2> QED
    BY <2>1, WordIs DEF Words
<1> QED
  BY <1>1, Rotates, Zenon DEF L32, Words

LEMMA PlusIsWord == ASSUME NEW x \in Int, NEW y \in Int PROVE Plus(x, y) \in Words
  BY Salsa20Assumption DEF Plus, Words

LEMMA QuarterRoundWords ==
  ASSUME NEW a \in Words, NEW b \in Words, NEW c \in Words, NEW d \in Words
  PROVE  QuarterRound(a, b, c, d) \in [1 .. 4 -> Words]
<1>1. \A x, y \in Words : XorWords(x, y) \in Words
  BY Salsa20Assumption DEF Words
<1>2. \A x, y \in Words : Plus(x, y) \in Words
  BY PlusIsWord DEF Words
<1>3. \A x \in Words : L32(x, 0) \in Words /\ L32(x, 1) \in Words
                         /\ L32(x, 2) \in Words /\ L32(x, 3) \in Words
  BY RotatedIsWord
<1> DEFINE t1 == XorWords(b, L32(Plus(a, d), 0))
           t2 == XorWords(c, L32(Plus(t1, a), 1))
           t3 == XorWords(d, L32(Plus(t2, t1), 2))
           t0 == XorWords(a, L32(Plus(t3, t2), 3))
<1>4. t1 \in Words
  BY <1>1, <1>2, <1>3, Zenon
<1>5. t2 \in Words
  <2> HIDE DEF t1
  <2> QED
    BY <1>1, <1>2, <1>3, <1>4, Zenon
<1>6. t3 \in Words
  <2> HIDE DEF t1, t2
  <2> QED
    BY <1>1, <1>2, <1>3, <1>4, <1>5, Zenon
<1>7. t0 \in Words
  <2> HIDE DEF t1, t2, t3
  <2> QED
    BY <1>1, <1>2, <1>3, <1>5, <1>6, Zenon
<1>8. QuarterRound(a, b, c, d) = <<t0, t1, t2, t3>>
  BY Zenon DEF QuarterRound
<1> HIDE DEF t0, t1, t2, t3
<1> QED
  BY <1>4, <1>5, <1>6, <1>7, <1>8

LEMMA RoundWords == ASSUME NEW x \in State PROVE Round(x) \in State
<1>1. \A j \in 0 .. 3 : Column(x, j) \in [1 .. 4 -> Words]
  <2> SUFFICES ASSUME NEW j \in 0 .. 3 PROVE Column(x, j) \in [1 .. 4 -> Words]
    OBVIOUS
  <2>1. /\ x[5 * j] \in Words /\ x[(5 * j + 4) % 16] \in Words
        /\ x[(5 * j + 8) % 16] \in Words /\ x[(5 * j + 12) % 16] \in Words
    BY DEF State
  <2> QED
    BY <2>1, QuarterRoundWords, Zenon DEF Column
<1> DEFINE t == <<Column(x, 0), Column(x, 1), Column(x, 2), Column(x, 3)>>
<1>2. \A j \in 0 .. 3 : t[1 + j] = Column(x, j)
  OBVIOUS
<1>3. Round(x) = [i \in 0 .. 15 |-> t[1 + (i \div 4)][1 + ((i - (i \div 4)) % 4)]]
  BY Zenon DEF Round
<1> HIDE DEF t
<1>4. ASSUME NEW i \in 0 .. 15
      PROVE  t[1 + (i \div 4)][1 + ((i - (i \div 4)) % 4)] \in Words
  <2> DEFINE j == i \div 4
             m == (i - (i \div 4)) % 4
  <2>1. j \in 0 .. 3 /\ 1 + m \in 1 .. 4
    OBVIOUS
  <2> HIDE DEF j, m
  <2>2. t[1 + j][1 + m] \in Words
    BY <1>1, <1>2, <2>1
  <2> QED
    BY <2>2 DEF j, m
<1> QED
  BY <1>3, <1>4, Zenon DEF State

LEMMA DoubleRoundWords == ASSUME NEW x \in State PROVE DoubleRound(x) \in State
  BY RoundWords, TwoRounds

(* The twenty rounds of the code are the ten double rounds of the specification. *)
LEMMA RoundsAre ==
  ASSUME NEW x \in State
  PROVE  Rounds(x) = Scrambled(x) /\ Rounds(x) \in State
<1> DEFINE IsAfter(g) == g = [i \in 0 .. 20 |-> IF i = 0 THEN x ELSE Round(g[i - 1])]
           IsDouble(g) == g = [i \in 0 .. 10 |-> IF i = 0 THEN x ELSE DoubleRound(g[i - 1])]
           after == CHOOSE g : IsAfter(g)
           double == CHOOSE g : IsDouble(g)
<1>1. \E g : IsAfter(g)
  <2> DEFINE F == [p \in (1 .. 20) \X State |-> Round(p[2])]
  <2>1. \A i \in 1 .. 20, v \in State : F[<<i, v>>] = Round(v)
    OBVIOUS
  <2> HIDE DEF F
  <2>2. \A i \in 1 .. 20, v \in State : F[<<i, v>>] \in State
    BY <2>1, RoundWords
  <2>3. 20 \in Nat
    OBVIOUS
  <2>4. PICK g : Loops(g, 20, State, x, F)
    BY <2>2, <2>3, LoopExists
  <2>5. \A i \in 1 .. 20 : g[i] = Round(g[i - 1])
    BY <2>1, <2>4 DEF Loops
  <2>6. IsAfter(g)
    BY <2>4, <2>5 DEF Loops
  <2> QED
    BY <2>6
<1>2. \E g : IsDouble(g)
  <2> DEFINE F == [p \in (1 .. 10) \X State |-> DoubleRound(p[2])]
  <2>1. \A i \in 1 .. 10, v \in State : F[<<i, v>>] = DoubleRound(v)
    OBVIOUS
  <2> HIDE DEF F
  <2>2. \A i \in 1 .. 10, v \in State : F[<<i, v>>] \in State
    BY <2>1, DoubleRoundWords
  <2>3. 10 \in Nat
    OBVIOUS
  <2>4. PICK g : Loops(g, 10, State, x, F)
    BY <2>2, <2>3, LoopExists
  <2>5. \A i \in 1 .. 10 : g[i] = DoubleRound(g[i - 1])
    BY <2>1, <2>4 DEF Loops
  <2>6. IsDouble(g)
    BY <2>4, <2>5 DEF Loops
  <2> QED
    BY <2>6
<1>3. Rounds(x) = after[20] /\ Scrambled(x) = double[10]
  BY Zenon DEF Rounds, Scrambled
<1>4. IsAfter(after)
  BY <1>1, Zenon
<1>5. IsDouble(double)
  BY <1>2, Zenon
<1> HIDE DEF after, double
<1>6. after[0] = x /\ \A i \in 1 .. 20 : after[i] = Round(after[i - 1])
  BY <1>4
<1>7. double[0] = x /\ \A i \in 1 .. 10 : double[i] = DoubleRound(double[i - 1])
  BY <1>5
<1> HIDE DEF IsAfter, IsDouble
<1> DEFINE S == {k \in 0 .. 10 : after[2 * k] = double[k] /\ after[2 * k] \in State}
<1>8. 0 \in S
  BY <1>6, <1>7
<1>9. \A k \in 0 .. 9 : k \in S => k + 1 \in S
  <2> SUFFICES ASSUME NEW k \in 0 .. 9, k \in S PROVE k + 1 \in S
    OBVIOUS
  <2>1. /\ 2 * k + 1 \in 1 .. 20 /\ 2 * k + 2 \in 1 .. 20 /\ k + 1 \in 1 .. 10
        /\ (2 * k + 1) - 1 = 2 * k /\ (2 * k + 2) - 1 = 2 * k + 1
        /\ (k + 1) - 1 = k /\ 2 * (k + 1) = 2 * k + 2 /\ k + 1 \in 0 .. 10
    OBVIOUS
  <2>2. after[2 * k] = double[k] /\ after[2 * k] \in State
    OBVIOUS
  <2>3. after[2 * k + 1] = Round(after[2 * k]) /\ after[2 * k + 2] = Round(after[2 * k + 1])
    BY <1>6, <2>1, Zenon
  <2>4. after[2 * k + 2] \in State
    BY <2>2, <2>3, RoundWords
  <2>5. double[k + 1] = DoubleRound(double[k])
    BY <1>7, <2>1, Zenon
  <2>6. after[2 * k + 2] = double[k + 1]
    BY <2>2, <2>3, <2>5, TwoRounds, Zenon
  <2>7. after[2 * (k + 1)] = double[k + 1] /\ after[2 * (k + 1)] \in State
    BY <2>1, <2>4, <2>6, Zenon
  <2> QED
    BY <2>1, <2>7
<1> HIDE DEF S
<1>10. 10 \in S
  <2>1. 10 \in Nat /\ 10 - 1 = 9 /\ 10 \in 0 .. 10
    OBVIOUS
  <2> QED
    BY <1>8, <1>9, <2>1, UpTo, Zenon
<1>11. 2 * 10 = 20
  OBVIOUS
<1> QED
  BY <1>3, <1>10, <1>11 DEF S

-----------------------------------------------------------------------------
(* One block *)

LEMMA LoadWords ==
  ASSUME NEW in \in [0 .. 3 -> Words], NEW k \in [0 .. 7 -> Words], NEW c \in [0 .. 3 -> Words]
  PROVE  Load(in, k, c) \in State
<1>1. ASSUME NEW i \in 0 .. 15 PROVE Load(in, k, c)[i] \in Words
  <2>1. CASE i \in {0, 5, 10, 15}
    BY <2>1 DEF Load
  <2>2. CASE i \in 1 .. 4
    BY <2>2 DEF Load
  <2>3. CASE i \in 6 .. 9
    BY <2>3 DEF Load
  <2>4. CASE i \in 11 .. 14
    BY <2>4 DEF Load
  <2> QED
    BY <2>1, <2>2, <2>3, <2>4
<1>2. Load(in, k, c) = [i \in 0 .. 15 |-> Load(in, k, c)[i]]
  BY DEF Load
<1> QED
  BY <1>1, <1>2, Zenon DEF State

(* What the code adds and subtracts again leaves the word. *)
LEMMA Undone == ASSUME NEW z \in Words, NEW c \in Words PROVE (Plus(z, c) - c) % Word = z
<1>1. Word \in Nat \ {0} /\ z \in 0 .. Word - 1 /\ c \in 0 .. Word - 1
  BY WordIs DEF Words
<1>2. CASE z + c < Word
  <2>1. Word * 0 + (z + c) = z + c /\ Word * 0 + z = z /\ z + c \in 0 .. Word - 1
    BY <1>1, <1>2
  <2>2. (Word * 0 + (z + c)) % Word = z + c /\ (Word * 0 + z) % Word = z
    <3>1. 0 \in Int
      OBVIOUS
    <3> QED
      BY <1>1, <2>1, <3>1, ModOf, Zenon
  <2>3. (z + c) - c = z
    BY <1>1
  <2> QED
    BY <2>1, <2>2, <2>3, Zenon DEF Plus
<1>3. CASE z + c >= Word
  <2>1. /\ Word * 1 + (z + c - Word) = z + c /\ z + c - Word \in 0 .. Word - 1
        /\ Word * (-1) + z = (z + c - Word) - c
    BY <1>1, <1>3
  <2>2. /\ (Word * 1 + (z + c - Word)) % Word = z + c - Word
        /\ (Word * (-1) + z) % Word = z
    <3>1. 1 \in Int /\ -1 \in Int
      OBVIOUS
    <3> QED
      BY <1>1, <2>1, <3>1, ModOf, Zenon
  <2> QED
    BY <2>1, <2>2, Zenon DEF Plus
<1> QED
  BY <1>1, <1>2, <1>3

(* The eight words of the scrambled state that make the key: its diagonal and the
   input's places. *)
DerivedKey(in, k, c) ==
    LET z == Scrambled(Load(in, k, c))
    IN  [i \in 0 .. 7 |-> z[IF i < 4 THEN 5 * i ELSE i + 2]]

(* They are what the code derives, although it adds and subtracts on the way. *)
LEMMA KeyIs ==
  ASSUME NEW in \in [0 .. 3 -> Words], NEW k \in [0 .. 7 -> Words], NEW c \in [0 .. 3 -> Words]
  PROVE  /\ crypto_core_hsalsa20(in, k, c) = DerivedKey(in, k, c)
         /\ DerivedKey(in, k, c) \in [0 .. 7 -> Words]
<1> DEFINE y == Load(in, k, c)
           z == Rounds(y)
           x == [i \in 0 .. 15 |-> Plus(z[i], y[i])]
           key == [i \in 0 .. 7 |-> z[IF i < 4 THEN 5 * i ELSE i + 2]]
           got == [i \in 0 .. 7 |-> IF i < 4 THEN (x[5 * i] - c[i]) % Word
                                             ELSE (x[2 + i] - in[i - 4]) % Word]
<1>1. y \in State
  BY LoadWords
<1>2. z = Scrambled(y) /\ z \in State
  BY <1>1, RoundsAre
<1>3. crypto_core_hsalsa20(in, k, c) = got
  BY Zenon DEF crypto_core_hsalsa20
<1>4. /\ \A i \in 0 .. 3 : y[5 * i] = c[i]
      /\ \A i \in 4 .. 7 : y[2 + i] = in[i - 4]
  <2>1. ASSUME NEW i \in 0 .. 3 PROVE y[5 * i] = c[i]
    <3>1. 5 * i \in {0, 5, 10, 15} /\ (5 * i) \div 5 = i /\ 5 * i \in 0 .. 15
      OBVIOUS
    <3> QED
      BY <3>1 DEF Load
  <2>2. ASSUME NEW i \in 4 .. 7 PROVE y[2 + i] = in[i - 4]
    <3>1. /\ 2 + i \in 6 .. 9 /\ (2 + i) - 6 = i - 4 /\ 2 + i \in 0 .. 15
          /\ 2 + i \notin {0, 5, 10, 15} /\ 2 + i \notin 1 .. 4 /\ 2 + i \notin 11 .. 14
      OBVIOUS
    <3> QED
      BY <3>1 DEF Load
  <2> QED
    BY <2>1, <2>2
<1> HIDE DEF y, z
<1>5. ASSUME NEW i \in 0 .. 7 PROVE got[i] = key[i] /\ key[i] \in Words
  <2>1. CASE i < 4
    <3>1. i \in 0 .. 3 /\ 5 * i \in 0 .. 15
      BY <2>1
    <3>2. z[5 * i] \in Words /\ c[i] \in Words
      BY <1>2, <3>1 DEF State
    <3>3. (Plus(z[5 * i], c[i]) - c[i]) % Word = z[5 * i]
      BY <3>2, Undone
    <3>4. got[i] = (Plus(z[5 * i], c[i]) - c[i]) % Word /\ key[i] = z[5 * i]
      BY <1>4, <2>1, <3>1
    <3> QED
      BY <3>2, <3>3, <3>4
  <2>2. CASE ~(i < 4)
    <3>1. i \in 4 .. 7 /\ 2 + i \in 0 .. 15 /\ i - 4 \in 0 .. 3 /\ i + 2 = 2 + i
      BY <2>2
    <3>2. z[2 + i] \in Words /\ in[i - 4] \in Words
      BY <1>2, <3>1 DEF State
    <3>3. (Plus(z[2 + i], in[i - 4]) - in[i - 4]) % Word = z[2 + i]
      BY <3>2, Undone
    <3>4. got[i] = (Plus(z[2 + i], in[i - 4]) - in[i - 4]) % Word /\ key[i] = z[2 + i]
      BY <1>4, <2>2, <3>1
    <3> QED
      BY <3>2, <3>3, <3>4
  <2> QED
    BY <2>1, <2>2
<1>6. got = key /\ key \in [0 .. 7 -> Words]
  BY <1>5
<1> QED
  BY <1>2, <1>3, <1>6, Zenon DEF y, DerivedKey

(* A counter's two words. *)
Low(z) == z[1] + Byte * z[2]
High(z) == z[3] + Byte * z[4]
Digits == [1 .. 4 -> 0 .. Byte - 1]

LEMMA PairIsWord ==
  ASSUME NEW a \in 0 .. Byte - 1, NEW b \in 0 .. Byte - 1
  PROVE  a + Byte * b \in Words
<1>1. Byte \in Nat \ {0} /\ Word = Byte * Byte
  BY WordIs
<1>2. PICK d \in Nat : Byte = b + 1 + d
  <2>1. Byte - b - 1 \in Nat /\ Byte = b + 1 + (Byte - b - 1)
    BY <1>1
  <2> QED
    BY <2>1
<1>3. Byte * Byte = Byte * (b + 1) + Byte * d
  BY <1>1, <1>2, Distribute
<1>4. Byte * (b + 1) = Byte * b + Byte * 1
  BY <1>1, Distribute
<1>5. Byte * d \in Nat /\ Byte * b \in Nat /\ Byte * 1 = Byte
  BY <1>1, <1>2
<1> QED
  BY <1>1, <1>3, <1>4, <1>5 DEF Words

LEMMA InputWords ==
  ASSUME NEW in \in StreamInputs
  PROVE  /\ in.k \in [0 .. 7 -> Words] /\ [i \in 0 .. 3 |-> in.n[i]] \in [0 .. 3 -> Words]
         /\ in.n[4] \in Words /\ in.n[5] \in Words /\ sigma \in [0 .. 3 -> Words]
<1>1. in.k \in [0 .. 7 -> Words] /\ in.n \in [0 .. 5 -> Words] /\ sigma \in [0 .. 3 -> Words]
  BY Salsa20Assumption, Zenon DEF Words
<1> QED
  BY <1>1

(* The input of a block: two words of the nonce and the counter's two, and the
   block the specification makes of it. *)
InputOf(in, low, high) ==
    [i \in 0 .. 3 |-> CASE i < 2 -> in.n[4 + i] [] i = 2 -> low [] i = 3 -> high]

NonceOf(in) == [i \in 0 .. 3 |-> in.n[i]]

BlockOf(input, key) ==
    [i \in 0 .. 15 |-> Plus(Load(input, key, sigma)[i], Scrambled(Load(input, key, sigma))[i])]

LEMMA SpecBlockIs ==
  ASSUME NEW in, NEW index
  PROVE  SpecBlock(in, index) = BlockOf(InputOf(in, index % Word, index \div Word),
                                        DerivedKey(NonceOf(in), in.k, sigma))
BY DEF SpecBlock, BlockOf, InputOf, DerivedKey, NonceOf

LEMMA BlockForIs ==
  ASSUME NEW in, NEW z
  PROVE  BlockFor(in, z) = crypto_core_salsa20(InputOf(in, Low(z), High(z)),
                               crypto_core_hsalsa20(NonceOf(in), in.k, sigma), sigma)
BY DEF BlockFor, InputOf, NonceOf, Low, High

LEMMA InputIs ==
  ASSUME NEW in \in StreamInputs, NEW low \in Words, NEW high \in Words
  PROVE  InputOf(in, low, high) \in [0 .. 3 -> Words]
<1>1. in.n[4 + 0] \in Words /\ in.n[4 + 1] \in Words
  BY InputWords
<1>2. ASSUME NEW i \in 0 .. 3 PROVE InputOf(in, low, high)[i] \in Words
  <2>1. i = 0 \/ i = 1 \/ i = 2 \/ i = 3
    OBVIOUS
  <2> QED
    BY <1>1, <2>1 DEF InputOf
<1>3. InputOf(in, low, high) = [i \in 0 .. 3 |-> InputOf(in, low, high)[i]]
  BY DEF InputOf
<1> QED
  BY <1>2, <1>3, Zenon

(* The code's core is the specification's block. *)
LEMMA CoreIs ==
  ASSUME NEW input \in [0 .. 3 -> Words], NEW key \in [0 .. 7 -> Words]
  PROVE  /\ crypto_core_salsa20(input, key, sigma) = BlockOf(input, key)
         /\ BlockOf(input, key) \in State
<1> DEFINE x == Load(input, key, sigma)
           y == Rounds(x)
<1>1. sigma \in [0 .. 3 -> Words]
  BY Salsa20Assumption, Zenon DEF Words
<1>2. x \in State
  BY <1>1, LoadWords
<1> HIDE DEF x
<1>3. y = Scrambled(x) /\ y \in State
  BY <1>2, RoundsAre
<1>4. crypto_core_salsa20(input, key, sigma) = [i \in 0 .. 15 |-> Plus(y[i], x[i])]
  BY Zenon DEF crypto_core_salsa20, x
<1>5. BlockOf(input, key) = [i \in 0 .. 15 |-> Plus(x[i], y[i])]
  BY <1>3, Zenon DEF BlockOf, x
<1> HIDE DEF y
<1>6. \A i \in 0 .. 15 : y[i] \in Int /\ x[i] \in Int
  BY <1>2, <1>3, WordIs DEF State, Words
<1>7. \A i \in 0 .. 15 : Plus(y[i], x[i]) = Plus(x[i], y[i]) /\ Plus(x[i], y[i]) \in Words
  <2>1. \A i \in 0 .. 15 : y[i] + x[i] = x[i] + y[i]
    BY <1>6
  <2> QED
    BY <1>6, <2>1, PlusIsWord, Zenon DEF Plus
<1>8. [i \in 0 .. 15 |-> Plus(y[i], x[i])] = [i \in 0 .. 15 |-> Plus(x[i], y[i])]
      /\ [i \in 0 .. 15 |-> Plus(x[i], y[i])] \in State
  BY <1>7, Zenon DEF State
<1> QED
  BY <1>4, <1>5, <1>8, Zenon

(* The block of a counter is the specification's block of its value. *)
LEMMA BlockIs ==
  ASSUME NEW in \in StreamInputs, NEW z \in Digits, NEW index,
         Low(z) = index % Word, High(z) = index \div Word
  PROVE  BlockFor(in, z) = SpecBlock(in, index) /\ BlockFor(in, z) \in State
<1>1. Low(z) \in Words /\ High(z) \in Words
  BY PairIsWord DEF Digits, Low, High
<1>2. InputOf(in, Low(z), High(z)) \in [0 .. 3 -> Words]
  BY <1>1, InputIs
<1>3. NonceOf(in) \in [0 .. 3 -> Words] /\ in.k \in [0 .. 7 -> Words]
      /\ sigma \in [0 .. 3 -> Words]
  BY InputWords, Zenon DEF NonceOf
<1>4. /\ crypto_core_hsalsa20(NonceOf(in), in.k, sigma) = DerivedKey(NonceOf(in), in.k, sigma)
      /\ DerivedKey(NonceOf(in), in.k, sigma) \in [0 .. 7 -> Words]
  BY <1>3, KeyIs
<1> QED
  BY <1>2, <1>4, CoreIs, BlockForIs, SpecBlockIs, Zenon

-----------------------------------------------------------------------------
(* The counter *)

CounterValue(z) == Low(z) + Word * High(z)

(* What a pair of digits and a carry c into it make. *)
PairCarried(a, b, c, u, v) ==
    /\ u % Byte \in 0 .. Byte - 1 /\ v % Byte \in 0 .. Byte - 1
    /\ v \div Byte \in Nat
    /\ (u % Byte) + Byte * (v % Byte) + Word * (v \div Byte) = a + Byte * b + c

LEMMA PairCarries ==
  ASSUME NEW a \in Nat, NEW b \in Nat, NEW c \in Nat, NEW u, NEW v,
         u = a + c, v = b + (u \div Byte)
  PROVE  PairCarried(a, b, c, u, v)
<1> DEFINE r == u % Byte
           q == u \div Byte
           s == v % Byte
           p == v \div Byte
<1>1. Byte \in Nat \ {0} /\ Word = Byte * Byte
  BY WordIs
<1>2. u \in Nat
  OBVIOUS
<1>3. q \in Nat /\ r \in 0 .. Byte - 1 /\ u = Byte * q + r
  BY <1>1, <1>2, Divided
<1> HIDE DEF q, r
<1>4. v \in Nat /\ v = b + q
  BY <1>3 DEF q
<1>5. p \in Nat /\ s \in 0 .. Byte - 1 /\ v = Byte * p + s
  BY <1>1, <1>4, Divided
<1> HIDE DEF p, s
<1>6. r + Byte * s + Word * p = a + Byte * b + c
  <2>1. Byte * v = Byte * (Byte * p) + Byte * s
    BY <1>1, <1>5, Distribute
  <2>2. Byte * v = Byte * b + Byte * q
    BY <1>1, <1>3, <1>4, Distribute
  <2>3. Byte * (Byte * p) = Word * p
    BY <1>1, <1>5
  <2>4. a + c = Byte * q + r
    BY <1>3
  <2>5. /\ Byte * v \in Int /\ Byte * q \in Int /\ Byte * b \in Int /\ Byte * s \in Int
        /\ Word * p \in Int
    BY <1>1, <1>3, <1>4, <1>5
  <2> QED
    BY <1>3, <2>1, <2>2, <2>3, <2>4, <2>5
<1> QED
  BY <1>3, <1>5, <1>6, Zenon DEF q, r, p, s, PairCarried

(* Below the counter's last value the code's increment adds one. *)
LEMMA IncrementIs ==
  ASSUME NEW z \in Digits, CounterValue(z) + 1 < Word * Word
  PROVE  Increment(z) \in Digits /\ CounterValue(Increment(z)) = CounterValue(z) + 1
<1> DEFINE IsCarry(g) == g = [i \in 1 .. 4 |-> z[i] + IF i = 1 THEN 1 ELSE g[i - 1] \div Byte]
           u == CHOOSE g : IsCarry(g)
           y == Increment(z)
<1>1. \E g : IsCarry(g)
  <2> DEFINE g1 == z[1] + 1
             g2 == z[2] + (g1 \div Byte)
             g3 == z[3] + (g2 \div Byte)
             g4 == z[4] + (g3 \div Byte)
             g == [i \in 1 .. 4 |-> CASE i = 1 -> g1 [] i = 2 -> g2 [] i = 3 -> g3 [] i = 4 -> g4]
  <2>1. /\ g1 = z[1] + 1 /\ g2 = z[2] + (g1 \div Byte) /\ g3 = z[3] + (g2 \div Byte)
        /\ g4 = z[4] + (g3 \div Byte)
    OBVIOUS
  <2> HIDE DEF g1, g2, g3, g4
  <2>2. g[1] = g1 /\ g[2] = g2 /\ g[3] = g3 /\ g[4] = g4
    OBVIOUS
  <2>3. g = [i \in 1 .. 4 |-> g[i]]
    OBVIOUS
  <2> HIDE DEF g
  <2>4. \A i \in 1 .. 4 : g[i] = z[i] + IF i = 1 THEN 1 ELSE g[i - 1] \div Byte
    <3> SUFFICES ASSUME NEW i \in 1 .. 4
                 PROVE  g[i] = z[i] + IF i = 1 THEN 1 ELSE g[i - 1] \div Byte
      OBVIOUS
    <3>1. i = 1 \/ i = 2 \/ i = 3 \/ i = 4
      OBVIOUS
    <3>2. 2 - 1 = 1 /\ 3 - 1 = 2 /\ 4 - 1 = 3
      OBVIOUS
    <3> QED
      BY <2>1, <2>2, <3>1, <3>2
  <2>5. IsCarry(g)
    BY <2>3, <2>4
  <2> QED
    BY <2>5, Zenon
<1>2. IsCarry(u)
  BY <1>1, Zenon
<1>3. y = [i \in 1 .. 4 |-> u[i] % Byte]
  BY Zenon DEF Increment
<1> HIDE DEF u
<1>4. /\ u[1] = z[1] + 1 /\ u[2] = z[2] + (u[1] \div Byte) /\ u[3] = z[3] + (u[2] \div Byte)
      /\ u[4] = z[4] + (u[3] \div Byte)
  <2>1. \A i \in 1 .. 4 : u[i] = z[i] + IF i = 1 THEN 1 ELSE u[i - 1] \div Byte
    BY <1>2
  <2>2. /\ 1 \in 1 .. 4 /\ 2 \in 1 .. 4 /\ 3 \in 1 .. 4 /\ 4 \in 1 .. 4
        /\ 2 - 1 = 1 /\ 3 - 1 = 2 /\ 4 - 1 = 3 /\ 2 # 1 /\ 3 # 1 /\ 4 # 1
    OBVIOUS
  <2> QED
    BY <2>1, <2>2
<1> HIDE DEF IsCarry
<1> DEFINE c2 == u[2] \div Byte
           c4 == u[4] \div Byte
<1>5. Byte \in Nat \ {0} /\ Word \in Nat \ {0}
  BY WordIs
<1>6. z[1] \in Nat /\ z[2] \in Nat /\ z[3] \in Nat /\ z[4] \in Nat
  BY <1>5 DEF Digits
<1>7. /\ u[1] % Byte \in 0 .. Byte - 1 /\ u[2] % Byte \in 0 .. Byte - 1 /\ c2 \in Nat
      /\ (u[1] % Byte) + Byte * (u[2] % Byte) + Word * c2 = z[1] + Byte * z[2] + 1
  <2>1. 1 \in Nat
    OBVIOUS
  <2>2. PairCarried(z[1], z[2], 1, u[1], u[2])
    BY <1>4, <1>6, <2>1, PairCarries, Zenon
  <2> QED
    BY <2>2, Zenon DEF PairCarried
<1> HIDE DEF c2
<1>8. /\ u[3] % Byte \in 0 .. Byte - 1 /\ u[4] % Byte \in 0 .. Byte - 1 /\ c4 \in Nat
      /\ (u[3] % Byte) + Byte * (u[4] % Byte) + Word * c4 = z[3] + Byte * z[4] + c2
  <2>1. PairCarried(z[3], z[4], c2, u[3], u[4])
    BY <1>4, <1>6, <1>7, PairCarries, Zenon DEF c2
  <2> QED
    BY <2>1, Zenon DEF PairCarried
<1> HIDE DEF c4
<1>9. /\ y[1] = u[1] % Byte /\ y[2] = u[2] % Byte /\ y[3] = u[3] % Byte /\ y[4] = u[4] % Byte
  BY <1>3
<1>10. y \in Digits
  <2>1. \A i \in 1 .. 4 : u[i] % Byte \in 0 .. Byte - 1
    <3> SUFFICES ASSUME NEW i \in 1 .. 4 PROVE u[i] % Byte \in 0 .. Byte - 1
      OBVIOUS
    <3>1. i = 1 \/ i = 2 \/ i = 3 \/ i = 4
      OBVIOUS
    <3> QED
      BY <1>7, <1>8, <3>1
  <2> QED
    BY <1>3, <2>1, Zenon DEF Digits
<1> HIDE DEF y
<1>11. Low(y) + Word * c2 = Low(z) + 1 /\ High(y) + Word * c4 = High(z) + c2
  BY <1>7, <1>8, <1>9 DEF Low, High
<1>12. Low(y) \in Nat /\ High(y) \in Nat /\ Low(z) \in Nat /\ High(z) \in Nat
  BY <1>5, <1>6, <1>10 DEF Digits, Low, High
<1>13. CounterValue(y) + (Word * Word) * c4 = CounterValue(z) + 1
  <2>1. Word * (High(y) + Word * c4) = Word * High(y) + Word * (Word * c4)
    BY <1>5, <1>8, <1>12, Distribute
  <2>2. Word * (High(z) + c2) = Word * High(z) + Word * c2
    BY <1>5, <1>7, <1>12, Distribute
  <2>3. Word * (Word * c4) = (Word * Word) * c4
    BY <1>5, <1>8
  <2>4. /\ Word * High(y) \in Int /\ Word * High(z) \in Int /\ Word * c2 \in Int
        /\ (Word * Word) * c4 \in Int
    BY <1>5, <1>7, <1>8, <1>12
  <2>5. Word * High(y) + (Word * Word) * c4 = Word * High(z) + Word * c2
    BY <1>11, <2>1, <2>2, <2>3, Zenon
  <2> QED
    BY <1>11, <1>12, <2>4, <2>5 DEF CounterValue
<1>14. c4 = 0
  <2> SUFFICES ASSUME c4 # 0 PROVE FALSE
    OBVIOUS
  <2>1. PICK d \in Nat : c4 = 1 + d
    <3>1. c4 - 1 \in Nat /\ c4 = 1 + (c4 - 1)
      BY <1>8
    <3> QED
      BY <3>1
  <2>2. Word * Word \in Nat
    BY <1>5
  <2>3. (Word * Word) * c4 = (Word * Word) * 1 + (Word * Word) * d
    BY <2>1, <2>2, Distribute
  <2>4. (Word * Word) * 1 = Word * Word /\ (Word * Word) * d \in Nat
    BY <2>1, <2>2
  <2>5. CounterValue(y) \in Nat /\ CounterValue(z) \in Nat
    BY <1>5, <1>12 DEF CounterValue
  <2> QED
    BY <1>13, <2>2, <2>3, <2>4, <2>5
<1>15. CounterValue(y) = CounterValue(z) + 1
  <2>1. (Word * Word) * 0 = 0 /\ CounterValue(y) \in Nat
    BY <1>5, <1>12 DEF CounterValue
  <2> QED
    BY <1>13, <1>14, <2>1
<1> QED
  BY <1>10, <1>15 DEF y

(* The two words of a counter are its value's remainder and quotient. *)
LEMMA CounterWords ==
  ASSUME NEW z \in Digits
  PROVE  Low(z) = CounterValue(z) % Word /\ High(z) = CounterValue(z) \div Word /\ CounterValue(z) \in Nat
<1>1. Low(z) \in 0 .. Word - 1 /\ High(z) \in 0 .. Word - 1 /\ Word \in Nat \ {0}
  BY PairIsWord, WordIs DEF Low, High, Digits, Words
<1>2. CounterValue(z) = Word * High(z) + Low(z) /\ High(z) \in Int
  BY <1>1 DEF CounterValue
<1>3. CounterValue(z) \in Nat
  BY <1>1 DEF CounterValue
<1> QED
  BY <1>1, <1>2, <1>3, ModOf, Zenon

-----------------------------------------------------------------------------
(* The stream *)

KeyBlocks == UNION {[0 .. k -> Words] : k \in 0 .. 15}

StreamInv ==
    /\ st_pc \in {"idle", "loop", "done"}
    /\ st_left \in Nat
    /\ st_z \in Digits
    /\ st_out \in Seq(KeyBlocks)
    /\ st_pc = "idle" => st_z = Counter /\ st_out = <<>>
    /\ st_pc # "idle" => st_in \in StreamInputs
    /\ st_pc = "loop" => /\ CounterValue(st_z) = Len(st_out)
                         /\ 16 * Len(st_out) + st_left <= MaxStream
    /\ StreamIsXSalsa20

(* A further block, whole or cut, that is the stream's next. *)
LEMMA NextBlock ==
  ASSUME NEW in, NEW out \in Seq(KeyBlocks), NEW written \in KeyBlocks,
         \A j \in DOMAIN written : written[j] = SpecBlock(in, Len(out))[j],
         st_out' = Append(out, written), st_in' = in
  PROVE  StreamIsXSalsa20' /\ st_out' \in Seq(KeyBlocks)
<1>1. /\ st_out' \in Seq(KeyBlocks) /\ Len(st_out') = Len(out) + 1
      /\ st_out'[Len(st_out')] = written /\ Len(out) \in Nat
  <2>1. Append(out, written) \in Seq(KeyBlocks) /\ Len(Append(out, written)) = Len(out) + 1
    OBVIOUS
  <2>2. Append(out, written)[Len(out) + 1] = written
    OBVIOUS
  <2> QED
    BY <2>1, <2>2
<1>2. Len(st_out') - 1 = Len(out)
  BY <1>1
<1> QED
  BY <1>1, <1>2 DEF StreamIsXSalsa20

LEMMA StreamInvStep == StreamInv /\ [Salsa20Next]_salsa20Vars => StreamInv'
<1> SUFFICES ASSUME StreamInv, [Salsa20Next]_salsa20Vars PROVE StreamInv'
  OBVIOUS
<1> USE DEF StreamInv
<1>1. ASSUME NEW in \in StreamInputs, NEW b \in StreamLengths, StreamStart(in, b)
      PROVE  StreamInv'
  <2>1. b \in Nat
    BY Salsa20Assumption
  <2>2. st_out' = <<>> /\ st_out' \in Seq(KeyBlocks) /\ st_z' = Counter /\ st_z' \in Digits
    BY <1>1 DEF StreamStart
  <2>3. CounterValue(Counter) = 0
    BY WordIs DEF CounterValue, Low, High, Counter
  <2>4. StreamIsXSalsa20'
    BY <2>2 DEF StreamIsXSalsa20
  <2>5. Len(st_out') = 0
    BY <2>2
  <2>6. 16 * Len(st_out') + st_left' <= MaxStream
    BY <1>1, <2>1, <2>5 DEF StreamStart
  <2> QED
    BY <1>1, <2>1, <2>2, <2>3, <2>4, <2>5, <2>6 DEF StreamStart
<1>2. CASE StreamBlock
  <2> DEFINE block == BlockFor(st_in, st_z)
  <2>1. /\ st_pc = "loop" /\ st_left >= 16 /\ st_out' = Append(st_out, block)
        /\ st_z' = Increment(st_z) /\ st_left' = st_left - 16 /\ st_pc' = st_pc /\ st_in' = st_in
    BY <1>2, Zenon DEF StreamBlock
  <2>2. st_in \in StreamInputs /\ CounterValue(st_z) = Len(st_out) /\ Len(st_out) \in Nat
    BY <2>1
  <2>3. block = SpecBlock(st_in, Len(st_out)) /\ block \in State
    BY <2>2, CounterWords, BlockIs
  <2> HIDE DEF block
  <2>4. block \in KeyBlocks
    <3>1. 15 \in 0 .. 15
      OBVIOUS
    <3> QED
      BY <2>3, <3>1, Zenon DEF State, KeyBlocks
  <2>5. StreamIsXSalsa20' /\ st_out' \in Seq(KeyBlocks)
    BY <2>1, <2>3, <2>4, NextBlock
  <2>6. Len(st_out') = Len(st_out) + 1
    BY <2>1, <2>4
  <2>7. 16 * Len(st_out') + st_left' <= MaxStream /\ st_left' \in Nat
    BY <2>1, <2>2, <2>6, Salsa20Assumption
  <2>8. CounterValue(st_z) + 1 < Word * Word
    <3>1. MaxStream \in Nat /\ MaxStream < 16 * Word * Word /\ Word \in Nat
      BY Salsa20Assumption, WordIs
    <3>2. 16 * Word * Word = 16 * (Word * Word) /\ Word * Word \in Nat
      BY <3>1
    <3> QED
      BY <2>1, <2>2, <3>1, <3>2
  <2>9. st_z' \in Digits /\ CounterValue(st_z') = CounterValue(st_z) + 1
    BY <2>1, <2>8, IncrementIs
  <2> QED
    BY <2>1, <2>2, <2>5, <2>6, <2>7, <2>9
<1>3. CASE StreamRest
  <2> DEFINE block == BlockFor(st_in, st_z)
             head == [i \in 0 .. st_left - 1 |-> block[i]]
  <2>1. /\ st_pc = "loop" /\ st_left < 16 /\ st_left' = 0 /\ st_pc' = "done"
        /\ st_z' = st_z /\ st_in' = st_in
    BY <1>3, Zenon DEF StreamRest
  <2>2. IF st_left = 0 THEN st_out' = st_out ELSE st_out' = Append(st_out, head)
    BY <1>3, Zenon DEF StreamRest
  <2>3. st_in \in StreamInputs /\ CounterValue(st_z) = Len(st_out) /\ Len(st_out) \in Nat
    BY <2>1
  <2>4. block = SpecBlock(st_in, Len(st_out)) /\ block \in State
    BY <2>3, CounterWords, BlockIs
  <2> HIDE DEF block
  <2>5. CASE st_left = 0
    <3>1. StreamIsXSalsa20'
      BY <2>1, <2>2, <2>5 DEF StreamIsXSalsa20
    <3> QED
      BY <2>1, <2>2, <2>5, <3>1
  <2>6. CASE st_left # 0
    <3>1. st_left - 1 \in 0 .. 15 /\ \A i \in 0 .. st_left - 1 : i \in 0 .. 15
      BY <2>1, <2>6
    <3>2. head \in [0 .. st_left - 1 -> Words]
      BY <2>4, <3>1 DEF State
    <3>3. \A j \in DOMAIN head : head[j] = SpecBlock(st_in, Len(st_out))[j]
      BY <2>4
    <3> HIDE DEF head
    <3>4. head \in KeyBlocks
      BY <3>1, <3>2, Zenon DEF KeyBlocks
    <3>5. StreamIsXSalsa20' /\ st_out' \in Seq(KeyBlocks)
      BY <2>1, <2>2, <2>6, <3>3, <3>4, NextBlock
    <3> QED
      BY <2>1, <2>3, <3>5
  <2> QED
    BY <2>5, <2>6
<1>4. CASE StreamReturn
  <2>1. Counter \in Digits /\ <<>> \in Seq(KeyBlocks)
    BY WordIs DEF Counter, Digits
  <2> QED
    BY <1>4, <2>1 DEF StreamReturn, StreamIsXSalsa20
<1>5. CASE UNCHANGED salsa20Vars
  BY <1>5 DEF salsa20Vars, StreamIsXSalsa20
<1> QED
  BY <1>1, <1>2, <1>3, <1>4, <1>5 DEF Salsa20Next

(* Every block of the key stream is the Salsa20 block of its own index, for every
   width of the words, exclusive or, key, nonce and length: so also after every
   carry of the counter. *)
THEOREM StreamIsSalsa20 == Salsa20Spec => []StreamIsXSalsa20
<1>1. Salsa20Init => StreamInv
  <2>1. Counter \in Digits
    BY WordIs DEF Counter, Digits
  <2> QED
    BY <2>1 DEF Salsa20Init, StreamInv, StreamIsXSalsa20
<1>2. StreamInv => StreamIsXSalsa20
  BY DEF StreamInv
<1> QED
  BY <1>1, StreamInvStep, <1>2, PTL DEF Salsa20Spec

-----------------------------------------------------------------------------
(* Poly1305: the sums *)

LEMMA LimbsAre ==
  /\ Limbs \in Nat /\ Radix \in Nat /\ Limbs > 4 /\ Radix >= 8 /\ Limbs <= Radix
  /\ Top \in Nat /\ Top >= 4 /\ Limbs = Top + 1 /\ Index = 0 .. Top
BY Poly1305Assumption DEF Top, Index

(* What holds of 0, and of k + 1 if it holds of k, holds of every limb. *)
LEMMA EveryLimb ==
  ASSUME NEW S, 0 \in S, \A k \in 0 .. Top - 1 : k \in S => k + 1 \in S
  PROVE  \A k \in Index : k \in S
<1>1. Top \in Nat /\ Index = 0 .. Top
  BY LimbsAre
<1> QED
  BY <1>1, UpTo, Zenon

(* The sums and the values of the model are those of NumberLemmas. *)
LEMMA SumIs == ASSUME NEW f PROVE SumOver(f) = SumTo(Top, f)
  BY Zenon DEF SumOver, SumTo, Index, Top

LEMMA ValueIs == ASSUME NEW x PROVE Value(x) = ValueIn(Top, Power, x)
  BY SumIs, Zenon DEF Value, ValueIn, Index, Top

LEMMA SumType == ASSUME NEW f \in [Index -> Int] PROVE SumOver(f) \in Int
  BY LimbsAre, SumIs, SumToType, Zenon

-----------------------------------------------------------------------------
(* Poly1305: numbers in limbs *)

LEMMA PowerIs ==
  /\ Power[0] = 1
  /\ \A j \in 1 .. Limbs : Power[j] = Radix * Power[j - 1]
  /\ \A j \in 0 .. Limbs : Power[j] \in Nat \ {0}
<1>1. Power = Geometric(Limbs, 1, Radix)
  BY Zenon DEF Power, Geometric
<1>2. Limbs \in Nat /\ 1 \in Nat \ {0} /\ Radix \in Nat \ {0}
  BY LimbsAre
<1> DEFINE g == Geometric(Limbs, 1, Radix)
<1>3. /\ g[0] = 1 /\ \A j \in 1 .. Limbs : g[j] = Radix * g[j - 1]
      /\ \A j \in 0 .. Limbs : g[j] \in Nat \ {0}
  BY <1>2, GeometricIs
<1> HIDE DEF g
<1> QED
  BY <1>1, <1>3, Zenon DEF g

LEMMA PowerOf ==
  ASSUME NEW j \in Index
  PROVE  /\ j \in 0 .. Limbs /\ Power[j] \in Nat \ {0}
         /\ j + 1 \in 0 .. Limbs /\ Power[j + 1] \in Nat \ {0}
         /\ Power[j + 1] = Radix * Power[j]
<1>1. j \in 0 .. Limbs /\ j + 1 \in 0 .. Limbs /\ j + 1 \in 1 .. Limbs /\ (j + 1) - 1 = j
  BY LimbsAre
<1> QED
  BY <1>1, PowerIs, Zenon

LEMMA LimbsPowers ==
  Power[Top] \in Nat \ {0} /\ Power[Limbs] = Radix * Power[Top] /\ Power[Limbs] \in Nat
<1>1. Top \in Index /\ Top + 1 = Limbs
  BY LimbsAre
<1> QED
  BY <1>1, PowerOf, Zenon

LEMMA PowersAre == Powers(Top, Radix, Power)
<1>1. Top \in Nat /\ Top > 0 /\ Radix \in Nat /\ Radix > 1
  BY LimbsAre
<1>2. Power[0] = 1
  BY PowerIs
<1>3. \A j \in 0 .. Top : /\ Power[j] \in Nat \ {0} /\ Power[j + 1] \in Nat \ {0}
                          /\ Power[j + 1] = Radix * Power[j]
  BY LimbsAre, PowerOf, Zenon
<1> QED
  BY <1>1, <1>2, <1>3, Zenon DEF Powers

(* The value of a number, by partial sums. *)
PartialValues(x, s) ==
    /\ s \in [Index -> Int] /\ s[0] = x[0]
    /\ \A j \in 1 .. Top : s[j] = s[j - 1] + x[j] * Power[j]

LEMMA ValueBySums ==
  ASSUME NEW x \in [Index -> Int]
  PROVE  \E s : PartialValues(x, s) /\ Value(x) = s[Top]
<1>1. Index = 0 .. Top /\ x \in [0 .. Top -> Int]
  BY LimbsAre, Zenon
<1>2. PICK s : PartialValuesIn(Top, Power, x, s) /\ ValueIn(Top, Power, x) = s[Top]
  BY <1>1, PowersAre, ValueInBySums, Zenon
<1> QED
  BY <1>1, <1>2, ValueIs, Zenon DEF PartialValuesIn, PartialValues

LEMMA ValueType == ASSUME NEW x \in [Index -> Int] PROVE Value(x) \in Int
<1>1. x \in [0 .. Top -> Int]
  BY LimbsAre, Zenon
<1> QED
  BY <1>1, PowersAre, ValueIs, ValueInType, Zenon

(* A number without its top limb. *)
Cut(x) == [j \in Index |-> IF j = Top THEN 0 ELSE x[j]]

LEMMA CutIs == ASSUME NEW x PROVE Cut(x) = CutIn(Top, x)
  BY Zenon DEF Cut, CutIn, Index, Top

LEMMA ValueSplits ==
  ASSUME NEW x \in [Index -> Int]
  PROVE  /\ Cut(x) \in [Index -> Int] /\ Value(Cut(x)) \in Int
         /\ Value(x) = Value(Cut(x)) + x[Top] * Power[Top]
<1>1. x \in [0 .. Top -> Int] /\ Index = 0 .. Top
  BY LimbsAre, Zenon
<1>2. /\ CutIn(Top, x) \in [0 .. Top -> Int] /\ ValueIn(Top, Power, CutIn(Top, x)) \in Int
      /\ ValueIn(Top, Power, x) = ValueIn(Top, Power, CutIn(Top, x)) + x[Top] * Power[Top]
  BY <1>1, PowersAre, ValueInSplits
<1> QED
  BY <1>1, <1>2, CutIs, ValueIs, Zenon

(* A number whose limbs are below the radix. *)
Limbed == [Index -> 0 .. Radix - 1]

(* The limbs below the top one stand for a number below Radix^Top. *)
LEMMA CutBounds ==
  ASSUME NEW x \in [Index -> Int], \A j \in 0 .. Top - 1 : x[j] \in 0 .. Radix - 1
  PROVE  Value(Cut(x)) \in 0 .. Power[Top] - 1
<1>1. x \in [0 .. Top -> Int]
  BY LimbsAre, Zenon
<1>2. ValueIn(Top, Power, CutIn(Top, x)) \in 0 .. Power[Top] - 1
  BY <1>1, PowersAre, CutInBounds, Zenon
<1> QED
  BY <1>2, CutIs, ValueIs, Zenon

(* A number in limbs below the radix is below Radix^Limbs. *)
LEMMA DigitsAre ==
  ASSUME NEW x \in Limbed
  PROVE  /\ x \in [Index -> Int] /\ x[Top] \in 0 .. Radix - 1
         /\ Value(Cut(x)) \in 0 .. Power[Top] - 1
         /\ Value(x) = Value(Cut(x)) + x[Top] * Power[Top]
         /\ Value(x) \in Nat
<1>1. x \in [Index -> Int] /\ x[Top] \in 0 .. Radix - 1
      /\ \A j \in 0 .. Top - 1 : x[j] \in 0 .. Radix - 1
  BY LimbsAre DEF Limbed
<1>2. Value(Cut(x)) \in 0 .. Power[Top] - 1
  BY <1>1, CutBounds
<1>3. Value(x) = Value(Cut(x)) + x[Top] * Power[Top]
  BY <1>1, ValueSplits
<1>4. x[Top] * Power[Top] \in Nat
  <2>1. x[Top] \in Nat /\ Power[Top] \in Nat
    BY <1>1, LimbsPowers
  <2> QED
    BY <2>1
<1>5. Value(x) \in Nat
  BY <1>2, <1>3, <1>4, LimbsPowers
<1> QED
  BY <1>1, <1>2, <1>3, <1>5

-----------------------------------------------------------------------------
(* Poly1305: carrying *)

ChainCarries(x, c, u) ==
    /\ u \in [Index -> Nat] /\ u[0] = x[0] + c
    /\ \A j \in 1 .. Top : u[j] = x[j] + (u[j - 1] \div Radix)

LEMMA ChainIs ==
  ASSUME NEW x \in [Index -> Nat], NEW c \in Nat
  PROVE  ChainCarries(x, c, Chain(x, c))
<1> DEFINE u == Chain(x, c)
<1>1. u = ChainTo(Top, Radix, x, c)
  BY Zenon DEF Chain, ChainTo, Index, Top
<1>2. x \in [0 .. Top -> Int] /\ c \in Int /\ Top \in Nat /\ Radix \in Nat \ {0}
  BY LimbsAre
<1> HIDE DEF u
<1>3. Carries(Top, Radix, x, c, u)
  BY <1>1, <1>2, ChainToCarries, Zenon
<1>4. u[0] = x[0] + c /\ \A j \in 1 .. Top : u[j] = x[j] + (u[j - 1] \div Radix)
  BY <1>3, Zenon DEF Carries
<1> DEFINE S == {k \in Index : u[k] \in Nat}
<1>5. 0 \in S
  BY <1>4, LimbsAre
<1>6. ASSUME NEW k \in 0 .. Top - 1, k \in S PROVE k + 1 \in S
  <2>1. k + 1 \in 1 .. Top /\ (k + 1) - 1 = k /\ k + 1 \in Index
    BY LimbsAre
  <2>2. \A v \in Nat : v \div Radix \in Nat
    BY LimbsAre
  <2>3. u[k + 1] = x[k + 1] + (u[k] \div Radix) /\ u[k] \div Radix \in Nat
    BY <1>4, <1>6, <2>1, <2>2, Zenon
  <2>4. x[k + 1] \in Nat
    BY <2>1
  <2>5. u[k + 1] \in Nat
    BY <2>3, <2>4
  <2> QED
    BY <2>1, <2>5, Zenon
<1> HIDE DEF S
<1>7. \A k \in Index : u[k] \in Nat
  BY <1>5, <1>6, EveryLimb, Zenon DEF S
<1>8. u \in [Index -> Int]
  BY <1>3, LimbsAre, Zenon DEF Carries
<1>9. u \in [Index -> Nat]
  BY <1>7, <1>8
<1> QED
  BY <1>4, <1>9, Zenon DEF ChainCarries, u

(* A chain keeps the value, but for what it cuts off the top limb. *)
Carried(u, w) ==
    /\ w \in [Index -> Int]
    /\ \A j \in 0 .. Top - 1 : w[j] = u[j] % Radix

LEMMA ChainValue ==
  ASSUME NEW x \in [Index -> Nat], NEW c \in Nat, NEW u, ChainCarries(x, c, u),
         NEW w, Carried(u, w)
  PROVE  Value(w) + (u[Top] - w[Top]) * Power[Top] = Value(x) + c
<1>1. x \in [0 .. Top -> Int] /\ c \in Int /\ Index = 0 .. Top
  BY LimbsAre
<1>2. u \in [0 .. Top -> Int]
  BY <1>1 DEF ChainCarries
<1>3. Carries(Top, Radix, x, c, u)
  BY <1>2, Zenon DEF ChainCarries, Carries
<1>4. CarriedIn(Top, Radix, u, w)
  BY <1>1, Zenon DEF Carried, CarriedIn
<1>5. ValueIn(Top, Power, w) + (u[Top] - w[Top]) * Power[Top] = ValueIn(Top, Power, x) + c
  BY <1>1, <1>3, <1>4, PowersAre, CarriedValue
<1> QED
  BY <1>5, ValueIs, Zenon

(* The sum of two numbers, modulo Radix^Limbs. *)
LEMMA AddValue ==
  ASSUME NEW h \in Limbed, NEW c \in Limbed
  PROVE  /\ add1305(h, c) \in Limbed
         /\ \E k \in Nat : Value(add1305(h, c)) + k * Power[Limbs] = Value(h) + Value(c)
<1> DEFINE x == [j \in Index |-> h[j] + c[j]]
           u == Chain(x, 0)
           w == add1305(h, c)
<1>1. \A j \in Index : h[j] \in Nat /\ c[j] \in Nat /\ h[j] + c[j] \in Nat
  BY LimbsAre DEF Limbed
<1>2. x \in [Index -> Nat] /\ \A j \in Index : x[j] = h[j] + c[j]
  BY <1>1, Zenon
<1> HIDE DEF x
<1>3. ChainCarries(x, 0, u) /\ 0 \in Nat
  BY <1>2, ChainIs
<1>4. w = [j \in Index |-> u[j] % Radix]
  BY Zenon DEF add1305, x
<1> HIDE DEF u, w
<1>5. \A j \in Index : u[j] \in Nat
  BY <1>3 DEF ChainCarries
<1>6. w \in Limbed /\ \A j \in Index : w[j] = u[j] % Radix
  BY <1>4, <1>5, LimbsAre DEF Limbed
<1>7. Carried(u, w)
  BY <1>6, LimbsAre DEF Carried, Limbed
<1>8. Value(w) + (u[Top] - w[Top]) * Power[Top] = Value(x) + 0
  BY <1>2, <1>3, <1>7, ChainValue
<1>9. Value(x) = Value(h) + 1 * Value(c)
  <2>1. /\ x \in [Index -> Int] /\ h \in [Index -> Int] /\ c \in [Index -> Int]
    BY <1>2, DigitsAre
  <2>2. \A j \in Index : x[j] = h[j] + 1 * c[j]
    BY <1>1, <1>2
  <2>3. Top \in Nat /\ 1 \in Int /\ Index = 0 .. Top
    BY LimbsAre
  <2>4. Combines(Top, x, h, 1, c)
    BY <2>1, <2>2, <2>3, Zenon DEF Combines
  <2>5. ValueIn(Top, Power, x) = ValueIn(Top, Power, h) + 1 * ValueIn(Top, Power, c)
    BY <2>4, PowersAre, ValueInAdds
  <2> QED
    BY <2>5, ValueIs, Zenon
<1> DEFINE k == u[Top] \div Radix
<1>10. u[Top] \in Nat /\ w[Top] = u[Top] % Radix
  BY <1>5, <1>6, LimbsAre
<1>11. k \in Nat /\ u[Top] - w[Top] = Radix * k
  <2> DEFINE v == u[Top]
  <2>1. v \in Nat /\ Radix \in Nat \ {0}
    BY <1>10, LimbsAre
  <2> HIDE DEF v
  <2>2. v \div Radix \in Nat /\ v % Radix \in Nat /\ v = Radix * (v \div Radix) + (v % Radix)
    BY <2>1, Divided
  <2>3. v - (v % Radix) = Radix * (v \div Radix)
    BY <2>1, <2>2
  <2> QED
    BY <1>10, <2>2, <2>3, Zenon DEF v
<1> HIDE DEF k
<1>12. (Radix * k) * Power[Top] = k * Power[Limbs]
  <2>1. Radix \in Int /\ k \in Int /\ Power[Top] \in Int /\ Power[Limbs] = Radix * Power[Top]
    BY <1>11, LimbsAre, LimbsPowers
  <2> QED
    BY <2>1
<1>13. Value(w) + k * Power[Limbs] = Value(h) + Value(c)
  <2>1. Value(h) \in Int /\ Value(c) \in Int /\ Value(w) \in Int
    BY <1>6, DigitsAre
  <2>2. Value(w) + (Radix * k) * Power[Top] = Value(x) + 0
    BY <1>8, <1>11, Zenon
  <2>3. Value(w) + k * Power[Limbs] = Value(x) + 0
    BY <1>12, <2>2, Zenon
  <2> QED
    BY <1>9, <2>1, <2>3
<1> QED
  BY <1>6, <1>11, <1>13, Zenon DEF w

-----------------------------------------------------------------------------
(* Poly1305: how large the numbers get *)

LEMMA TopPower ==
  /\ Power[Top] >= Radix * (Radix * (Radix * Radix))
  /\ Limbs * (Radix * (Radix * Radix)) <= Power[Top]
  /\ Power[Top] >= 8 /\ p1305 \in Nat \ {0} /\ p1305 = 4 * Power[Top] - 5
<1> DEFINE F == Radix * (Radix * (Radix * Radix))
           C == Radix * (Radix * Radix)
<1>1. Power[4] = F
  <2>1. 1 \in 1 .. Limbs /\ 2 \in 1 .. Limbs /\ 3 \in 1 .. Limbs /\ 4 \in 1 .. Limbs
    BY LimbsAre
  <2>2. /\ Power[1] = Radix * Power[1 - 1] /\ Power[2] = Radix * Power[2 - 1]
        /\ Power[3] = Radix * Power[3 - 1] /\ Power[4] = Radix * Power[4 - 1]
        /\ Power[0] = 1
    BY <2>1, PowerIs, Zenon
  <2>3. 1 - 1 = 0 /\ 2 - 1 = 1 /\ 3 - 1 = 2 /\ 4 - 1 = 3 /\ Radix * 1 = Radix
    BY LimbsAre
  <2> QED
    BY <2>2, <2>3, Zenon
<1>2. C \in Nat /\ F \in Nat /\ F = Radix * C /\ C >= 1
  <2>1. Radix \in Nat /\ Radix >= 8
    BY LimbsAre
  <2>2. PICK d \in Nat : Radix = d + 1
    <3>1. Radix - 1 \in Nat /\ Radix = (Radix - 1) + 1
      BY <2>1
    <3> QED
      BY <3>1
  <2>3. C = d * (d * d) + 3 * (d * d) + 3 * d + 1
    BY <2>2
  <2>4. d * d \in Nat /\ d * (d * d) \in Nat
    BY <2>2
  <2>5. C \in Nat /\ C >= 1
    BY <2>2, <2>3, <2>4
  <2> HIDE DEF C
  <2>6. Radix * C \in Nat
    BY <2>1, <2>5
  <2> QED
    BY <2>5, <2>6 DEF C
<1> HIDE DEF F, C
<1> DEFINE S == {k \in Index : k >= 4 => Power[k] >= F}
<1>3. 0 \in S
  BY LimbsAre
<1>4. ASSUME NEW k \in 0 .. Top - 1, k \in S PROVE k + 1 \in S
  <2>1. k \in Index /\ k + 1 \in Index /\ k \in Nat
    BY LimbsAre
  <2>2. CASE k + 1 < 4
    BY <2>1, <2>2
  <2>3. CASE k + 1 = 4
    BY <1>1, <1>2, <2>1, <2>3
  <2>4. CASE k >= 4
    <3> DEFINE p == Power[k]
    <3>1. p >= F /\ p \in Nat /\ Power[k + 1] = Radix * p
      BY <1>4, <2>1, <2>4, PowerOf
    <3> HIDE DEF p
    <3>2. Radix * p >= p
      BY <3>1, LimbsAre
    <3>3. Radix * p \in Nat
      BY <3>1, LimbsAre
    <3>4. Radix * p >= F
      BY <1>2, <3>1, <3>2, <3>3
    <3>5. Power[k + 1] >= F
      BY <3>1, <3>4, Zenon
    <3> QED
      BY <2>1, <3>5, Zenon
  <2> QED
    BY <2>1, <2>2, <2>3, <2>4
<1> HIDE DEF S
<1>5. \A k \in Index : k \in S
  BY <1>3, <1>4, EveryLimb, Zenon
<1>6. Power[Top] >= F
  BY <1>5, LimbsAre DEF S
<1>7. Limbs * C <= F
  <2>1. PICK d \in Nat : Radix = Limbs + d
    <3>1. Radix - Limbs \in Nat /\ Radix = Limbs + (Radix - Limbs)
      BY LimbsAre
    <3> QED
      BY <3>1
  <2>2. Radix * C = Limbs * C + d * C /\ Limbs \in Nat
    BY <1>2, <2>1, LimbsAre
  <2>3. d * C \in Nat /\ Limbs * C \in Nat
    BY <1>2, <2>1, LimbsAre
  <2> QED
    BY <1>2, <2>2, <2>3
<1>8. F >= 8
  <2>1. Radix * C >= Radix
    BY <1>2, LimbsAre
  <2> QED
    BY <1>2, <2>1, LimbsAre
<1>9. Power[Top] \in Nat
  BY LimbsPowers
<1>10. Limbs * C \in Nat
  BY <1>2, LimbsAre
<1>11. Limbs * C <= Power[Top] /\ Power[Top] >= 8
  BY <1>2, <1>6, <1>7, <1>8, <1>9, <1>10
<1>12. p1305 = 4 * Power[Top] - 5 /\ p1305 \in Nat \ {0}
  BY <1>9, <1>11 DEF p1305
<1> QED
  BY <1>6, <1>11, <1>12, Zenon DEF F, C

LEMMA SumBound ==
  ASSUME NEW f \in [Index -> Nat], NEW M \in Nat, \A j \in Index : f[j] <= M
  PROVE  SumOver(f) \in Nat /\ SumOver(f) <= Limbs * M
<1>1. f \in [0 .. Top -> Int] /\ \A j \in 0 .. Top : 0 <= f[j] /\ f[j] <= M
  BY LimbsAre
<1>2. 0 \in Int /\ M \in Int /\ Top \in Nat /\ Top + 1 = Limbs /\ (Top + 1) * 0 = 0
  BY LimbsAre
<1>3. SumTo(Top, f) \in Int /\ (Top + 1) * 0 <= SumTo(Top, f)
      /\ SumTo(Top, f) <= (Top + 1) * M
  BY <1>1, <1>2, SumToBound, Zenon
<1>4. SumTo(Top, f) \in Int /\ 0 <= SumTo(Top, f) /\ SumTo(Top, f) <= Limbs * M
  BY <1>2, <1>3, Zenon
<1>5. \A v \in Int : 0 <= v => v \in Nat
  OBVIOUS
<1> QED
  BY <1>4, <1>5, SumIs, Zenon

(* What is carried adds less than a seventh to the largest limb. *)
LEMMA ChainBound ==
  ASSUME NEW x \in [Index -> Nat], NEW M \in Nat, \A j \in Index : x[j] <= M,
         NEW u, ChainCarries(x, 0, u)
  PROVE  u[Top] \in Nat /\ 7 * u[Top] <= 8 * M
<1> DEFINE S == {k \in Index : 7 * u[k] <= 8 * M}
<1>1. \A k \in Index : u[k] \in Nat /\ x[k] \in Nat /\ x[k] <= M
  BY DEF ChainCarries
<1>2. 0 \in S
  <2>1. 0 \in Index /\ u[0] = x[0] + 0
    BY LimbsAre DEF ChainCarries
  <2>2. x[0] \in Nat /\ x[0] <= M
    BY <1>1, <2>1, Zenon
  <2>3. 7 * u[0] <= 8 * M
    BY <2>1, <2>2
  <2> QED
    BY <2>1, <2>3
<1>3. ASSUME NEW k \in 0 .. Top - 1, k \in S PROVE k + 1 \in S
  <2>1. k + 1 \in 1 .. Top /\ (k + 1) - 1 = k /\ k + 1 \in Index /\ k \in Index
    BY LimbsAre
  <2>2. u[k + 1] = x[k + 1] + (u[k] \div Radix)
    BY <2>1, Zenon DEF ChainCarries
  <2> DEFINE v == u[k]
             q == v \div Radix
             d == x[k + 1]
  <2>3. v \in Nat /\ d \in Nat /\ d <= M /\ 7 * v <= 8 * M
    BY <1>1, <1>3, <2>1
  <2> HIDE DEF v, S
  <2>4. q \in Nat /\ v >= Radix * q
    <3> DEFINE m == v % Radix
    <3>1. q \in Nat /\ m \in Nat /\ v = Radix * q + m
      <4>1. Radix \in Nat \ {0}
        BY LimbsAre
      <4> QED
        BY <2>3, <4>1
    <3> HIDE DEF q, m
    <3>2. Radix * q \in Nat
      BY <3>1, LimbsAre
    <3> QED
      BY <2>3, <3>1, <3>2
  <2> HIDE DEF q, d
  <2>5. Radix * q >= 8 * q /\ Radix * q \in Nat
    <3>1. PICK e \in Nat : Radix = e + 8
      <4>1. Radix - 8 \in Nat /\ Radix = (Radix - 8) + 8
        BY LimbsAre
      <4> QED
        BY <4>1
    <3>2. Radix * q = e * q + 8 * q /\ e * q \in Nat
      BY <2>4, <3>1
    <3> QED
      BY <2>4, <3>2
  <2>6. 7 * (d + q) <= 8 * M
    BY <2>3, <2>4, <2>5
  <2>7. 7 * u[k + 1] <= 8 * M
    BY <2>2, <2>6, Zenon DEF v, q, d
  <2> QED
    BY <2>1, <2>7, Zenon DEF S
<1> HIDE DEF S
<1>4. \A k \in Index : k \in S
  BY <1>2, <1>3, EveryLimb, Zenon
<1> QED
  BY <1>1, <1>4, LimbsAre DEF S

-----------------------------------------------------------------------------
(* Poly1305: the two chains after a product *)

LEMMA SqueezeValue ==
  ASSUME NEW x \in [Index -> Nat], NEW M \in Nat, \A j \in Index : x[j] <= M,
         4 * M <= 5 * Power[Top]
  PROVE  /\ Squeeze(x) \in Limbed
         /\ Value(Squeeze(x)) < 6 * Power[Top]
         /\ Congruent(p1305, Value(Squeeze(x)), Value(x))
<1> DEFINE u == Chain(x, 0)
           q == u[Top] \div 4
           y == [j \in Index |-> IF j = Top THEN u[Top] % 4 ELSE u[j] % Radix]
           v == Chain(y, 5 * q)
           z == Squeeze(x)
           P == Power[Top]
<1>1. z = [j \in Index |-> IF j = Top THEN v[Top] ELSE v[j] % Radix]
  BY Zenon DEF Squeeze
<1>2. ChainCarries(x, 0, u)
  BY ChainIs
<1> HIDE DEF u
<1>3. \A j \in Index : u[j] \in Nat
  BY <1>2 DEF ChainCarries
<1>4. u[Top] \in Nat /\ 7 * u[Top] <= 8 * M
  BY <1>2, ChainBound
<1>5. q \in Nat /\ u[Top] % 4 \in 0 .. 3 /\ u[Top] - (u[Top] % 4) = 4 * q
  <2>1. \A t \in Nat : /\ t \div 4 \in Nat /\ t % 4 \in 0 .. 3
                       /\ t - (t % 4) = 4 * (t \div 4)
    OBVIOUS
  <2> QED
    BY <1>4, <2>1, Zenon
<1>6. P \in Nat /\ P >= 8 /\ p1305 = 4 * P - 5
  BY LimbsPowers, TopPower
<1>7. 5 * q < 2 * P
  BY <1>4, <1>5, <1>6
<1>8. Top \in Index /\ \A j \in 0 .. Top - 1 : j \in Index /\ j # Top
  BY LimbsAre
<1>9. \A a \in Nat : a % Radix \in 0 .. Radix - 1
  BY LimbsAre
<1>10. /\ y \in [Index -> Nat] /\ y[Top] = u[Top] % 4
       /\ \A j \in 0 .. Top - 1 : y[j] = u[j] % Radix
  <2>1. \A j \in Index : (IF j = Top THEN u[Top] % 4 ELSE u[j] % Radix) \in Nat
    <3>1. u[Top] % 4 \in Nat
      BY <1>5
    <3>2. \A a \in Nat : a % Radix \in Nat
      BY LimbsAre
    <3> QED
      BY <1>3, <3>1, <3>2, Zenon
  <2> QED
    BY <1>8, <2>1, Zenon
<1>11. y \in [Index -> Int] /\ Carried(u, y)
  BY <1>10 DEF Carried
<1> HIDE DEF y
<1>12. Value(y) + (4 * q) * P = Value(x) + 0
  <2>1. Value(y) + (u[Top] - y[Top]) * P = Value(x) + 0
    BY <1>2, <1>11, ChainValue
  <2> QED
    BY <1>5, <1>10, <2>1, Zenon
<1>13. Value(y) \in Int /\ Value(y) < 4 * P
  <2>1. \A j \in 0 .. Top - 1 : y[j] \in 0 .. Radix - 1
    BY <1>3, <1>8, <1>9, <1>10, Zenon
  <2>2. Value(Cut(y)) \in 0 .. P - 1
    BY <1>11, <2>1, CutBounds
  <2>3. Value(y) = Value(Cut(y)) + y[Top] * P
    BY <1>11, ValueSplits
  <2>4. y[Top] \in 0 .. 3
    BY <1>5, <1>10
  <2>5. y[Top] * P <= 3 * P /\ y[Top] * P \in Nat
    BY <1>6, <2>4
  <2> QED
    BY <1>6, <2>2, <2>3, <2>5
<1>14. 5 * q \in Nat
  BY <1>5
<1>15. ChainCarries(y, 5 * q, v)
  BY <1>10, <1>14, ChainIs
<1> HIDE DEF v
<1>16. \A j \in Index : v[j] \in Nat
  BY <1>15 DEF ChainCarries
<1>17. /\ z \in [Index -> Int] /\ z[Top] = v[Top]
       /\ \A j \in 0 .. Top - 1 : z[j] = v[j] % Radix
  <2>1. \A j \in Index : (IF j = Top THEN v[Top] ELSE v[j] % Radix) \in Int
    BY <1>8, <1>9, <1>16
  <2> QED
    BY <1>1, <1>8, <2>1, Zenon
<1>18. Carried(v, z)
  BY <1>17, Zenon DEF Carried
<1> HIDE DEF z
<1>19. Value(z) + (v[Top] - z[Top]) * P = Value(y) + 5 * q
  BY <1>10, <1>14, <1>15, <1>18, ChainValue
<1>20. Value(z) = Value(y) + 5 * q
  <2>1. v[Top] - z[Top] = 0 /\ Value(z) \in Int
    BY <1>8, <1>16, <1>17, ValueType
  <2>2. 0 * P = 0
    BY <1>6
  <2>3. Value(z) + 0 = Value(y) + 5 * q
    BY <1>19, <2>1, <2>2, Zenon
  <2> QED
    BY <2>1, <2>3
<1>21. Value(z) \in Int /\ Value(z) < 6 * P
  BY <1>7, <1>13, <1>14, <1>20, <1>6
<1>22. z \in Limbed
  <2>1. \A j \in 0 .. Top - 1 : z[j] \in 0 .. Radix - 1
    BY <1>8, <1>9, <1>16, <1>17
  <2>2. Value(Cut(z)) \in 0 .. P - 1
    BY <1>17, <2>1, CutBounds
  <2>3. Value(z) = Value(Cut(z)) + z[Top] * P
    BY <1>17, ValueSplits
  <2> DEFINE d == z[Top]
  <2>4. d \in Nat /\ d * P <= Value(z)
    <3>1. d \in Nat
      BY <1>8, <1>16, <1>17
    <3> HIDE DEF d
    <3>2. d * P \in Nat
      BY <1>6, <3>1
    <3>3. Value(z) = Value(Cut(z)) + d * P
      BY <2>3, Zenon DEF d
    <3> QED
      BY <1>6, <2>2, <3>1, <3>2, <3>3
  <2> HIDE DEF d
  <2>5. d < 6
    <3> SUFFICES ASSUME d >= 6 PROVE FALSE
      BY <2>4
    <3>1. PICK e \in Nat : d = 6 + e
      <4>1. d - 6 \in Nat /\ d = 6 + (d - 6)
        BY <2>4
      <4> QED
        BY <4>1
    <3>2. d * P = 6 * P + e * P /\ e * P \in Nat
      BY <1>6, <3>1
    <3> QED
      BY <1>6, <1>21, <2>4, <3>2
  <2>6. d \in 0 .. Radix - 1
    BY <2>4, <2>5, LimbsAre
  <2>7. z[Top] \in 0 .. Radix - 1
    BY <2>6 DEF d
  <2>8. \A j \in Index : j = Top \/ j \in 0 .. Top - 1
    BY LimbsAre
  <2>9. \A j \in Index : z[j] \in 0 .. Radix - 1
    BY <2>1, <2>7, <2>8, Zenon
  <2> QED
    BY <1>17, <2>9 DEF Limbed
<1>23. Congruent(p1305, Value(z), Value(x))
  <2> DEFINE a == Value(z)
             b == Value(x)
             e == Value(y)
  <2>1. a = e + 5 * q /\ e + (4 * q) * P = b + 0
    BY <1>12, <1>20, Zenon
  <2>2. a \in Int /\ e \in Int /\ b \in Int
    <3>1. x \in [Index -> Int]
      OBVIOUS
    <3> QED
      BY <1>13, <1>21, <3>1, ValueType
  <2> HIDE DEF a, b, e
  <2>3. a = b + (-q) * (4 * P - 5) /\ -q \in Int
    <3>1. (4 * q) * P \in Int
      BY <1>5, <1>6
    <3>2. (-q) * (4 * P - 5) = 5 * q - (4 * q) * P
      BY <1>5, <1>6
    <3> QED
      BY <1>5, <2>1, <2>2, <3>1, <3>2
  <2>4. a = b + (-q) * p1305
    BY <1>6, <2>3, Zenon
  <2> QED
    BY <2>3, <2>4, Zenon DEF Congruent, a, b
<1> QED
  BY <1>21, <1>22, <1>23, Zenon DEF z, P

-----------------------------------------------------------------------------
(* Poly1305: the product *)

\* What limb j of the accumulator is multiplied by, for each limb of the product.
KeyRow(r, j) == Row(Top, Wrap, r, j)

LEMMA WrapIs ==
  /\ Wrap \in Nat /\ Radix \div 4 \in Nat
  /\ Radix = 4 * (Radix \div 4) /\ Wrap = 5 * (Radix \div 4)
BY Poly1305Assumption DEF Wrap

LEMMA KeyRowIs ==
  ASSUME NEW r \in Limbed, NEW j \in Index, NEW i \in Index
  PROVE  KeyRow(r, j)[i] \in Nat /\ KeyRow(r, j)[i] <= Wrap * (Radix - 1)
<1>1. KeyRow(r, j)[i] = IF j <= i THEN r[i - j] ELSE Wrap * r[i + Limbs - j]
  <2>1. Index = 0 .. Top /\ Limbs = Top + 1
    BY LimbsAre
  <2> QED
    BY <2>1, Zenon DEF KeyRow, Row
<1> DEFINE D == Radix \div 4
<1>2. D \in Nat /\ Radix = 4 * D /\ Wrap = 5 * D /\ D >= 2 /\ Wrap \in Nat
  BY WrapIs, LimbsAre
<1> HIDE DEF D
<1>3. ASSUME NEW d \in 0 .. Radix - 1
      PROVE  /\ d <= Wrap * (Radix - 1) /\ Wrap * d \in Nat
             /\ Wrap * d <= Wrap * (Radix - 1)
  <2>1. d \in Nat /\ Radix - 1 - d \in Nat /\ Radix - 1 \in Nat
    BY LimbsAre
  <2>2. PICK e \in Nat : Radix - 1 = d + e
    <3>1. Radix - 1 = d + (Radix - 1 - d)
      BY <2>1, LimbsAre
    <3> QED
      BY <2>1, <3>1
  <2>3. Wrap * (Radix - 1) = Wrap * d + Wrap * e
    BY <1>2, <2>1, <2>2, Distribute
  <2>4. Wrap * d \in Nat /\ Wrap * e \in Nat
    BY <1>2, <2>1, <2>2
  <2>5. Wrap * d >= d
    BY <1>2, <2>1
  <2> QED
    BY <2>1, <2>3, <2>4, <2>5
<1>4. CASE j <= i
  <2>1. i - j \in Index
    BY <1>4, LimbsAre
  <2>2. r[i - j] \in 0 .. Radix - 1
    BY <2>1 DEF Limbed
  <2>3. KeyRow(r, j)[i] = r[i - j]
    BY <1>1, <1>4, Zenon
  <2>4. r[i - j] \in Nat
    BY <2>2, LimbsAre
  <2> QED
    BY <1>3, <2>2, <2>3, <2>4, Zenon
<1>5. CASE ~(j <= i)
  <2>1. i + Limbs - j \in Index
    BY <1>5, LimbsAre
  <2>2. r[i + Limbs - j] \in 0 .. Radix - 1
    BY <2>1 DEF Limbed
  <2>3. KeyRow(r, j)[i] = Wrap * r[i + Limbs - j]
    BY <1>1, <1>5, Zenon
  <2> QED
    BY <1>3, <2>2, <2>3, Zenon
<1> QED
  BY <1>4, <1>5

LEMMA MultiplyIs ==
  ASSUME NEW h, NEW r
  PROVE  /\ MultiplyBy(h, r) = ProductOf(Top, Wrap, h, r)
         /\ MultiplyBy(h, r) = [i \in Index |-> SumOver(Products(Top, Wrap, h, r, i))]
<1>1. Index = 0 .. Top /\ Limbs = Top + 1
  BY LimbsAre
<1>2. ASSUME NEW i \in Index
      PROVE  Products(Top, Wrap, h, r, i)
                 = [j \in Index |-> h[j] * IF j <= i THEN r[i - j] ELSE Wrap * r[i + Limbs - j]]
  BY <1>1, Zenon DEF Products, Row
<1>3. MultiplyBy(h, r) = [i \in Index |-> SumOver(Products(Top, Wrap, h, r, i))]
  BY <1>2, Zenon DEF MultiplyBy
<1>4. MultiplyBy(h, r) = [i \in 0 .. Top |-> SumTo(Top, Products(Top, Wrap, h, r, i))]
  BY <1>1, <1>3, SumIs, Zenon
<1> QED
  BY <1>3, <1>4, Zenon DEF ProductOf

(* No limb of a product needs more than the code's 32 bits, and what is above
   4 Radix^Top is little enough. *)
LEMMA MultiplyBound ==
  ASSUME NEW h \in Limbed, NEW r \in Limbed
  PROVE  /\ MultiplyBy(h, r) \in [Index -> Nat]
         /\ \E M \in Nat : /\ \A i \in Index : MultiplyBy(h, r)[i] <= M
                           /\ 4 * M <= 5 * Power[Top]
<1> DEFINE D == Radix \div 4
           L == Radix - 1
           W == Wrap * L
           K == L * W
           C == Radix * (Radix * Radix)
<1>1. D \in Nat /\ Radix = 4 * D /\ Wrap = 5 * D /\ L \in Nat /\ Radix = L + 1
  BY WrapIs, LimbsAre
<1> HIDE DEF D, L
<1>2. W \in Nat /\ K \in Nat
  <2>1. Wrap \in Nat /\ Wrap * L \in Nat
    BY <1>1
  <2> HIDE DEF W
  <2>2. W \in Nat
    BY <2>1, Zenon DEF W
  <2> QED
    BY <1>1, <2>2
<1>3. 4 * K <= 5 * C /\ C \in Nat
  <2>1. 4 * K = 5 * ((L + 1) * (L * L))
    <3>1. K = L * ((5 * D) * L)
      BY <1>1, Zenon
    <3>2. 4 * (L * ((5 * D) * L)) = 5 * ((4 * D) * (L * L))
      BY <1>1
    <3> QED
      BY <1>1, <3>1, <3>2, Zenon
  <2>2. C = (L + 1) * (L * L) + (2 * (L * L) + 3 * L + 1)
    <3>1. (L + 1) * ((L + 1) * (L + 1)) = (L + 1) * (L * L) + (2 * (L * L) + 3 * L + 1)
      BY <1>1
    <3> QED
      BY <1>1, <3>1, Zenon
  <2>3. L * L \in Nat
    BY <1>1
  <2>4. (L + 1) * (L * L) \in Nat
    <3> DEFINE Q == L * L
    <3> HIDE DEF Q
    <3>1. (L + 1) * Q \in Nat
      BY <1>1, <2>3 DEF Q
    <3> QED
      BY <3>1 DEF Q
  <2> HIDE DEF C, K
  <2> DEFINE Q == L * L
             E == (L + 1) * Q
  <2>5. Q \in Nat /\ E \in Nat /\ 4 * K = 5 * E /\ C = E + (2 * Q + 3 * L + 1)
    BY <2>1, <2>2, <2>3, <2>4, Zenon
  <2> HIDE DEF Q, E
  <2> QED
    BY <1>1, <2>5
<1> HIDE DEF W, K, C
<1> DEFINE M == Limbs * K
<1>4. M \in Nat /\ 4 * M <= 5 * Power[Top]
  <2>1. Limbs \in Nat /\ Power[Top] \in Nat /\ Limbs * C <= Power[Top]
    BY LimbsAre, LimbsPowers, TopPower DEF C
  <2>2. Limbs * (4 * K) <= Limbs * (5 * C)
    <3>1. PICK e \in Nat : 5 * C = 4 * K + e
      <4>1. 5 * C - 4 * K \in Nat /\ 5 * C = 4 * K + (5 * C - 4 * K)
        BY <1>2, <1>3
      <4> QED
        BY <4>1
    <3>2. Limbs * (4 * K + e) = Limbs * (4 * K) + Limbs * e /\ Limbs * e \in Nat
      BY <1>2, <2>1, <3>1
    <3>3. Limbs * (4 * K) \in Nat
      BY <1>2, <2>1
    <3>4. Limbs * (5 * C) = Limbs * (4 * K) + Limbs * e
      BY <3>1, <3>2, Zenon
    <3> QED
      BY <3>2, <3>3, <3>4
  <2>3. Limbs * (4 * K) = 4 * M /\ Limbs * (5 * C) = 5 * (Limbs * C) /\ M \in Nat
    BY <1>2, <1>3, <2>1
  <2>4. Limbs * C \in Nat
    BY <1>3, <2>1
  <2> QED
    BY <2>1, <2>2, <2>3, <2>4
<1> HIDE DEF M
<1>5. ASSUME NEW i \in Index
      PROVE  SumOver(Products(Top, Wrap, h, r, i)) \in Nat /\ SumOver(Products(Top, Wrap, h, r, i)) <= M
  <2> DEFINE f == Products(Top, Wrap, h, r, i)
  <2>1. \A j \in Index : f[j] \in Nat /\ f[j] <= K
    <3> TAKE j \in Index
    <3> DEFINE a == h[j]
               b == KeyRow(r, j)[i]
    <3>1. f[j] = a * b
      BY LimbsAre, Zenon DEF Products, KeyRow
    <3>2. b \in Nat /\ b <= W
      BY KeyRowIs DEF W, L
    <3>3. a \in Nat /\ a <= L
      BY <1>1 DEF Limbed
    <3> HIDE DEF a, b, f
    <3>4. PICK c \in Nat, d \in Nat : L = a + c /\ W = b + d
      <4>1. L - a \in Nat /\ W - b \in Nat /\ L = a + (L - a) /\ W = b + (W - b)
        BY <1>1, <1>2, <3>2, <3>3
      <4> QED
        BY <4>1
    <3>5. L * W = a * b + (a * d + c * b + c * d)
      BY <3>2, <3>3, <3>4
    <3>6. a * b \in Nat /\ a * d \in Nat /\ c * b \in Nat /\ c * d \in Nat
      BY <3>2, <3>3, <3>4
    <3>7. a * b <= K
      BY <3>5, <3>6 DEF K
    <3> QED
      BY <3>1, <3>6, <3>7, Zenon
  <2>2. f = [j \in Index |-> f[j]]
    BY LimbsAre, Zenon DEF Products
  <2> HIDE DEF f
  <2>3. f \in [Index -> Nat]
    BY <2>1, <2>2, Zenon
  <2>4. SumOver(f) \in Nat /\ SumOver(f) <= Limbs * K
    BY <1>2, <2>1, <2>3, SumBound
  <2> QED
    BY <2>4, Zenon DEF f, M
<1> DEFINE x == MultiplyBy(h, r)
<1>6. x = [i \in Index |-> SumOver(Products(Top, Wrap, h, r, i))]
  BY MultiplyIs, Zenon
<1> HIDE DEF x
<1>7. \A i \in Index : x[i] \in Nat /\ x[i] <= M
  BY <1>5, <1>6, Zenon
<1>8. x \in [Index -> Nat]
  BY <1>5, <1>6, Zenon
<1> QED
  BY <1>4, <1>7, <1>8, Zenon DEF x

(* What leaves at the top of a row comes back at the bottom: Radix^Limbs modulo p. *)
LEMMA WrapsAround == Wraps(Top, Power, Wrap, p1305)
<1> DEFINE D == Radix \div 4
           P == Power[Top]
<1>1. D \in Nat /\ Radix = 4 * D /\ Wrap = 5 * D /\ Wrap \in Int
  BY WrapIs
<1>2. P \in Int /\ p1305 = 4 * P - 5 /\ p1305 \in Int /\ Power[Limbs] = Radix * P
      /\ Limbs = Top + 1
  BY LimbsPowers, TopPower, LimbsAre
<1> HIDE DEF D, P
<1>3. 5 * D = (4 * D) * P + (-D) * (4 * P - 5) /\ -D \in Int
  BY <1>1, <1>2
<1>4. Wrap = Power[Top + 1] + (-D) * p1305
  BY <1>1, <1>2, <1>3, Zenon
<1> QED
  BY <1>1, <1>2, <1>3, <1>4, Zenon DEF Wraps, Congruent

(* A product of the accumulator and r, modulo p. *)
LEMMA MultiplyValue ==
  ASSUME NEW h \in Limbed, NEW r \in Limbed
  PROVE  Congruent(p1305, Value(MultiplyBy(h, r)), Value(h) * Value(r))
<1>1. h \in [0 .. Top -> Int] /\ r \in [0 .. Top -> Int]
  BY DigitsAre, LimbsAre
<1> QED
  BY <1>1, PowersAre, WrapsAround, MultiplyIs, ValueIs, ProductValue

-----------------------------------------------------------------------------
(* Poly1305: the last reduction *)

LEMMA DigitsBelow ==
  ASSUME NEW x \in Limbed
  PROVE  Value(x) \in Nat /\ Value(x) < Radix * Power[Top]
<1> DEFINE s == Value(Cut(x))
           d == x[Top]
           p == Power[Top]
<1>1. s \in 0 .. p - 1 /\ d \in 0 .. Radix - 1 /\ p \in Nat \ {0} /\ Value(x) = s + d * p
      /\ Value(x) \in Nat
  BY DigitsAre, LimbsPowers
<1> HIDE DEF s, d, p
<1>2. s \in Int /\ s >= 0 /\ s <= p - 1
  BY <1>1
<1>3. s + d * p <= Radix * p - 1
  <2>1. Radix \in Nat /\ Radix > 1
    BY LimbsAre
  <2> QED
    BY <1>1, <1>2, <2>1, LimbStep
<1>4. Radix * p \in Nat
  BY <1>1, LimbsAre
<1>5. Value(x) < Radix * p
  BY <1>1, <1>3, <1>4
<1> QED
  BY <1>1, <1>5, Zenon DEF p

LEMMA MinuspIs ==
  minusp \in Limbed /\ Value(minusp) = 5 + (Radix - 4) * Power[Top]
<1>1. /\ minusp \in [Index -> Int] /\ minusp \in Limbed
      /\ minusp[0] = 5 /\ minusp[Top] = Radix - 4
      /\ \A j \in Index : j # 0 /\ j # Top => minusp[j] = 0
  <2>1. \A j \in Index : (IF j = 0 THEN 5 ELSE IF j = Top THEN Radix - 4 ELSE 0) \in 0 .. Radix - 1
    BY LimbsAre
  <2>2. minusp \in Limbed
    BY <2>1, Zenon DEF minusp, Limbed
  <2>3. 0 \in Index /\ Top \in Index /\ Top # 0
    BY LimbsAre
  <2>4. minusp \in [Index -> Int]
    BY <2>2, DigitsAre
  <2> QED
    BY <2>2, <2>3, <2>4, Zenon DEF minusp
<1>2. PICK s : PartialValues(minusp, s) /\ Value(minusp) = s[Top]
  BY <1>1, ValueBySums, Zenon
<1> DEFINE S == {k \in Index : k # Top => s[k] = 5}
<1>3. 0 \in S
  BY <1>1, <1>2, LimbsAre DEF PartialValues
<1>4. ASSUME NEW k \in 0 .. Top - 1, k \in S PROVE k + 1 \in S
  <2>1. k + 1 \in 1 .. Top /\ (k + 1) - 1 = k /\ k + 1 \in Index /\ k # Top /\ k + 1 # 0
    BY LimbsAre
  <2>2. s[k + 1] = s[k] + minusp[k + 1] * Power[k + 1]
    BY <1>2, <2>1, Zenon DEF PartialValues
  <2>3. Power[k + 1] \in Nat
    BY <2>1, PowerOf
  <2>4. k + 1 # Top => minusp[k + 1] = 0
    BY <1>1, <2>1, Zenon
  <2>5. s[k] = 5
    BY <1>4, <2>1
  <2> QED
    BY <2>1, <2>2, <2>3, <2>4, <2>5
<1> HIDE DEF S
<1>5. \A k \in Index : k \in S
  BY <1>3, <1>4, EveryLimb, Zenon
<1>6. Top - 1 \in Index /\ Top - 1 # Top /\ Top \in 1 .. Top
  BY LimbsAre
<1>7. s[Top - 1] = 5
  BY <1>5, <1>6, Zenon DEF S
<1>8. s[Top] = s[Top - 1] + minusp[Top] * Power[Top]
  BY <1>2, <1>6, Zenon DEF PartialValues
<1> QED
  BY <1>1, <1>2, <1>7, <1>8, Zenon

(* Below 2 p, one subtraction of p leaves the remainder. *)
LEMMA FreezeValue ==
  ASSUME NEW h \in Limbed, Value(h) < 2 * p1305
  PROVE  Freeze(h) \in Limbed /\ Value(Freeze(h)) = Value(h) % p1305
<1> DEFINE less == add1305(h, minusp)
           H == Value(h)
           L == Value(less)
           P == Power[Top]
           t == less[Top]
           s == Value(Cut(less))
<1>1. less \in Limbed
  BY MinuspIs, AddValue
<1>2. PICK k \in Nat : L + k * Power[Limbs] = H + Value(minusp)
  BY MinuspIs, AddValue
<1>3. H \in Nat /\ L \in Nat /\ L < Radix * P /\ P \in Nat \ {0} /\ P >= 8
  BY <1>1, DigitsAre, DigitsBelow, LimbsPowers, TopPower
<1>4. /\ L = s + t * P /\ s \in 0 .. P - 1 /\ t \in 0 .. Radix - 1
      /\ Power[Limbs] = Radix * P /\ Value(minusp) = 5 + (Radix - 4) * P
      /\ p1305 = 4 * P - 5 /\ p1305 \in Nat \ {0}
  BY <1>1, DigitsAre, LimbsPowers, TopPower, MinuspIs
<1>5. Freeze(h) = IF t >= Radix \div 2 THEN h ELSE less
  BY Zenon DEF Freeze
<1>6. H < 2 * p1305
  OBVIOUS
<1> HIDE DEF less, H, L, P, t, s
<1> DEFINE W == Radix * P
<1>7. W \in Nat /\ (Radix - 4) * P = W - 4 * P /\ 8 * P <= W
  <2>1. PICK e \in Nat : Radix = 8 + e
    <3>1. Radix - 8 \in Nat /\ Radix = 8 + (Radix - 8)
      BY LimbsAre
    <3> QED
      BY <3>1
  <2>2. Radix * P = 8 * P + e * P /\ e * P \in Nat
    BY <1>3, <2>1
  <2>3. (Radix - 4) * P = Radix * P - 4 * P
    BY <1>3, LimbsAre
  <2> QED
    BY <1>3, <2>2, <2>3
<1>8. L + k * W = H - p1305 + W
  BY <1>2, <1>3, <1>4, <1>7
<1>9. L < W
  BY <1>3
<1> HIDE DEF W
<1>10. k * W \in Nat
  BY <1>2, <1>7
<1>11. CASE H >= p1305
  <2>1. k = 1
    <3>1. k # 0
      <4> SUFFICES ASSUME k = 0 PROVE FALSE
        OBVIOUS
      <4>1. k * W = 0
        BY <1>7
      <4> QED
        BY <1>3, <1>4, <1>7, <1>8, <1>9, <1>11, <4>1
    <3>2. ~(k >= 2)
      <4> SUFFICES ASSUME k >= 2 PROVE FALSE
        OBVIOUS
      <4>1. PICK e \in Nat : k = 2 + e
        <5>1. k - 2 \in Nat /\ k = 2 + (k - 2)
          OBVIOUS
        <5> QED
          BY <5>1
      <4>2. k * W = 2 * W + e * W /\ e * W \in Nat
        BY <1>7, <4>1
      <4> QED
        BY <1>3, <1>4, <1>6, <1>7, <1>8, <4>2
    <3> QED
      BY <3>1, <3>2
  <2>2. L = H - p1305
    <3>1. k * W = W
      BY <1>7, <2>1
    <3> QED
      BY <1>3, <1>4, <1>7, <1>8, <3>1
  <2>3. t < 4
    <3> SUFFICES ASSUME t >= 4 PROVE FALSE
      BY <1>4, LimbsAre
    <3>1. PICK e \in Nat : t = 4 + e
      <4>1. t - 4 \in Nat /\ t = 4 + (t - 4)
        BY <1>4, LimbsAre
      <4> QED
        BY <4>1
    <3>2. t * P = 4 * P + e * P /\ e * P \in Nat
      BY <1>3, <3>1
    <3> QED
      BY <1>3, <1>4, <1>6, <2>2, <3>2
  <2>4. ~(t >= Radix \div 2)
    BY <1>4, <2>3, LimbsAre
  <2>5. Freeze(h) = less
    BY <1>5, <2>4, Zenon
  <2>6. H % p1305 = L
    <3> DEFINE one == 1
    <3>1. L \in 0 .. p1305 - 1 /\ H = p1305 * one + L /\ one \in Int
      BY <1>3, <1>4, <1>6, <1>11, <2>2
    <3> HIDE DEF one
    <3>2. (p1305 * one + L) % p1305 = L
      BY <1>4, <3>1, ModOf
    <3> QED
      BY <3>1, <3>2, Zenon
  <2> QED
    BY <1>1, <2>5, <2>6, Zenon DEF L, H
<1>12. CASE H < p1305
  <2>1. k = 0
    <3> SUFFICES ASSUME k # 0 PROVE FALSE
      OBVIOUS
    <3>1. PICK e \in Nat : k = 1 + e
      <4>1. k - 1 \in Nat /\ k = 1 + (k - 1)
        OBVIOUS
      <4> QED
        BY <4>1
    <3>2. k * W = W + e * W /\ e * W \in Nat
      BY <1>7, <3>1
    <3> QED
      BY <1>3, <1>4, <1>7, <1>8, <1>12, <3>2
  <2>2. L = H - p1305 + W
    <3>1. k * W = 0
      BY <1>7, <2>1
    <3> QED
      BY <1>3, <1>4, <1>7, <1>8, <3>1
  <2>3. t >= Radix - 4
    <3> SUFFICES ASSUME t < Radix - 4 PROVE FALSE
      BY <1>4, LimbsAre
    <3>1. PICK e \in Nat : Radix = t + 5 + e
      <4>1. Radix - 5 - t \in Nat /\ Radix = t + 5 + (Radix - 5 - t)
        BY <1>4, LimbsAre
      <4> QED
        BY <4>1
    <3>2. W = t * P + 5 * P + e * P /\ e * P \in Nat /\ t * P \in Nat
      <4>1. t \in Nat
        BY <1>4, LimbsAre
      <4>2. (t + 5 + e) * P = t * P + 5 * P + e * P
        BY <1>3, <3>1, <4>1
      <4>3. e * P \in Nat /\ t * P \in Nat
        BY <1>3, <3>1, <4>1
      <4> QED
        BY <3>1, <4>2, <4>3, Zenon DEF W
    <3> QED
      BY <1>3, <1>4, <2>2, <3>2
  <2>4. t >= Radix \div 2
    BY <1>4, <2>3, LimbsAre
  <2>5. Freeze(h) = h
    BY <1>5, <2>4, Zenon
  <2>6. H % p1305 = H
    BY <1>3, <1>4, <1>12
  <2> QED
    BY <2>5, <2>6, Zenon DEF H
<1> QED
  BY <1>3, <1>4, <1>11, <1>12

(* The tag: the sum with s, without what does not fit. *)
LEMMA TagValue ==
  ASSUME NEW f \in Limbed, NEW s \in Limbed
  PROVE  Value(Cut(add1305(f, s))) = (Value(f) + Value(s)) % Power[Top]
<1> DEFINE w == add1305(f, s)
           P == Power[Top]
           c == Value(Cut(w))
           t == w[Top]
<1>1. w \in Limbed
  BY AddValue
<1>2. PICK k \in Nat : Value(w) + k * Power[Limbs] = Value(f) + Value(s)
  BY AddValue
<1>3. /\ Value(w) = c + t * P /\ c \in 0 .. P - 1 /\ t \in 0 .. Radix - 1
      /\ Power[Limbs] = Radix * P /\ P \in Nat \ {0}
  BY <1>1, DigitsAre, LimbsPowers
<1> HIDE DEF w, P, c, t
<1>4. Value(f) + Value(s) = P * (t + k * Radix) + c
  <2>1. c + t * P + k * (Radix * P) = P * (t + k * Radix) + c
    BY <1>3, LimbsAre
  <2> QED
    BY <1>2, <1>3, <2>1, Zenon
<1> DEFINE q == t + k * Radix
<1>5. q \in Int
  BY <1>3, LimbsAre
<1> HIDE DEF q
<1>6. (P * q + c) % P = c
  BY <1>3, <1>5, ModOf
<1> QED
  BY <1>4, <1>6, Zenon DEF q, c, w, P

-----------------------------------------------------------------------------
(* Poly1305: the blocks and the polynomial *)

Octets == 0 .. Radix - 1

LEMMA BlockIsDigits ==
  ASSUME NEW m \in Seq(Octets), NEW pos \in Nat
  PROVE  BlockAt(m, pos) \in Limbed /\ Value(BlockAt(m, pos)) < 2 * Power[Top]
<1> DEFINE size == IF Len(m) - pos < Top THEN Len(m) - pos ELSE Top
           b == BlockAt(m, pos)
<1>1. b = [j \in Index |-> IF j < size THEN m[pos + j + 1] ELSE IF j = size THEN 1 ELSE 0]
  BY Zenon DEF BlockAt
<1>2. size \in Int /\ size <= Top /\ pos + size <= Len(m) /\ Len(m) \in Nat
  BY LimbsAre
<1> HIDE DEF size, b
<1>3. \A j \in Index : j < size => m[pos + j + 1] \in Octets
  <2> TAKE j \in Index
  <2> HAVE j < size
  <2>1. pos + j + 1 \in 1 .. Len(m)
    BY <1>2, LimbsAre
  <2> QED
    BY <2>1
<1>4. 0 \in Octets /\ 1 \in Octets
  BY LimbsAre DEF Octets
<1>5. b \in [Index -> Octets]
  BY <1>1, <1>3, <1>4
<1>6. b \in Limbed
  BY <1>5 DEF Limbed, Octets
<1>7. b[Top] \in 0 .. 1
  <2>1. Top \in Index /\ ~(Top < size)
    BY <1>2, LimbsAre
  <2>2. b[Top] = IF Top = size THEN 1 ELSE 0
    BY <1>1, <2>1, Zenon
  <2> QED
    BY <2>2
<1> DEFINE P == Power[Top]
           c == Value(Cut(b))
           d == b[Top]
<1>8. c \in 0 .. P - 1 /\ Value(b) = c + d * P /\ P \in Nat \ {0} /\ d \in 0 .. 1
  BY <1>6, <1>7, DigitsAre, LimbsPowers
<1> HIDE DEF P, c, d
<1>9. d * P <= P /\ d * P \in Nat
  BY <1>8
<1>10. Value(b) < 2 * P
  BY <1>8, <1>9
<1> QED
  BY <1>6, <1>10, Zenon DEF b, P

LEMMA HalfKeyIsDigits ==
  ASSUME NEW k \in [1 .. Limbs - 1 -> Octets]
  PROVE  HalfKey(k) \in Limbed
<1>1. \A j \in Index : (IF j = Top THEN 0 ELSE k[j + 1]) \in Octets
  <2> TAKE j \in Index
  <2>1. 0 \in Octets
    BY LimbsAre DEF Octets
  <2>2. j # Top => j + 1 \in 1 .. Limbs - 1
    BY LimbsAre
  <2> QED
    BY <2>1, <2>2
<1> QED
  BY <1>1, Zenon DEF HalfKey, Limbed, Octets

\* The value after one more block, whose value is c.
OneMore(v, c, r) == ((v + c) * Value(r)) % p1305

\* The values after 0 to n blocks.
Evaluates(r, m, n, h) ==
    h = [i \in 0 .. n |-> IF i = 0 THEN 0
                          ELSE OneMore(h[i - 1], Value(BlockAt(m, (i - 1) * Top)), r)]

LEMMA EvaluationIs ==
  ASSUME NEW r \in Limbed, NEW m \in Seq(Octets), NEW n \in Nat
  PROVE  \E h : /\ Evaluates(r, m, n, h) /\ h[0] = 0
                /\ \A i \in 1 .. n :
                       h[i] = OneMore(h[i - 1], Value(BlockAt(m, (i - 1) * Top)), r)
                /\ \A i \in 0 .. n : h[i] \in Int
<1> DEFINE c(i) == Value(BlockAt(m, (i - 1) * Top))
           F == [p \in (1 .. n) \X Int |-> OneMore(p[2], c(p[1]), r)]
<1>1. \A i \in 1 .. n, v \in Int : F[<<i, v>>] = OneMore(v, c(i), r)
  OBVIOUS
<1>2. \A i \in 1 .. n, v \in Int : OneMore(v, c(i), r) \in Int
  <2> TAKE i \in 1 .. n, v \in Int
  <2>1. (i - 1) * Top \in Nat
    <3>1. i - 1 \in Nat /\ Top \in Nat
      BY LimbsAre
    <3> QED
      BY <3>1
  <2>2. c(i) \in Int
    BY <2>1, BlockIsDigits, DigitsAre
  <2>3. Value(r) \in Int
    BY DigitsAre
  <2> HIDE DEF c
  <2>4. v + c(i) \in Int
    BY <2>2
  <2>5. (v + c(i)) * Value(r) \in Int
    BY <2>3, <2>4, Product, Zenon
  <2>6. OneMore(v, c(i), r) \in Nat
    BY <2>5, ModCongruent, TopPower, Zenon DEF OneMore
  <2> QED
    BY <2>6
<1> HIDE DEF F, c
<1>3. \A i \in 1 .. n, v \in Int : F[<<i, v>>] \in Int
  BY <1>1, <1>2, Zenon
<1>4. 0 \in Int
  OBVIOUS
<1>5. PICK h : Loops(h, n, Int, 0, F)
  BY <1>3, <1>4, LoopExists, Zenon
<1>6. h \in [0 .. n -> Int] /\ h[0] = 0
  BY <1>5, Zenon DEF Loops
<1>7. \A i \in 0 .. n : h[i] \in Int
  BY <1>6
<1>8. \A i \in 1 .. n : i - 1 \in 0 .. n /\ i # 0
  OBVIOUS
<1>9. \A i \in 1 .. n : h[i] = OneMore(h[i - 1], c(i), r)
  <2> TAKE i \in 1 .. n
  <2>1. h[i] = F[<<i, h[i - 1]>>] /\ h[i - 1] \in Int
    BY <1>5, <1>7, <1>8, Zenon DEF Loops
  <2> QED
    BY <1>1, <2>1, Zenon
<1>10. \A i \in 0 .. n : h[i] = IF i = 0 THEN 0 ELSE OneMore(h[i - 1], c(i), r)
  <2> TAKE i \in 0 .. n
  <2>1. i = 0 \/ i \in 1 .. n
    OBVIOUS
  <2> QED
    BY <1>6, <1>8, <1>9, <2>1, Zenon
<1>11. h = [i \in 0 .. n |-> h[i]]
  BY <1>6
<1>12. h = [i \in 0 .. n |-> IF i = 0 THEN 0 ELSE OneMore(h[i - 1], c(i), r)]
  BY <1>10, <1>11, Zenon
<1>13. Evaluates(r, m, n, h)
  BY <1>12, Zenon DEF Evaluates, c
<1> QED
  BY <1>6, <1>7, <1>9, <1>13, Zenon DEF c

\* What any such values are.
LEMMA EvaluationBy ==
  ASSUME NEW r, NEW m, NEW n \in Nat, NEW h, Evaluates(r, m, n, h)
  PROVE  /\ h[0] = 0
         /\ \A i \in 1 .. n : h[i] = OneMore(h[i - 1], Value(BlockAt(m, (i - 1) * Top)), r)
<1> DEFINE G(i) == OneMore(h[i - 1], Value(BlockAt(m, (i - 1) * Top)), r)
<1>1. h = [i \in 0 .. n |-> IF i = 0 THEN 0 ELSE G(i)]
  BY Zenon DEF Evaluates
<1> HIDE DEF G
<1>2. \A i \in 0 .. n : h[i] = IF i = 0 THEN 0 ELSE G(i)
  BY <1>1, Zenon
<1>3. 0 \in 0 .. n /\ \A i \in 1 .. n : i \in 0 .. n /\ i # 0
  OBVIOUS
<1> QED
  BY <1>2, <1>3, Zenon DEF G

Count(pos) == (pos + Top - 1) \div Top

LEMMA PolynomialIs ==
  ASSUME NEW r \in Limbed, NEW m \in Seq(Octets), NEW pos \in Nat
  PROVE  \E h : /\ Evaluates(r, m, Count(pos), h)
                /\ Polynomial(r, m, pos) = h[Count(pos)]
                /\ Polynomial(r, m, pos) \in Int /\ Count(pos) \in Nat
<1> DEFINE n == Count(pos)
           h == CHOOSE f : Evaluates(r, m, n, f)
<1>1. n \in Nat
  <2>1. pos + Top - 1 \in Nat /\ Top \in Nat \ {0}
    BY LimbsAre
  <2> DEFINE a == pos + Top - 1
  <2> HIDE DEF a
  <2>2. a \div Top \in Nat
    BY <2>1, Divided DEF a
  <2> QED
    BY <2>2 DEF Count, a
<1>2. Polynomial(r, m, pos) = h[n]
  BY Zenon DEF Polynomial, Count, Evaluates, OneMore
<1> HIDE DEF n
<1>3. \E f : Evaluates(r, m, n, f)
  BY <1>1, EvaluationIs, Zenon
<1>4. Evaluates(r, m, n, h)
  BY <1>3, Zenon
<1> HIDE DEF h
<1>5. /\ h[0] = 0
      /\ \A i \in 1 .. n : h[i] = OneMore(h[i - 1], Value(BlockAt(m, (i - 1) * Top)), r)
  BY <1>1, <1>4, EvaluationBy
<1>6. PICK g : /\ Evaluates(r, m, n, g) /\ g[0] = 0
               /\ \A i \in 1 .. n :
                      g[i] = OneMore(g[i - 1], Value(BlockAt(m, (i - 1) * Top)), r)
               /\ \A i \in 0 .. n : g[i] \in Int
  BY <1>1, EvaluationIs, Zenon
<1> DEFINE S == {k \in 0 .. n : h[k] = g[k]}
<1>7. 0 \in S
  BY <1>1, <1>5, <1>6
<1>8. ASSUME NEW k \in 0 .. n - 1, k \in S PROVE k + 1 \in S
  <2>1. k + 1 \in 1 .. n /\ k + 1 \in 0 .. n /\ (k + 1) - 1 = k
    BY <1>1
  <2> QED
    BY <1>5, <1>6, <1>8, <2>1, Zenon
<1> HIDE DEF S
<1>9. \A k \in 0 .. n : k \in S
  BY <1>1, <1>7, <1>8, UpTo, Zenon
<1>10. n \in 0 .. n
  BY <1>1
<1>11. h[n] \in Int
  BY <1>6, <1>9, <1>10, Zenon DEF S
<1> QED
  BY <1>1, <1>2, <1>4, <1>11, Zenon DEF n

(* Reading one more block is one more step of the polynomial. *)
LEMMA PolynomialStep ==
  ASSUME NEW r \in Limbed, NEW m \in Seq(Octets), NEW pos \in Nat, NEW next \in Nat,
         Count(next) = Count(pos) + 1
  PROVE  Polynomial(r, m, next)
             = OneMore(Polynomial(r, m, pos), Value(BlockAt(m, Count(pos) * Top)), r)
<1> DEFINE n == Count(pos)
           c(i) == Value(BlockAt(m, (i - 1) * Top))
<1>1. PICK h : /\ Evaluates(r, m, n, h) /\ Polynomial(r, m, pos) = h[n] /\ n \in Nat
  BY PolynomialIs, Zenon
<1>2. PICK g : /\ Evaluates(r, m, n + 1, g) /\ Polynomial(r, m, next) = g[n + 1]
  <2>1. PICK g : /\ Evaluates(r, m, Count(next), g)
                 /\ Polynomial(r, m, next) = g[Count(next)]
    BY PolynomialIs, Zenon
  <2>2. Count(next) = n + 1
    OBVIOUS
  <2> QED
    BY <2>1, <2>2, Zenon
<1>3. n \in Nat /\ n + 1 \in Nat
  BY <1>1
<1>4. h[0] = 0 /\ \A i \in 1 .. n : h[i] = OneMore(h[i - 1], c(i), r)
  BY <1>1, <1>3, EvaluationBy, Zenon
<1>5. g[0] = 0 /\ \A i \in 1 .. n + 1 : g[i] = OneMore(g[i - 1], c(i), r)
  BY <1>2, <1>3, EvaluationBy, Zenon
<1> HIDE DEF n, c
<1> DEFINE S == {k \in 0 .. n : h[k] = g[k]}
<1>6. 0 \in S
  BY <1>3, <1>4, <1>5
<1>7. ASSUME NEW k \in 0 .. n - 1, k \in S PROVE k + 1 \in S
  <2>1. k + 1 \in 1 .. n /\ k + 1 \in 1 .. n + 1 /\ k + 1 \in 0 .. n /\ (k + 1) - 1 = k
    BY <1>3
  <2> QED
    BY <1>4, <1>5, <1>7, <2>1, Zenon
<1> HIDE DEF S
<1>8. \A k \in 0 .. n : k \in S
  BY <1>3, <1>6, <1>7, UpTo, Zenon
<1>9. n \in 0 .. n /\ n + 1 \in 1 .. n + 1 /\ (n + 1) - 1 = n
  BY <1>3
<1>10. g[n + 1] = OneMore(g[n], c(n + 1), r)
  BY <1>5, <1>9, Zenon
<1>11. g[n] = h[n]
  BY <1>8, <1>9, Zenon DEF S
<1>12. c(n + 1) = Value(BlockAt(m, n * Top))
  BY <1>9, Zenon DEF c
<1> QED
  BY <1>1, <1>2, <1>10, <1>11, <1>12, Zenon DEF n

LEMMA CountIs ==
  ASSUME NEW k \in Nat
  PROVE  /\ Count(k * Top) = k
         /\ \A e \in 1 .. Top : Count(k * Top + e) = k + 1
<1>1. Top \in Nat \ {0} /\ Top - 1 \in 0 .. Top - 1 /\ k + 1 \in Int /\ k \in Int
  BY LimbsAre
<1> DEFINE r == Top - 1
<1>2. Count(k * Top) = k
  <2>1. k * Top + Top - 1 = Top * k + r
    BY <1>1
  <2> HIDE DEF r
  <2>2. (Top * k + r) \div Top = k
    BY <1>1, ModOf DEF r
  <2> QED
    BY <2>1, <2>2, Zenon DEF Count
<1>3. ASSUME NEW e \in 1 .. Top PROVE Count(k * Top + e) = k + 1
  <2> DEFINE d == e - 1
             l == k + 1
  <2>1. d \in 0 .. Top - 1 /\ l \in Int
    BY <1>1
  <2>2. (k * Top + e) + Top - 1 = Top * l + d
    BY <1>1
  <2> HIDE DEF d, l
  <2>3. (Top * l + d) \div Top = l
    BY <1>1, <2>1, ModOf
  <2> QED
    BY <2>2, <2>3, Zenon DEF Count, l
<1> QED
  BY <1>2, <1>3, Zenon

-----------------------------------------------------------------------------
(* Poly1305: the call *)

MacCall ==
    /\ mac_in.r \in RKeys /\ mac_in.s \in SKeys /\ mac_in.m \in MacMessages
    /\ mac_pos \in 0 .. Len(mac_in.m)

\* Tighter than MacIsPolynomial: 6 Radix^16 instead of 2 p = 8 Radix^16 - 10, so that
\* the next block can be added without anything leaving the top limb.
Accumulator ==
    /\ mac_h \in Limbed /\ Value(mac_h) < 6 * Power[Top]
    /\ Value(mac_h) % p1305 = Polynomial(HalfKey(mac_in.r), mac_in.m, mac_pos)

\* Only the last block may be short.
AtWholeBlock == mac_pos < Len(mac_in.m) => \E k \in Nat : mac_pos = k * Top

Tag ==
    Value(Cut(mac_h)) = (Polynomial(HalfKey(mac_in.r), mac_in.m, Len(mac_in.m))
                            + Value(HalfKey(mac_in.s))) % Power[Top]

MacInv ==
    /\ mac_pc \in {"idle", "loop", "done"}
    /\ mac_pc = "idle" => mac_pos = 0
    /\ mac_pc = "loop" => MacCall /\ Accumulator /\ AtWholeBlock
    /\ mac_pc = "done" => Tag

LEMMA CallIs ==
  ASSUME MacCall
  PROVE  /\ HalfKey(mac_in.r) \in Limbed /\ HalfKey(mac_in.s) \in Limbed
         /\ mac_in.m \in Seq(Octets) /\ mac_pos \in Nat /\ Len(mac_in.m) \in Nat
         /\ mac_pos <= Len(mac_in.m)
<1>1. mac_in.m \in Seq(Octets)
  BY Poly1305Assumption DEF MacCall, Octets
<1>2. mac_in.r \in [1 .. Limbs - 1 -> Octets] /\ mac_in.s \in [1 .. Limbs - 1 -> Octets]
  BY Poly1305Assumption DEF MacCall, Octets
<1>3. HalfKey(mac_in.r) \in Limbed /\ HalfKey(mac_in.s) \in Limbed
  BY <1>2, HalfKeyIsDigits
<1>4. mac_pos \in Nat /\ Len(mac_in.m) \in Nat /\ mac_pos <= Len(mac_in.m)
  BY <1>1 DEF MacCall
<1> QED
  BY <1>1, <1>3, <1>4, Zenon

ZeroLimbs == [j \in Index |-> 0]

LEMMA ZeroSums == ZeroLimbs \in [Index -> Int] /\ Value(ZeroLimbs) = 0
<1>1. ZeroLimbs = NoLimbs(Top)
  BY Zenon DEF ZeroLimbs, NoLimbs, Index, Top
<1>2. NoLimbs(Top) \in [0 .. Top -> Int] /\ ValueIn(Top, Power, NoLimbs(Top)) = 0
  BY PowersAre, NoLimbsAre, Zenon
<1> QED
  BY <1>1, <1>2, LimbsAre, ValueIs, Zenon

(* A call starts at 0, the value of no blocks. *)
LEMMA StartKeeps ==
  ASSUME NEW r \in RKeys, NEW s \in SKeys, NEW m \in MacMessages, MacInv, MacStart(r, s, m)
  PROVE  MacInv'
<1>1. /\ mac_pc' = "loop" /\ mac_in' = [r |-> r, s |-> s, m |-> m] /\ mac_h' = ZeroLimbs
      /\ mac_pos = 0 /\ mac_pos' = 0
  BY DEF MacStart, MacInv, ZeroLimbs
<1>2. mac_in'.r = r /\ mac_in'.s = s /\ mac_in'.m = m /\ m \in Seq(Octets)
  BY <1>1, Poly1305Assumption DEF Octets
<1>3. MacCall'
  <2>1. mac_pos' \in 0 .. Len(mac_in'.m)
    BY <1>1, <1>2
  <2> QED
    BY <1>2, <2>1, Zenon DEF MacCall
<1>4. ZeroLimbs \in Limbed
  <2>1. 0 \in 0 .. Radix - 1
    BY LimbsAre
  <2> QED
    BY <2>1 DEF ZeroLimbs, Limbed
<1>5. HalfKey(r) \in Limbed
  BY Poly1305Assumption, HalfKeyIsDigits DEF Octets
<1>6. Polynomial(HalfKey(r), m, 0) = 0
  <2>1. PICK h : /\ Evaluates(HalfKey(r), m, Count(0), h)
                 /\ Polynomial(HalfKey(r), m, 0) = h[Count(0)] /\ Count(0) \in Nat
    <3>1. 0 \in Nat
      OBVIOUS
    <3> QED
      BY <1>2, <1>5, <3>1, PolynomialIs, Zenon
  <2>2. Count(0) = 0
    <3>1. 0 * Top = 0 /\ 0 \in Nat
      BY LimbsAre
    <3>2. Count(0 * Top) = 0
      BY <3>1, CountIs, Zenon
    <3> QED
      BY <3>1, <3>2, Zenon
  <2>3. h[0] = 0
    BY <2>1, EvaluationBy, Zenon
  <2> QED
    BY <2>1, <2>2, <2>3, Zenon
<1>7. Accumulator'
  <2>1. 0 < 6 * Power[Top] /\ 0 % p1305 = 0
    <3>1. Power[Top] \in Nat /\ Power[Top] >= 8 /\ p1305 \in Nat \ {0}
      BY LimbsPowers, TopPower
    <3> HIDE DEF p1305
    <3> QED
      BY <3>1
  <2> QED
    BY <1>1, <1>2, <1>4, <1>6, <2>1, ZeroSums, Zenon DEF Accumulator
<1>8. AtWholeBlock'
  <2>1. 0 = 0 * Top /\ 0 \in Nat
    BY LimbsAre
  <2> QED
    BY <1>1, <2>1, Zenon DEF AtWholeBlock
<1> QED
  BY <1>1, <1>3, <1>7, <1>8 DEF MacInv

(* A block: it is added, the sum is multiplied by r and reduced, and the position
   counts one block more. *)
LEMMA BlockKeeps == MacInv /\ MacBlock => MacInv'
<1> SUFFICES ASSUME MacInv, MacBlock PROVE MacInv'
  OBVIOUS
<1> DEFINE r == HalfKey(mac_in.r)
           m == mac_in.m
           pos == mac_pos
           next == IF Len(m) - pos < Top THEN Len(m) ELSE pos + Top
           b == BlockAt(m, pos)
           a == add1305(mac_h, b)
           x == MultiplyBy(a, r)
           P == Power[Top]
           p == p1305
           A == Value(a)
           B == Value(b)
           H == Value(mac_h)
           R == Value(r)
           X == Value(x)
           Y == Value(mac_h')
           poly == Polynomial(r, m, pos)
<1>1. MacCall /\ Accumulator /\ AtWholeBlock
  BY Zenon DEF MacInv, MacBlock
<1>2. /\ mac_pc' = "loop" /\ mac_pos < Len(m) /\ mac_h' = Squeeze(x)
      /\ mac_pos' = next /\ mac_in' = mac_in
  BY Zenon DEF MacBlock
<1>3. /\ r \in Limbed /\ m \in Seq(Octets) /\ pos \in Nat /\ Len(m) \in Nat
  BY <1>1, CallIs, Zenon
<1>4. mac_h \in Limbed /\ H < 6 * P /\ H % p = poly
  BY <1>1, Zenon DEF Accumulator
<1>5. b \in Limbed /\ B < 2 * P
  BY <1>3, BlockIsDigits, Zenon
<1>6. PICK k \in Nat : pos = k * Top
  BY <1>1, <1>2, Zenon DEF AtWholeBlock
<1>7. next \in 0 .. Len(m) /\ next \in Nat /\ \E e \in 1 .. Top : next = k * Top + e
  <2>1. next \in 0 .. Len(m) /\ next \in Nat
    BY <1>3, LimbsAre
  <2>2. \E e \in 1 .. Top : next = pos + e
    <3>1. CASE Len(m) - pos < Top
      <4>1. next = Len(m) /\ Len(m) - pos \in 1 .. Top /\ Len(m) = pos + (Len(m) - pos)
        BY <1>2, <1>3, <3>1, LimbsAre
      <4> QED
        BY <4>1
    <3>2. CASE ~(Len(m) - pos < Top)
      <4>1. next = pos + Top /\ Top \in 1 .. Top
        BY <3>2, LimbsAre
      <4> QED
        BY <4>1
    <3> QED
      BY <3>1, <3>2
  <2> QED
    BY <1>6, <2>1, <2>2, Zenon
<1>8. next < Len(m) => next = (k + 1) * Top /\ k + 1 \in Nat
  <2> HAVE next < Len(m)
  <2>1. next = pos + Top
    BY <1>3
  <2>2. (k + 1) * Top = k * Top + Top /\ k + 1 \in Nat
    <3>1. Top \in Nat
      BY LimbsAre
    <3> QED
      BY <3>1
  <2> QED
    BY <1>6, <2>1, <2>2, Zenon
<1> HIDE DEF r, m, pos, next, b, a, x, P, p, A, B, H, R, X, Y, poly
<1>9. a \in Limbed /\ A = H + B
  <2>1. a \in Limbed /\ \E c \in Nat : A + c * Power[Limbs] = H + B
    BY <1>4, <1>5, AddValue, Zenon DEF a, A, H, B
  <2>2. PICK c \in Nat : A + c * Power[Limbs] = H + B
    BY <2>1
  <2>3. /\ A \in Nat /\ H \in Nat /\ B \in Nat /\ P \in Nat
        /\ Power[Limbs] = Radix * P
    BY <1>4, <1>5, <2>1, DigitsAre, LimbsPowers DEF A, H, B, P
  <2> DEFINE W == Radix * P
  <2>4. W \in Nat /\ W >= 8 * P
    <3>1. PICK e \in Nat : Radix = 8 + e
      <4>1. Radix - 8 \in Nat /\ Radix = 8 + (Radix - 8)
        BY LimbsAre
      <4> QED
        BY <4>1
    <3>2. W = 8 * P + e * P /\ e * P \in Nat
      BY <2>3, <3>1
    <3> QED
      BY <2>3, <3>2
  <2> HIDE DEF W
  <2>5. A + c * W = H + B
    BY <2>2, <2>3, Zenon DEF W
  <2>6. c = 0
    <3> SUFFICES ASSUME c # 0 PROVE FALSE
      OBVIOUS
    <3>1. c * W >= W /\ c * W \in Nat
      BY <2>4
    <3> QED
      BY <1>4, <1>5, <2>3, <2>4, <2>5, <3>1
  <2>7. c * W = 0
    BY <2>4, <2>6
  <2> QED
    BY <2>1, <2>3, <2>5, <2>7
<1>10. x \in [Index -> Nat] /\ Congruent(p1305, X, A * R)
  BY <1>3, <1>9, MultiplyBound, MultiplyValue, Zenon DEF x, X, A, R
<1>11. mac_h' \in Limbed /\ Y < 6 * P /\ Congruent(p1305, Y, X)
  <2>1. PICK M \in Nat : (\A i \in Index : x[i] <= M) /\ 4 * M <= 5 * Power[Top]
    BY <1>3, <1>9, MultiplyBound, Zenon DEF x
  <2> QED
    BY <1>2, <1>10, <2>1, SqueezeValue, Zenon DEF X, Y, P
<1>12. /\ A \in Int /\ H \in Int /\ B \in Int /\ R \in Int /\ X \in Int /\ Y \in Int
       /\ poly \in Int
  <2>1. X \in Int
    <3>1. x \in [Index -> Int]
      BY <1>10
    <3> QED
      BY <3>1, ValueType DEF X
  <2>2. A \in Int /\ H \in Int /\ B \in Int /\ R \in Int /\ Y \in Int
    BY <1>3, <1>4, <1>5, <1>9, <1>11, DigitsAre DEF A, H, B, R, Y
  <2>3. poly \in Int
    BY <1>3, PolynomialIs, Zenon DEF poly
  <2> QED
    BY <2>1, <2>2, <2>3
<1>13. Congruent(p1305, poly, H)
  BY <1>4, <1>12, ModCongruent, TopPower, Zenon DEF p
<1>14. Congruent(p1305, (poly + B) * R, (H + B) * R)
  <2>1. p1305 \in Int
    BY TopPower
  <2> QED
    BY <1>12, <1>13, <2>1, CongruentSumProduct, Zenon
<1>15. Y % p = OneMore(poly, B, r)
  <2>1. A * R \in Int /\ (poly + B) * R \in Int
    <3>1. poly + B \in Int
      BY <1>12
    <3> QED
      BY <1>12, <3>1, Product, Zenon
  <2>2. Congruent(p1305, Y, A * R)
    BY <1>10, <1>11, <1>12, <2>1, CongruentTrans, TopPower
  <2>3. Y % p = (A * R) % p
    BY <1>12, <2>1, <2>2, CongruentMod, TopPower, Zenon DEF p
  <2>4. ((poly + B) * R) % p = (A * R) % p
    <3>1. Congruent(p1305, (poly + B) * R, A * R)
      BY <1>9, <1>14, Zenon
    <3> QED
      BY <2>1, <3>1, CongruentMod, TopPower, Zenon DEF p
  <2> QED
    BY <2>3, <2>4, Zenon DEF OneMore, R, p
<1>16. OneMore(poly, B, r) = Polynomial(r, m, next)
  <2>1. Count(pos) = k
    BY <1>6, CountIs, Zenon
  <2>2. Count(next) = k + 1
    BY <1>7, CountIs, Zenon
  <2>3. Count(next) = Count(pos) + 1 /\ Count(pos) * Top = pos
    BY <1>6, <2>1, <2>2, Zenon
  <2>4. Polynomial(r, m, next)
            = OneMore(Polynomial(r, m, pos), Value(BlockAt(m, Count(pos) * Top)), r)
    BY <1>3, <1>7, <2>3, PolynomialStep, Zenon
  <2> QED
    BY <2>3, <2>4, Zenon DEF poly, B, b
<1>17. MacCall'
  BY <1>1, <1>2, <1>7, Zenon DEF MacCall, m
<1>18. Accumulator'
  BY <1>2, <1>11, <1>15, <1>16, Zenon DEF Accumulator, Y, P, p, r, m
<1>19. AtWholeBlock'
  BY <1>2, <1>8, Zenon DEF AtWholeBlock, m
<1> QED
  BY <1>2, <1>17, <1>18, <1>19 DEF MacInv

(* The end: the last subtraction leaves the remainder, s is added, and what does not
   fit is cut. *)
LEMMA FinishKeeps == MacInv /\ MacFinish => MacInv'
<1> SUFFICES ASSUME MacInv, MacFinish PROVE MacInv'
  OBVIOUS
<1> DEFINE f == Freeze(mac_h)
           s == HalfKey(mac_in.s)
<1>1. MacCall /\ Accumulator
  BY Zenon DEF MacInv, MacFinish
<1>2. /\ mac_pc' = "done" /\ mac_pos = Len(mac_in.m) /\ mac_h' = add1305(f, s)
      /\ mac_in' = mac_in
  BY Zenon DEF MacFinish
<1>3. s \in Limbed /\ mac_h \in Limbed
  BY <1>1, CallIs, Zenon DEF Accumulator
<1>4. Value(mac_h) < 2 * p1305
  <2>1. /\ Value(mac_h) \in Nat /\ Value(mac_h) < 6 * Power[Top] /\ Power[Top] \in Nat
        /\ p1305 = 4 * Power[Top] - 5 /\ Power[Top] >= 8
    BY <1>1, <1>3, DigitsAre, LimbsPowers, TopPower DEF Accumulator
  <2> QED
    BY <2>1
<1>5. /\ f \in Limbed
      /\ Value(f) = Polynomial(HalfKey(mac_in.r), mac_in.m, Len(mac_in.m))
  BY <1>1, <1>2, <1>3, <1>4, FreezeValue, Zenon DEF Accumulator
<1> HIDE DEF f, s
<1>6. Value(Cut(mac_h')) = (Value(f) + Value(s)) % Power[Top]
  BY <1>2, <1>3, <1>5, TagValue, Zenon
<1>7. Tag'
  BY <1>2, <1>5, <1>6, Zenon DEF Tag, s
<1> QED
  BY <1>2, <1>7 DEF MacInv

LEMMA MacInvStep == MacInv /\ [Poly1305Next]_poly1305Vars => MacInv'
<1> SUFFICES ASSUME MacInv, [Poly1305Next]_poly1305Vars PROVE MacInv'
  OBVIOUS
<1>1. CASE \E r \in RKeys, s \in SKeys, m \in MacMessages : MacStart(r, s, m)
  BY <1>1, StartKeeps, Zenon
<1>2. CASE MacBlock
  BY <1>2, BlockKeeps, Zenon
<1>3. CASE MacFinish
  BY <1>3, FinishKeeps, Zenon
<1>4. CASE MacReturn
  BY <1>4 DEF MacReturn, MacInv
<1>5. CASE UNCHANGED poly1305Vars
  BY <1>5, Zenon DEF poly1305Vars, MacInv, MacCall, Accumulator, AtWholeBlock, Tag
<1> QED
  BY <1>1, <1>2, <1>3, <1>4, <1>5, Zenon DEF Poly1305Next

LEMMA MacInvImplies == MacInv => MacIsPolynomial
<1> SUFFICES ASSUME MacInv PROVE MacIsPolynomial
  OBVIOUS
<1>1. ASSUME mac_pc = "loop"
      PROVE  /\ Value(mac_h) % p1305 = Polynomial(HalfKey(mac_in.r), mac_in.m, mac_pos)
             /\ Value(mac_h) < 2 * p1305
  <2>1. Accumulator
    BY <1>1, Zenon DEF MacInv
  <2>2. /\ Value(mac_h) \in Nat /\ Value(mac_h) < 6 * Power[Top] /\ Power[Top] \in Nat
        /\ p1305 = 4 * Power[Top] - 5 /\ Power[Top] >= 8
    BY <2>1, DigitsAre, LimbsPowers, TopPower DEF Accumulator
  <2>3. Value(mac_h) < 2 * p1305
    BY <2>2
  <2> QED
    BY <2>1, <2>3, Zenon DEF Accumulator
<1>2. ASSUME mac_pc = "done"
      PROVE  Value([j \in Index |-> IF j = Top THEN 0 ELSE mac_h[j]])
                 = (Polynomial(HalfKey(mac_in.r), mac_in.m, Len(mac_in.m))
                        + Value(HalfKey(mac_in.s))) % Power[Top]
  BY <1>2, Zenon DEF MacInv, Tag, Cut
<1> QED
  BY <1>1, <1>2, Zenon DEF MacIsPolynomial

(* Whatever the number of limbs and their radix, as long as there are no more limbs
   than a limb has values, the partly reduced accumulator stands for the polynomial
   of the blocks read and stays below 2 p, and the result is the polynomial plus s. *)
THEOREM MacIsCorrect == Poly1305Spec => []MacIsPolynomial
<1>1. Poly1305Init => MacInv
  BY DEF Poly1305Init, MacInv
<1>2. Poly1305Spec => []MacInv
  BY <1>1, MacInvStep, PTL DEF Poly1305Spec
<1> QED
  BY <1>2, MacInvImplies, PTL
=============================================================================
