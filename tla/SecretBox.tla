----------------------------- MODULE SecretBox -----------------------------
(***************************************************************************)
(* crypto_secretbox, crypto_box and their openings                         *)
(* (src/src/tweetnacl/tweetnacl.c), used by parties that generate key      *)
(* pairs, seal messages and open boxes which may come back with parts of   *)
(* other boxes.                                                            *)
(*                                                                         *)
(* A buffer has the parts the code addresses: bytes 0..15 (head), 16..31   *)
(* (tag) and from 32 on (body).  The value of a part is the set of terms   *)
(* whose exclusive or it is, zero is {}; Salsa20, Poly1305 and Curve25519  *)
(* are free terms.                                                         *)
(***************************************************************************)
EXTENDS Integers, FiniteSets

CONSTANTS
    Parties,
    SymmetricKeys, Nonces, Plaintexts,
    NULL,
    MaxKeypairs,  \* bound: calls of crypto_box_keypair
    MaxSeals,     \* bound: boxes sealed
    MaxMisuses    \* bound: pads not zeroed, buffers that overlap, huge messages

ASSUME SecretBoxAssumption ==
    /\ MaxKeypairs \in Nat /\ MaxSeals \in Nat /\ MaxMisuses \in Nat

VARIABLES
    box_sk, box_pk,  \* the two buffers crypto_box_keypair fills, of each party
    keypairs,        \* calls of crypto_box_keypair so far
    torn,            \* history: parties whose last call of it failed
    sealed,          \* history: the calls that sealed, with the box of each
    opened           \* the last opening: what it was given, ret and m

secretBoxVars == <<box_sk, box_pk, keypairs, torn, sealed, opened>>

\* d: below 32, exactly 32, more, above the 256 MB the stream accepts.
Lengths == {"short", "empty", "whole", "huge"}

SecretBoxInit ==
    /\ box_sk = [p \in Parties |-> NULL]
    /\ box_pk = [p \in Parties |-> NULL]
    /\ keypairs = 0
    /\ torn = {}
    /\ sealed = {}
    /\ opened = NULL

-----------------------------------------------------------------------------
(* Terms *)
XorTerms(a, b) == (a \ b) \union (b \ a)

Pad == {<<"pad">>}           \* head bytes the caller did not zero
Stale == {<<"stale">>}       \* what an output buffer held before the call
Text(t) == {<<"text", t>>}

\* crypto_stream: hsalsa20 on the first half of the nonce, then salsa20.
Stream(k, n, part) == {<<"stream", k, n, part>>}

\* Variant: the authenticator is given none of the ciphertext.
MacOfNothing(key, d, body) == {<<"mac", key, d, {}>>}

\* crypto_onetimeauth: the length is authenticated with the bytes.
Mac(key, d, body) == {<<"mac", key, d, body>>}

\* crypto_scalarmult_base, crypto_scalarmult followed by hsalsa20: what two
\* parties compute, each from its own scalar, is the same.
Point(x) == {x}
BeforeNm(x, point) == point \union {x}

-----------------------------------------------------------------------------
(* crypto_stream_xor: c is left alone when it is refused *)
Refused(d, overlap) == d = "huge" \/ overlap

StreamXor(c, m, d, overlap, n, k) ==
    IF Refused(d, overlap)
    THEN c
    ELSE [head |-> XorTerms(m.head, Stream(k, n, "head")),
          tag |-> XorTerms(m.tag, Stream(k, n, "tag")),
          body |-> IF d = "empty" THEN {} ELSE XorTerms(m.body, Stream(k, n, "body"))]

Zeroed == [head |-> {}, tag |-> {}, body |-> {}]

\* What crypto_secretbox leaves in c: the first 32 bytes of the stream, which
\* it finds in c, key the authenticator, and c[0..15] is zeroed.
Secretbox(c, m, d, overlap, n, k) ==
    LET x == StreamXor(c, m, d, overlap, n, k)
    IN  [head |-> {}, tag |-> Mac(<<x.head, x.tag>>, d, x.body), body |-> x.body]

\* The authenticator of c under the stream of k and n.
Verifies(c, d, n, k) ==
    c.tag = Mac(<<Stream(k, n, "head"), Stream(k, n, "tag")>>, d, c.body)

\* Variant: the stream is run and m cleared before the authenticator is checked.
SecretboxOpenEarly(m, c, d, overlap, n, k) ==
    [Zeroed EXCEPT !.body = StreamXor(m, c, d, overlap, n, k).body]

\* What crypto_secretbox_open leaves in m; only a verified box is written.
SecretboxOpen(m, c, d, overlap, n, k) ==
    IF Verifies(c, d, n, k)
    THEN [head |-> {}, tag |-> {}, body |-> StreamXor(m, c, d, overlap, n, k).body]
    ELSE m

-----------------------------------------------------------------------------
(* crypto_box_keypair *)
\* 32 random bytes have not been drawn before.
Drawn == keypairs + 1

Keypair(p, x, point) ==
    /\ keypairs < MaxKeypairs
    /\ keypairs' = keypairs + 1
    /\ box_sk' = [box_sk EXCEPT ![p] = x]
    /\ box_pk' = [box_pk EXCEPT ![p] = point]
    /\ UNCHANGED <<sealed, opened>>

\* Variant: the public key is derived before the scalar is drawn.
BoxKeypairStale(p) ==
    /\ Keypair(p, Drawn, Point(IF box_sk[p] = NULL THEN Drawn ELSE box_sk[p]))
    /\ torn' = torn \ {p}

BoxKeypair(p) == Keypair(p, Drawn, Point(Drawn)) /\ torn' = torn \ {p}

\* randombytes_safe fails with x partly written: the old public key stays.
BoxKeypairFails(p) == Keypair(p, Drawn, box_pk[p]) /\ torn' = torn \union {p}

-----------------------------------------------------------------------------
(* crypto_secretbox and crypto_box; a short message is refused at once *)
\* The call that made s ran its stream over a message with its pad zeroed.
WellSealed(s) == ~Refused(s.d, s.overlap) /\ s.m.head = {}

Seal(k, pair, n, t, pad, d, overlap) ==
    LET m == [head |-> pad, tag |-> {}, body |-> IF d = "empty" THEN {} ELSE Text(t)]
        c == IF overlap THEN m ELSE Zeroed
    IN  /\ Cardinality(sealed) < MaxSeals
        /\ d # "short"
        /\ sealed' = sealed \union
               {[key |-> k, pair |-> pair, nonce |-> n, m |-> m, d |-> d,
                 overlap |-> overlap, box |-> Secretbox(c, m, d, overlap, n, k)]}
        /\ Cardinality({s \in sealed' : s.m.head # {}})
             + Cardinality({s \in sealed' : s.overlap})
             + Cardinality({s \in sealed' : s.d = "huge"}) <= MaxMisuses
        /\ UNCHANGED <<box_sk, box_pk, keypairs, torn, opened>>

\* Which pairs a box was made with; NULL when the key was given.
Pair(p, q) == <<p, box_pk[p], q, box_pk[q], torn \intersect {p, q}>>
HavePairs(p, q) == p # q /\ box_sk[p] # NULL /\ box_pk[p] # NULL /\ box_pk[q] # NULL

SealSecretbox(k, n, t, pad, d, overlap) == Seal(k, NULL, n, t, pad, d, overlap)

SealBox(p, q, n, t, pad, d, overlap) ==
    /\ HavePairs(p, q)
    /\ Seal(BeforeNm(box_sk[p], box_pk[q]), Pair(p, q), n, t, pad, d, overlap)

-----------------------------------------------------------------------------
(* crypto_secretbox_open and crypto_box_open of a box whose tag, body and
   first 16 bytes may come from different boxes *)
Arrived ==
    {[head |-> head, tag |-> a.box.tag, body |-> b.box.body, d |-> b.d] :
         head \in {{}, Pad}, a \in sealed, b \in sealed}
        \union {[head |-> {}, tag |-> {}, body |-> {}, d |-> "short"]}

Open(k, pair, n, c, overlap) ==
    LET m == IF overlap THEN [head |-> c.head, tag |-> c.tag, body |-> c.body]
                        ELSE [head |-> Stale, tag |-> Stale, body |-> Stale]
        verified == c.d # "short" /\ Verifies(c, c.d, n, k)
    IN  /\ opened' = [key |-> k, pair |-> pair, nonce |-> n, c |-> c,
                      overlap |-> overlap, old |-> m,
                      ret |-> IF verified THEN 0 ELSE -1,
                      m |-> IF c.d = "short" THEN m
                            ELSE SecretboxOpen(m, c, c.d, overlap, n, k)]
        /\ UNCHANGED <<box_sk, box_pk, keypairs, torn, sealed>>

OpenSecretbox(k, n, c, overlap) == Open(k, NULL, n, c, overlap)

OpenBox(q, p, n, c, overlap) ==
    /\ HavePairs(q, p)
    /\ Open(BeforeNm(box_sk[q], box_pk[p]), Pair(p, q), n, c, overlap)

\* The caller is done with m.
Discard ==
    /\ opened # NULL
    /\ opened' = NULL
    /\ UNCHANGED <<box_sk, box_pk, keypairs, torn, sealed>>

Call ==
    \/ \E p \in Parties : BoxKeypair(p) \/ BoxKeypairFails(p)
    \/ \E n \in Nonces, t \in Plaintexts, pad \in {{}, Pad}, d \in Lengths,
          overlap \in BOOLEAN :
           \/ \E k \in SymmetricKeys : SealSecretbox(k, n, t, pad, d, overlap)
           \/ \E p, q \in Parties : SealBox(p, q, n, t, pad, d, overlap)
    \/ \E c \in Arrived, n \in Nonces, overlap \in BOOLEAN :
           \/ \E k \in SymmetricKeys : OpenSecretbox(k, n, c, overlap)
           \/ \E p, q \in Parties : OpenBox(q, p, n, c, overlap)

SecretBoxNext ==
    \/ opened = NULL /\ Call
    \/ Discard

SecretBoxSpec == SecretBoxInit /\ [][SecretBoxNext]_secretBoxVars
-----------------------------------------------------------------------------
Keys == SymmetricKeys \union SUBSET Nat

SecretBoxTypeOK ==
    /\ box_sk \in [Parties -> Nat \union {NULL}]
    /\ box_pk \in [Parties -> (SUBSET Nat) \union {NULL}]
    /\ keypairs \in Nat
    /\ torn \subseteq Parties
    /\ \A s \in sealed :
           /\ s.key \in Keys /\ s.nonce \in Nonces
           /\ s.d \in Lengths \ {"short"} /\ s.overlap \in BOOLEAN
    /\ opened # NULL => opened.key \in Keys /\ opened.ret \in {0, -1}

(* An opening that returns 0 was given the key and the nonce of one sealing
   call whose stream ran over a zeroed pad, whatever parts of boxes were put
   together; with buffers that do not overlap, m then holds that call's message,
   pad included.  The returns of the stream that secretbox and secretbox_open
   ignore never turn into another message. *)
OpenedWasSealed ==
    opened # NULL /\ opened.ret = 0 =>
        \E s \in sealed :
            /\ WellSealed(s)
            /\ s.key = opened.key /\ s.nonce = opened.nonce /\ s.d = opened.c.d
            /\ ~opened.overlap => opened.m = s.m

(* A box made over a zeroed pad and not refused opens with its key and nonce;
   one made by crypto_box opens for its reader as long as both parties keep the
   pairs it was made with and neither pair was torn by a failed generation.
   The bytes the box leaves unauthenticated, 0..15, do not matter. *)
SealedBoxOpens ==
    \A s \in sealed :
        /\ opened # NULL /\ WellSealed(s)
        /\ opened.c.tag = s.box.tag /\ opened.c.body = s.box.body
        /\ opened.c.d = s.d /\ opened.nonce = s.nonce /\ opened.pair = s.pair
        /\ IF s.pair = NULL THEN opened.key = s.key
                            ELSE s.pair[5] = {}
        => opened.ret = 0 /\ (opened.overlap \/ opened.m = s.m)

(* A box that is not verified leaves m as it was, nothing of its stream or of the
   zeroes in front; a verified one leaves 32 zeroed bytes there, also where the
   stream refuses the call.  OpenedWasSealed says what follows them. *)
WhatOpenLeaves ==
    opened # NULL =>
        /\ opened.ret = -1 => opened.m = opened.old
        /\ opened.ret = 0 => opened.m.head = {} /\ opened.m.tag = {}
=============================================================================
